----------------------------- MODULE MCAppMain -----------------------------
(***************************************************************************)
(* Values for the constants of AppMain.                                    *)
(***************************************************************************)
EXTENDS AppMain

CONSTANTS c1, c2, r1, r2, main

\* Just below the limit, and at it.
AroundLimit == {Limit - 1, Limit}
=============================================================================
