--------------------------- MODULE MCProvisioning ---------------------------
(***************************************************************************)
(* Values for the constants of Provisioning: two networks, of which one    *)
(* accepts what the phone sends.                                           *)
(***************************************************************************)
EXTENDS Provisioning

CONSTANTS n1, n2, p1, p2

Right == [ssid |-> n1, password |-> p1]
Wrong == [ssid |-> n2, password |-> p2]

TwoNetworks == {Right, Wrong}
OneWorks    == {Right}
=============================================================================
