---------------------------- MODULE MCButtonTask ----------------------------
(***************************************************************************)
(* ButtonTask with the values of its configuration; the assumption on the  *)
(* constants is checked with them.                                         *)
(***************************************************************************)
EXTENDS ButtonTask
=============================================================================
