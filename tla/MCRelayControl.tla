--------------------------- MODULE MCRelayControl ---------------------------
(***************************************************************************)
(* Values for the constants of RelayControl: the inverted relay alone, or  *)
(* with one that is not.                                                   *)
(***************************************************************************)
EXTENDS RelayControl

CONSTANTS s1, s2

OneRelay  == <<2>>
TwoRelays == <<1, 2>>

TurnOn    == [relays |-> {2}, on |-> TRUE, once |-> TRUE]
TurnOff   == [relays |-> {2}, on |-> FALSE, once |-> FALSE]
OnPlan    == {TurnOn}
OnOffPlan == {TurnOn, TurnOff}
=============================================================================
