--------------------------- MODULE MCScheduleClock ---------------------------
(***************************************************************************)
(* Values for the constants of ScheduleClock: a week of two days of two    *)
(* minutes, and plans for the last minute of a day and for any day.        *)
(***************************************************************************)
EXTENDS ScheduleClock

TwoRelays == <<1, 2>>

Plan(on, relays, once, days, minute) ==
  [active |-> TRUE, on |-> on, relays |-> relays, once |-> once, days |-> days,
   minute |-> minute]

SomePlans ==
  {Plan(TRUE, {1, 2}, TRUE, {}, 0), Plan(FALSE, {1, 2}, FALSE, {0}, 1),
   Plan(TRUE, {2}, FALSE, {0, 1}, 0),
   [Plan(TRUE, {1}, FALSE, {0, 1}, 0) EXCEPT !.active = FALSE]}
=============================================================================
