-------------------------- MODULE ButtonTask_proofs --------------------------
(***************************************************************************)
(* Proofs about ButtonTask, for any width of the tick count, any interval  *)
(* and thresholds, and any delay of a poll.                                *)
(***************************************************************************)
EXTENDS ButtonTask, TLAPS

LEMMA ModRange ==
  ASSUME NEW n \in Int, NEW w \in Nat \ {0}
  PROVE  n % w \in 0 .. w - 1
OBVIOUS

LEMMA WrapPositive == WRAP \in Nat \ {0}
BY ButtonTaskAssumption

\* The wake-up that vTaskDelayUntil computes, and what the task does until then.
LEMMA DelayType ==
  ASSUME TypeOK, vTaskDelayUntil
  PROVE  last_wake_time' \in Ticks /\ pc' \in {"poll", "sleep"}
<1>1. last_wake_time + delay_interval \in Int
  BY ButtonTaskAssumption, WrapPositive DEF TypeOK, Ticks, delay_interval
<1>2. (last_wake_time + delay_interval) % WRAP \in Ticks
  BY <1>1, WrapPositive, ModRange DEF Ticks
<1> QED BY <1>2 DEF vTaskDelayUntil

LEMMA TypeInit == Init => TypeOK
<1> SUFFICES ASSUME Init PROVE TypeOK
  OBVIOUS
<1>1. 0 \in Ticks /\ 0 \in 0 .. Slack /\ 0 \in 0 .. MaxDown
  BY ButtonTaskAssumption, WrapPositive DEF Ticks
<1> QED BY <1>1 DEF Init, TypeOK

LEMMA PollType ==
  ASSUME TypeOK, Poll \/ HandlerReturns
  PROVE  TypeOK'
<1>1. 0 \in 0 .. Slack /\ 0 \in 0 .. MaxDown
  BY ButtonTaskAssumption
<1>2. CASE PollIdle \/ PollDown \/ PollHold \/ HandlerReturns
  <2>1. last_wake_time' \in Ticks /\ pc' \in {"poll", "sleep"}
    BY <1>2, DelayType DEF PollIdle, PollDown, PollHold, HandlerReturns
  <2>2. UNCHANGED <<tick, down, held, muffled, pushed>>
    BY <1>2 DEF PollIdle, PollDown, PollHold, HandlerReturns, history
  <2>3. /\ press_start_time' \in Ticks /\ buttonState' \in {"IDLE", "PRESSED", "HOLD"}
        /\ gap' \in BOOLEAN
    BY <1>2 DEF PollIdle, PollDown, PollHold, HandlerReturns, history, button, TypeOK
  <2>4. late' \in 0 .. Slack
    BY <1>1, <1>2 DEF PollIdle, PollDown, PollHold, HandlerReturns, TypeOK
  <2> QED BY <2>1, <2>2, <2>3, <2>4 DEF TypeOK
<1>3. CASE PollUp
  BY <1>1, <1>3 DEF PollUp, Event, Handlers, TypeOK
<1> QED BY <1>2, <1>3 DEF Poll

LEMMA OutsideType ==
  ASSUME TypeOK, Push \/ Release \/ Tick
  PROVE  TypeOK'
<1>1. CASE Push
  <2>1. gap' \in BOOLEAN /\ muffled' \in BOOLEAN /\ down' \in BOOLEAN /\ pushed' \in BOOLEAN
    BY <1>1, Zenon DEF Push
  <2>2. held' \in 0 .. MaxDown
    BY <1>1, ButtonTaskAssumption DEF Push
  <2>3. UNCHANGED <<tick, buttonState, press_start_time, last_wake_time, pc, late>>
    BY <1>1 DEF Push, button
  <2> QED BY <2>1, <2>2, <2>3 DEF TypeOK
<1>2. CASE Release
  BY <1>2 DEF Release, TypeOK, button, history
<1>3. CASE Tick
  <2>1. tick' \in Ticks
    <3>1. tick + 1 \in Int /\ tick' = (tick + 1) % WRAP
      BY <1>3 DEF Tick, TypeOK, Ticks
    <3> QED BY <3>1, WrapPositive, ModRange DEF Ticks
  <2>2. late' \in 0 .. Slack
    BY <1>3, ButtonTaskAssumption DEF Tick, TypeOK
  <2>3. held' \in 0 .. MaxDown
    BY <1>3, ButtonTaskAssumption DEF Tick, TypeOK
  <2>4. pc' \in {"poll", "sleep"} \cup Handlers
    BY <1>3 DEF Tick, TypeOK
  <2> QED BY <1>3, <2>1, <2>2, <2>3, <2>4 DEF Tick, TypeOK, button
<1> QED BY <1>1, <1>2, <1>3

LEMMA TypeStep == TypeOK /\ [Next]_vars => TypeOK'
<1> SUFFICES ASSUME TypeOK, [Next]_vars PROVE TypeOK'
  OBVIOUS
<1>1. CASE UNCHANGED vars
  BY <1>1 DEF vars, TypeOK
<1>2. CASE Next
  BY <1>2, PollType, OutsideType DEF Next
<1> QED BY <1>1, <1>2

\* The tick counts stay within their width, and the state machine in its states.
THEOREM TypeCorrect == Spec => []TypeOK
BY TypeInit, TypeStep, PTL DEF Spec

-----------------------------------------------------------------------------
\* A press that has been seen, or can be, has had no event yet.
Owed == pushed \in BOOLEAN /\ (down \/ buttonState = "PRESSED" => pushed)

LEMMA OwedInit == Init => Owed
BY DEF Init, Owed

LEMMA OwedNext == Owed /\ [Next]_vars => Owed'
<1> SUFFICES ASSUME Owed, [Next]_vars PROVE Owed'
  OBVIOUS
<1>1. CASE PollIdle \/ PollDown \/ PollHold \/ HandlerReturns
  BY <1>1 DEF PollIdle, PollDown, PollHold, HandlerReturns, button, history, Owed
<1>2. CASE PollUp
  BY <1>2 DEF PollUp, Owed
<1>3. CASE Push
  BY <1>3 DEF Push, Owed
<1>5. CASE Release \/ Tick
  BY <1>5 DEF Release, Tick, button, history, Owed
<1>4. CASE UNCHANGED vars
  BY <1>4 DEF vars, Owed
<1> QED BY <1>1, <1>2, <1>3, <1>4, <1>5 DEF Next, Poll

\* No press raises two events, however many polls are made up for at once after a
\* handler, and however long the handler was blocked.
THEOREM EventsHavePresses == Spec => OneEventPerPress
<1>1. Owed /\ [Next]_vars => [pc' \in Handlers /\ pc # pc' => pushed]_vars
  <2> SUFFICES ASSUME Owed, Next, pc' \in Handlers, pc # pc' PROVE pushed
    OBVIOUS
  <2>1. CASE PollIdle \/ PollDown \/ PollHold \/ HandlerReturns
    BY <2>1 DEF PollIdle, PollDown, PollHold, HandlerReturns, vTaskDelayUntil, Handlers
  <2>2. CASE PollUp
    BY <2>2 DEF PollUp, Owed
  <2>3. CASE Push \/ Release \/ Tick
    BY <2>3 DEF Push, Release, Tick, Handlers
  <2> QED BY <2>1, <2>2, <2>3 DEF Next, Poll
<1> QED BY <1>1, OwedInit, OwedNext, PTL DEF Spec, OneEventPerPress

-----------------------------------------------------------------------------
(***************************************************************************)
(* How well the polls measure a press.  The tick counts wrap, so the       *)
(* invariant is about differences: Ahead, the ticks until the next         *)
(* wake-up, and Elapsed, the ticks since the press was seen.  Since is how *)
(* long ago, at most, the task polled last.                                *)
(***************************************************************************)

LEMMA ModFacts ==
  ASSUME NEW w \in Nat \ {0}
  PROVE  /\ \A x \in 0 .. w - 1 : x % w = x
         /\ \A x \in w .. 2 * w - 1 : x % w = x - w
         /\ \A x \in -w .. -1 : x % w = x + w
<1>1. ASSUME NEW x \in 0 .. w - 1 PROVE x % w = x
  OBVIOUS
<1>2. ASSUME NEW x \in w .. 2 * w - 1 PROVE x % w = x - w
  OBVIOUS
<1>3. ASSUME NEW x \in -w .. -1 PROVE x % w = x + w
  OBVIOUS
<1> QED BY <1>1, <1>2, <1>3

\* The ticks from a to b, forwards and across the wrap.
LEMMA Distance ==
  ASSUME NEW a \in Ticks, NEW b \in Ticks
  PROVE  /\ (b - a) % WRAP = IF b >= a THEN b - a ELSE b - a + WRAP
         /\ (b - a) % WRAP \in Ticks
<1>1. WRAP \in Nat \ {0} /\ a \in 0 .. WRAP - 1 /\ b \in 0 .. WRAP - 1
  BY WrapPositive DEF Ticks
<1>2. CASE b >= a
  <2>1. b - a \in 0 .. WRAP - 1
    BY <1>1, <1>2
  <2> QED BY <1>1, <1>2, <2>1, ModFacts DEF Ticks
<1>3. CASE ~(b >= a)
  <2>1. b - a \in -WRAP .. -1
    BY <1>1, <1>3
  <2>2. (b - a) % WRAP = b - a + WRAP
    BY <1>1, <2>1, ModFacts
  <2> QED BY <1>1, <1>3, <2>2 DEF Ticks
<1> QED BY <1>2, <1>3

\* d ticks after a.
LEMMA Later ==
  ASSUME NEW a \in Ticks, NEW d \in Ticks
  PROVE  (a + d) % WRAP = IF a + d < WRAP THEN a + d ELSE a + d - WRAP
<1>1. WRAP \in Nat \ {0} /\ a \in 0 .. WRAP - 1 /\ d \in 0 .. WRAP - 1
  BY WrapPositive DEF Ticks
<1> DEFINE x == a + d
<1>2. CASE x < WRAP
  <2>1. x \in 0 .. WRAP - 1
    BY <1>1, <1>2
  <2> HIDE DEF x
  <2>2. x % WRAP = x
    BY <1>1, <2>1, ModFacts
  <2>3. x % WRAP = IF x < WRAP THEN x ELSE x - WRAP
    BY <1>2, <2>2
  <2> QED BY <1>1, <2>3 DEF x
<1>3. CASE ~(x < WRAP)
  <2>1. x \in WRAP .. 2 * WRAP - 1
    BY <1>1, <1>3
  <2> HIDE DEF x
  <2>2. x % WRAP = x - WRAP
    BY <1>1, <2>1, ModFacts
  <2>3. x % WRAP = IF x < WRAP THEN x ELSE x - WRAP
    BY <1>3, <2>2
  <2> QED BY <1>1, <2>3 DEF x
<1> QED BY <1>2, <1>3

Ahead == (last_wake_time - tick) % WRAP
Since == IF pc = "sleep" THEN Interval - Ahead ELSE Interval + late

\* A handler runs only between two presses.
Calls == pc \in Handlers => buttonState # "PRESSED" /\ late = 0 /\ (down => muffled)

Sleeping == pc = "sleep" => late = 0 /\ Ahead \in 1 .. Interval

\* What is down while the task waits for the release of a hold was pushed then.
Holding == buttonState = "HOLD" /\ down => muffled

\* A press that no poll has seen is younger than the last poll.
Unseen == buttonState = "IDLE" /\ down /\ ~muffled => held <= Since

\* A press that was seen is as long as the polls say, give or take one of them.
Measured ==
  buttonState = "PRESSED" /\ ~gap =>
    /\ down => Elapsed <= held
    /\ ~down => Elapsed <= held + Since
    /\ ~muffled => held <= Elapsed + Slop

BInv == TypeOK /\ Calls /\ Sleeping /\ Holding /\ Unseen /\ Measured

LEMMA BInvInit == Init => BInv
<1> SUFFICES ASSUME Init PROVE BInv
  OBVIOUS
<1>1. TypeOK
  BY TypeInit
<1>2. held <= Since
  BY ButtonTaskAssumption DEF Init, Since
<1> QED BY <1>1, <1>2 DEF Init, BInv, Calls, Sleeping, Holding, Unseen, Measured, Handlers

\* Once it has slept, or has not had to, the task polls again within the interval.
LEMMA DelayFacts ==
  ASSUME TypeOK, vTaskDelayUntil, tick' = tick
  PROVE  /\ pc' \in {"poll", "sleep"}
         /\ pc' = "sleep" => Ahead' \in 1 .. Interval
<1> DEFINE wake == (last_wake_time + Interval) % WRAP
<1>1. WRAP \in Nat /\ Interval \in 1 .. WRAP - 1 /\ Interval \in Ticks
  BY ButtonTaskAssumption DEF Ticks
<1>2. tick \in Ticks /\ last_wake_time \in Ticks /\ tick \in Int /\ last_wake_time \in Int
  BY DEF TypeOK, Ticks
<1>3. wake = IF last_wake_time + Interval < WRAP THEN last_wake_time + Interval
             ELSE last_wake_time + Interval - WRAP
  BY <1>1, <1>2, Later
<1>4. /\ last_wake_time' = wake
      /\ pc' = IF (wake < last_wake_time) = (tick < last_wake_time)
                 THEN IF wake > tick THEN "sleep" ELSE "poll"
                 ELSE IF wake < last_wake_time THEN "sleep" ELSE "poll"
  BY DEF vTaskDelayUntil, delay_interval
<1> HIDE DEF wake
<1>5. wake \in Ticks
  BY <1>1, <1>2, <1>3 DEF Ticks
<1>6. Ahead' = IF wake >= tick THEN wake - tick ELSE wake - tick + WRAP
  BY <1>2, <1>4, <1>5, Distance DEF Ahead
<1>7. ASSUME pc' = "sleep" PROVE Ahead' \in 1 .. Interval
  <2>1. CASE wake < last_wake_time /\ tick < last_wake_time
    BY <1>1, <1>2, <1>3, <1>4, <1>5, <1>6, <1>7, <2>1 DEF Ticks
  <2>2. CASE ~(wake < last_wake_time) /\ ~(tick < last_wake_time)
    BY <1>1, <1>2, <1>3, <1>4, <1>5, <1>6, <1>7, <2>2 DEF Ticks
  <2>3. CASE wake < last_wake_time /\ ~(tick < last_wake_time)
    BY <1>1, <1>2, <1>3, <1>4, <1>5, <1>6, <1>7, <2>3 DEF Ticks
  <2>4. CASE ~(wake < last_wake_time) /\ tick < last_wake_time
    BY <1>4, <1>7, <2>4
  <2> QED BY <2>1, <2>2, <2>3, <2>4
<1> QED BY <1>4, <1>7

LEMMA SinceFacts ==
  ASSUME TypeOK, Sleeping
  PROVE  Since \in 0 .. Slop
<1>1. Interval \in Nat /\ Slack \in Nat /\ late \in 0 .. Slack
  BY ButtonTaskAssumption DEF TypeOK
<1>2. CASE pc = "sleep"
  <2>1. Ahead \in 1 .. Interval
    BY <1>2 DEF Sleeping
  <2> QED BY <1>1, <1>2, <2>1 DEF Since, Slop
<1>3. CASE pc # "sleep"
  BY <1>1, <1>3 DEF Since, Slop
<1> QED BY <1>2, <1>3

\* After a poll, or the return of a handler, the task sleeps or polls again.
LEMMA PollAgain ==
  ASSUME BInv, vTaskDelayUntil, tick' = tick, late' = 0, TypeOK'
  PROVE  Calls' /\ Sleeping' /\ Since' \in 0 .. Slop
<1>1. pc' \in {"poll", "sleep"} /\ (pc' = "sleep" => Ahead' \in 1 .. Interval)
  BY DelayFacts DEF BInv
<1>2. Calls' /\ Sleeping'
  BY <1>1 DEF Calls, Sleeping, Handlers
<1>3. Interval \in Nat /\ Slack \in Nat
  BY ButtonTaskAssumption
<1>4. Since' \in 0 .. Slop
  BY <1>1, <1>3 DEF Since, Slop
<1> QED BY <1>2, <1>4

LEMMA BInvPollIdle ==
  ASSUME BInv, PollIdle
  PROVE  BInv'
<1>1. TypeOK'
  BY PollType DEF BInv, Poll
<1>2. /\ buttonState = "IDLE" /\ pc = "poll" /\ vTaskDelayUntil /\ late' = 0
      /\ UNCHANGED <<tick, down, held, muffled, pushed>>
  BY DEF PollIdle
<1>3. Calls' /\ Sleeping' /\ Since' \in 0 .. Slop
  BY <1>1, <1>2, PollAgain
<1>4. /\ down => buttonState' = "PRESSED" /\ press_start_time' = tick
      /\ ~down => buttonState' = "IDLE"
  BY <1>2 DEF PollIdle, button
<1>5. Holding' /\ Unseen'
  BY <1>2, <1>4 DEF Holding, Unseen
<1>6. Measured'
  <2>1. CASE down
    <3>1. Elapsed' = 0
      <4>1. tick \in Ticks
        BY DEF BInv, TypeOK
      <4>2. (tick - tick) % WRAP = tick - tick
        BY <4>1, Distance DEF Ticks
      <4> QED BY <1>2, <1>4, <2>1, <4>1, <4>2 DEF Elapsed, Ticks
    <3>2. held \in Nat /\ Since \in 0 .. Slop /\ Slop \in Nat
      BY SinceFacts, ButtonTaskAssumption DEF BInv, TypeOK, Slop
    <3>3. ~muffled => held <= Since
      BY <1>2, <2>1 DEF BInv, Unseen
    <3>4. 0 <= held /\ (~muffled => held <= 0 + Slop)
      BY <3>2, <3>3
    <3>5. Slop' = Slop
      BY DEF Slop
    <3> QED BY <1>2, <2>1, <3>1, <3>4, <3>5 DEF Measured
  <2>2. CASE ~down
    BY <1>4, <2>2 DEF Measured
  <2> QED BY <2>1, <2>2
<1> QED BY <1>1, <1>3, <1>5, <1>6 DEF BInv

LEMMA BInvPollDown ==
  ASSUME BInv, PollDown
  PROVE  BInv'
<1>1. TypeOK'
  BY PollType DEF BInv, Poll
<1>2. /\ buttonState = "PRESSED" /\ down /\ vTaskDelayUntil /\ late' = 0
      /\ UNCHANGED <<tick, down, button, history>>
  BY DEF PollDown
<1>3. Calls' /\ Sleeping'
  BY <1>1, <1>2, PollAgain DEF history
<1>4. UNCHANGED <<tick, down, buttonState, press_start_time, held, gap, muffled>>
  BY <1>2 DEF button, history
<1>5. Holding' /\ Unseen' /\ Measured'
  BY <1>2, <1>4 DEF BInv, Holding, Unseen, Measured, Elapsed, Slop
<1> QED BY <1>1, <1>3, <1>5 DEF BInv

LEMMA BInvPollUp ==
  ASSUME BInv, PollUp
  PROVE  BInv'
<1>1. TypeOK'
  BY PollType DEF BInv, Poll
<1>2. /\ ~down' /\ buttonState' \in {"IDLE", "HOLD"} /\ late' = 0 /\ pc' \in Handlers
  BY DEF PollUp, Event, Handlers
<1>3. Calls' /\ Sleeping' /\ Holding' /\ Unseen' /\ Measured'
  BY <1>2 DEF Calls, Sleeping, Holding, Unseen, Measured, Handlers
<1> QED BY <1>1, <1>3 DEF BInv

LEMMA BInvPollHold ==
  ASSUME BInv, PollHold
  PROVE  BInv'
<1>1. TypeOK'
  BY PollType DEF BInv, Poll
<1>2. /\ buttonState = "HOLD" /\ vTaskDelayUntil /\ late' = 0
      /\ UNCHANGED <<tick, down, press_start_time, held, gap, muffled>>
      /\ buttonState' = IF down THEN "HOLD" ELSE "IDLE"
  BY DEF PollHold, history
<1>3. Calls' /\ Sleeping'
  BY <1>1, <1>2, PollAgain
<1>4. Holding' /\ Unseen' /\ Measured'
  BY <1>2 DEF BInv, Holding, Unseen, Measured
<1> QED BY <1>1, <1>3, <1>4 DEF BInv

LEMMA BInvReturns ==
  ASSUME BInv, HandlerReturns
  PROVE  BInv'
<1>1. TypeOK'
  BY PollType DEF BInv
<1>2. /\ pc \in Handlers /\ vTaskDelayUntil
      /\ UNCHANGED <<tick, down, buttonState, press_start_time, late, held, gap, muffled>>
  BY DEF HandlerReturns, history, button
<1>3. late' = 0 /\ buttonState # "PRESSED" /\ (down => muffled)
  BY <1>2 DEF BInv, Calls
<1>4. Calls' /\ Sleeping'
  BY <1>1, <1>2, <1>3, PollAgain
<1>5. Holding' /\ Unseen' /\ Measured'
  BY <1>2, <1>3 DEF BInv, Holding, Unseen, Measured
<1> QED BY <1>1, <1>4, <1>5 DEF BInv

LEMMA BInvUser ==
  ASSUME BInv, Push \/ Release
  PROVE  BInv'
<1>1. TypeOK'
  BY OutsideType DEF BInv
<1>2. UNCHANGED <<tick, buttonState, press_start_time, last_wake_time, pc, late>>
  BY DEF Push, Release, button
<1>3. Ahead' = Ahead /\ Since' = Since /\ Elapsed' = Elapsed /\ Since \in 0 .. Slop
  BY <1>2, SinceFacts DEF Ahead, Since, Elapsed, BInv
<1>4. Sleeping'
  BY <1>2, <1>3 DEF BInv, Sleeping
<1>5. CASE Push
  <2>1. /\ ~down /\ down' /\ held' = 0 /\ (gap' <=> buttonState = "PRESSED")
        /\ (muffled' <=> pc \in Handlers \/ buttonState = "HOLD")
    BY <1>5 DEF Push
  <2>2. Calls' /\ Holding'
    BY <1>2, <2>1 DEF BInv, Calls, Holding
  <2>3. Unseen'
    BY <1>3, <2>1 DEF Unseen, Slop
  <2>4. Measured'
    BY <1>2, <2>1 DEF Measured
  <2> QED BY <1>1, <1>4, <2>2, <2>3, <2>4 DEF BInv
<1>6. CASE Release
  <2>1. down /\ ~down' /\ UNCHANGED <<held, gap, muffled>>
    BY <1>6 DEF Release, history
  <2>2. Calls' /\ Holding' /\ Unseen'
    BY <1>2, <2>1 DEF BInv, Calls, Holding, Unseen
  <2>3. Measured'
    <3>1. held \in Nat /\ Since \in Nat
      BY <1>3, ButtonTaskAssumption DEF BInv, TypeOK, Slop
    <3>2. ASSUME buttonState = "PRESSED", ~gap
          PROVE  /\ Elapsed <= held + Since
                 /\ ~muffled => held <= Elapsed + Slop
      <4>1. Elapsed <= held /\ Elapsed \in Int
        <5>1. Elapsed \in Ticks
          BY Distance DEF Elapsed, BInv, TypeOK
        <5> QED BY <2>1, <3>2, <5>1 DEF BInv, Measured, Ticks
      <4>2. Elapsed <= held + Since
        BY <3>1, <4>1
      <4> QED BY <3>2, <4>2 DEF BInv, Measured
    <3>3. Slop' = Slop
      BY DEF Slop
    <3> QED BY <1>2, <1>3, <2>1, <3>2, <3>3 DEF Measured
  <2> QED BY <1>1, <1>4, <2>2, <2>3 DEF BInv
<1> QED BY <1>5, <1>6

\* One tick brings the wake-up nearer and the last poll further away.
LEMMA TickFacts ==
  ASSUME BInv, Tick
  PROVE  /\ pc \notin Handlers => Since' = Since + 1
         /\ pc \in Handlers => pc' = pc /\ late' = late
         /\ pc \notin Handlers => pc' \in {"poll", "sleep"}
         /\ Sleeping'
         /\ Elapsed + 1 < WRAP => Elapsed' = Elapsed + 1
<1>1. /\ WRAP \in Nat /\ 1 \in Ticks /\ tick \in Ticks /\ last_wake_time \in Ticks
      /\ press_start_time \in Ticks /\ Interval \in Nat /\ late \in Nat
  BY ButtonTaskAssumption DEF BInv, TypeOK, Ticks
<1>2. /\ tick' = (tick + 1) % WRAP
      /\ pc' = IF pc = "sleep" /\ tick' = last_wake_time THEN "poll" ELSE pc
      /\ late' = IF pc = "poll" THEN late + 1 ELSE late
      /\ UNCHANGED <<last_wake_time, press_start_time>>
  BY DEF Tick, button
<1>3. tick' = IF tick + 1 < WRAP THEN tick + 1 ELSE tick + 1 - WRAP
  BY <1>1, <1>2, Later
<1>4. tick' \in Ticks
  BY <1>1, <1>3 DEF Ticks
<1>5. Elapsed + 1 < WRAP => Elapsed' = Elapsed + 1
  <2>1. Elapsed = IF tick >= press_start_time THEN tick - press_start_time
                  ELSE tick - press_start_time + WRAP
    BY <1>1, Distance DEF Elapsed
  <2>2. Elapsed' = IF tick' >= press_start_time THEN tick' - press_start_time
                   ELSE tick' - press_start_time + WRAP
    BY <1>1, <1>2, <1>4, Distance DEF Elapsed
  <2> QED BY <1>1, <1>3, <2>1, <2>2 DEF Ticks
<1>6. CASE pc = "sleep"
  <2>1. Ahead = IF last_wake_time >= tick THEN last_wake_time - tick
                ELSE last_wake_time - tick + WRAP
    BY <1>1, Distance DEF Ahead
  <2>2. Ahead' = IF last_wake_time >= tick' THEN last_wake_time - tick'
                 ELSE last_wake_time - tick' + WRAP
    BY <1>1, <1>2, <1>4, Distance DEF Ahead
  <2>3. late = 0 /\ Ahead \in 1 .. Interval
    BY <1>6 DEF BInv, Sleeping
  <2>4. Ahead' = Ahead - 1 /\ (tick' = last_wake_time <=> Ahead = 1)
    BY <1>1, <1>3, <1>4, <2>1, <2>2, <2>3 DEF Ticks
  <2>5. late' = 0
    BY <1>2, <1>6, <2>3
  <2>6. CASE Ahead = 1
    <3>1. pc' = "poll"
      BY <1>2, <1>6, <2>4, <2>6
    <3> QED BY <1>1, <1>5, <1>6, <2>3, <2>5, <2>6, <3>1 DEF Since, Sleeping, Handlers
  <2>7. CASE Ahead # 1
    <3>1. pc' = "sleep"
      BY <1>2, <1>6, <2>4, <2>7
    <3>2. Ahead' \in 1 .. Interval
      BY <1>1, <2>3, <2>4, <2>7
    <3> QED BY <1>1, <1>5, <1>6, <2>3, <2>4, <2>5, <3>1, <3>2 DEF Since, Sleeping, Handlers
  <2> QED BY <2>6, <2>7
<1>7. CASE pc = "poll"
  BY <1>1, <1>2, <1>5, <1>7 DEF Since, Sleeping, Handlers
<1>8. CASE pc \in Handlers
  BY <1>2, <1>5, <1>8 DEF Sleeping, Handlers
<1> QED BY <1>6, <1>7, <1>8 DEF BInv, TypeOK

LEMMA BInvTick ==
  ASSUME BInv, Tick
  PROVE  BInv'
<1>1. TypeOK'
  BY OutsideType DEF BInv
<1>2. /\ UNCHANGED <<down, buttonState, press_start_time, gap, muffled>>
      /\ held' = IF down THEN held + 1 ELSE held
  BY DEF Tick, button
<1>3. /\ pc \notin Handlers => Since' = Since + 1
      /\ pc \in Handlers => pc' = pc /\ late' = late
      /\ pc \notin Handlers => pc' \in {"poll", "sleep"}
      /\ Sleeping'
      /\ Elapsed + 1 < WRAP => Elapsed' = Elapsed + 1
  BY TickFacts
<1>4. /\ held \in Nat /\ held <= MaxDown /\ Since \in Nat /\ Since <= Slop
      /\ Slop \in Nat /\ Elapsed \in Nat /\ MaxDown \in Nat /\ MaxDown + Slop + 1 < WRAP
  <2>1. Elapsed \in Nat
    BY Distance DEF Elapsed, BInv, TypeOK, Ticks
  <2>2. /\ Slop \in Nat /\ MaxDown \in Nat /\ MaxDown + Slop + 1 < WRAP
    BY ButtonTaskAssumption DEF Slop
  <2>3. Since \in 0 .. Slop /\ held \in 0 .. MaxDown
    BY SinceFacts DEF BInv, TypeOK
  <2> QED BY <2>1, <2>2, <2>3
<1>5. Calls'
  BY <1>2, <1>3 DEF BInv, Calls, Handlers
<1>6. Holding'
  BY <1>2 DEF BInv, Holding
<1>7. Unseen'
  <2>1. ASSUME buttonState = "IDLE", down, ~muffled PROVE held' <= Since'
    <3>1. held <= Since /\ pc \notin Handlers
      BY <2>1 DEF BInv, Unseen, Calls
    <3> QED BY <1>2, <1>3, <1>4, <2>1, <3>1
  <2> QED BY <1>2, <2>1 DEF Unseen
<1>8. Measured'
  <2>1. ASSUME buttonState = "PRESSED", ~gap
        PROVE  /\ down => Elapsed' <= held'
               /\ ~down => Elapsed' <= held' + Since'
               /\ ~muffled => held' <= Elapsed' + Slop
    <3>1. /\ down => Elapsed <= held
          /\ ~down => Elapsed <= held + Since
          /\ ~muffled => held <= Elapsed + Slop
          /\ pc \notin Handlers
      BY <2>1 DEF BInv, Measured, Calls
    <3>2. Elapsed' = Elapsed + 1 /\ Since' = Since + 1
      <4>1. Elapsed <= MaxDown + Slop
        BY <1>4, <3>1
      <4>2. Elapsed + 1 < WRAP
        BY <1>4, <4>1, WrapPositive
      <4> QED BY <1>3, <3>1, <4>2
    <3> QED BY <1>2, <1>4, <3>1, <3>2
  <2>2. Slop' = Slop
    BY DEF Slop
  <2> QED BY <1>2, <2>1, <2>2 DEF Measured
<1> QED BY <1>1, <1>3, <1>5, <1>6, <1>7, <1>8 DEF BInv

LEMMA BInvNext == BInv /\ [Next]_vars => BInv'
<1> SUFFICES ASSUME BInv, [Next]_vars PROVE BInv'
  OBVIOUS
<1>1. CASE UNCHANGED vars
  BY <1>1 DEF vars, BInv, TypeOK, Calls, Sleeping, Holding, Unseen, Measured, Since, Ahead,
     Elapsed, Slop
<1>2. CASE Next
  BY <1>2, BInvPollIdle, BInvPollDown, BInvPollUp, BInvPollHold, BInvReturns, BInvUser,
     BInvTick DEF Next, Poll
<1> QED BY <1>1, <1>2

LEMMA BInvAlways == Spec => []BInv
BY BInvInit, BInvNext, PTL DEF Spec

\* A hold is taken for what it is give or take one poll, across the wrap of the
\* tick count and however long earlier handlers were blocked.
THEOREM HoldsMeasured == Spec => HoldsAreMeasured
<1> DEFINE Judged ==
      PollUp /\ ~gap =>
        /\ pc' = "config" => held + Slop >= Config
        /\ pc' = "hold" => held + Slop >= Smart
        /\ ~muffled => /\ pc' = "press" => held < Smart + Slop
                       /\ pc' = "hold" => held < Config + Slop
<1>1. ASSUME BInv, PollUp, ~gap PROVE Judged
  <2>1. /\ Elapsed <= held + Since
        /\ ~muffled => held <= Elapsed + Slop
    BY <1>1 DEF PollUp, BInv, Measured
  <2>2. /\ Since \in 0 .. Slop /\ Slop \in Nat /\ held \in Nat /\ Elapsed \in Int
        /\ Smart \in Nat /\ Config \in Nat
    <3>1. Elapsed \in Int
      BY <1>1, Distance DEF Elapsed, BInv, TypeOK, Ticks
    <3> QED BY <1>1, <3>1, SinceFacts, ButtonTaskAssumption DEF BInv, TypeOK, Slop
  <2>3. /\ pc' = "config" => Elapsed >= Config
        /\ pc' = "hold" => Elapsed >= Smart /\ ~(Elapsed >= Config)
        /\ pc' = "press" => ~(Elapsed >= Smart)
    BY <1>1 DEF PollUp, Event
  <2> QED BY <2>1, <2>2, <2>3
<1>2. BInv => [Judged]_vars
  BY <1>1
<1>3. []BInv => [][Judged]_vars
  BY <1>2, PTL
<1> QED BY <1>3, BInvAlways DEF HoldsAreMeasured

\* A press that outlasts a poll has been seen before it is over, unless it began
\* in a handler or before the release of the last hold was seen.
THEOREM PressesSeen == Spec => PressesAreSeen
<1> DEFINE Seen == Release /\ ~gap /\ ~muffled /\ held > Slop => buttonState = "PRESSED"
<1>1. ASSUME BInv, Release, ~muffled, held > Slop PROVE buttonState = "PRESSED"
  <2>1. down /\ buttonState \in {"IDLE", "PRESSED", "HOLD"}
    BY <1>1 DEF Release, BInv, TypeOK
  <2>2. buttonState # "HOLD"
    BY <1>1, <2>1 DEF BInv, Holding
  <2>3. ASSUME buttonState = "IDLE" PROVE FALSE
    <3>1. held <= Since
      BY <1>1, <2>1, <2>3 DEF BInv, Unseen
    <3>2. Since \in 0 .. Slop /\ held \in Nat /\ Slop \in Nat
      BY <1>1, SinceFacts, ButtonTaskAssumption DEF BInv, TypeOK, Slop
    <3> QED BY <1>1, <3>1, <3>2
  <2> QED BY <2>1, <2>2, <2>3
<1>2. BInv => [Seen]_vars
  BY <1>1
<1>3. []BInv => [][Seen]_vars
  BY <1>2, PTL
<1> QED BY <1>3, BInvAlways DEF PressesAreSeen

=============================================================================
