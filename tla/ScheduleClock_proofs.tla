------------------------ MODULE ScheduleClock_proofs ------------------------
(***************************************************************************)
(* Proofs about ScheduleClock and NtpTime, for any calendar, time zone,    *)
(* number of retries, relays and plans.                                    *)
(***************************************************************************)
EXTENDS ScheduleClock, Integers, TLAPS

LEMMA ModRange ==
  ASSUME NEW n \in Int, NEW w \in Nat \ {0}
  PROVE  n % w \in 0 .. w - 1
OBVIOUS

LEMMA WrapsInWeek ==
  ASSUME NEW n \in Int
  PROVE  n % Week \in Time
<1>1. Week \in Nat \ {0}
  BY NtpTimeAssumption
<1> QED BY <1>1, ModRange DEF Time

-----------------------------------------------------------------------------
(* Types.                                                                  *)

TaskTypeOK ==
  /\ plan \in Plans \cup {NULL} /\ (plan = NULL <=> pc = "start")
  /\ pc \in Labels /\ next \in 1 .. Len(RelaySeq) + 1
  /\ status \in [Relays -> BOOLEAN]
  /\ complete \in BOOLEAN /\ count \in 0 .. COUNT
  /\ delay \in Nat /\ late \in 0 .. Slack
  /\ steady \in BOOLEAN /\ calm \in BOOLEAN
  /\ toggled \subseteq Relays /\ switched \subseteq Relays

\* A notification is about a relay of the loop.
SendsRelay == pc = "send" => next <= Len(RelaySeq)

LEMMA ZeroTime == Week \in Nat \ {0} /\ Time \subseteq Int /\ 0 \in Time
<1>1. Week \in Nat \ {0}
  BY NtpTimeAssumption
<1> QED BY <1>1 DEF Time

LEMMA LengthOfSeq == Len(RelaySeq) \in Nat /\ DOMAIN RelaySeq = 1 .. Len(RelaySeq)
BY ScheduleClockAssumption

LEMMA TypeInit == Init => TypeOK /\ SendsRelay
<1> SUFFICES ASSUME Init PROVE TypeOK /\ SendsRelay
  OBVIOUS
<1>1. NtpTypeOK
  <2>1. 0 \in 0 .. RETRY_COUNT /\ 0 \in 0 .. WAIT
    BY NtpTimeAssumption
  <2> QED BY <2>1, ZeroTime DEF Init, NtpInit, NtpTypeOK, Stages
<1>2. next \in 1 .. Len(RelaySeq) + 1 /\ count \in 0 .. COUNT /\ late \in 0 .. Slack
  BY LengthOfSeq, ScheduleClockAssumption DEF Init
<1> QED BY <1>1, <1>2 DEF Init, TypeOK, Labels, SendsRelay

\* The steps of obtain_time and of the time server.
LEMMA ObtainType ==
  ASSUME NtpTypeOK, Wait \/ ReadTime \/ GiveUp \/ SetTime \/ BeginObtain \/ SntpAnswers
  PROVE  NtpTypeOK'
<1> USE DEF NtpTypeOK, clock, locals, Stages
<1>1. CASE Wait
  BY <1>1, NtpTimeAssumption DEF Wait
<1>2. CASE ReadTime
  BY <1>2, ZeroTime DEF ReadTime
<1>3. CASE GiveUp
  BY <1>3, NtpTimeAssumption DEF GiveUp
<1>4. CASE SetTime
  BY <1>4, ZeroTime DEF SetTime
<1>5. CASE BeginObtain
  BY <1>5 DEF BeginObtain
<1>6. CASE SntpAnswers
  <2>1. utc + 1 \in Int /\ utc + Week - 1 \in Int
    BY ZeroTime
  <2>2. utc' \in Time
    BY <1>6, <2>1, WrapsInWeek DEF SntpAnswers
  <2> QED BY <1>6, <2>2 DEF SntpAnswers
<1> QED BY <1>1, <1>2, <1>3, <1>4, <1>5, <1>6

LEMMA AdvanceType ==
  ASSUME NtpTypeOK, Advance
  PROVE  NtpTypeOK'
<1>1. utc' \in Time
  <2>1. utc + 1 \in Int
    BY ZeroTime DEF NtpTypeOK
  <2> QED BY <2>1, WrapsInWeek DEF Advance
<1>2. left' \in 0 .. WAIT
  BY NtpTimeAssumption DEF Advance, NtpTypeOK
<1> QED BY <1>1, <1>2 DEF Advance, NtpTypeOK

LEMMA RoundType ==
  ASSUME TypeOK, SendsRelay, ScheduleStart \/ Round
  PROVE  TaskTypeOK' /\ SendsRelay'
<1> USE DEF TypeOK, TaskTypeOK, SendsRelay, Labels, history
<1>0. RelaySeq[next] \in Relays \/ next = Len(RelaySeq) + 1
  BY LengthOfSeq DEF Relays
<1>1. CASE ScheduleStart
  BY <1>1, ScheduleClockAssumption DEF ScheduleStart
<1>2. CASE ReadMinute
  <2>1. steady' \in BOOLEAN
    BY <1>2, Zenon DEF ReadMinute
  <2>2. next' \in 1 .. Len(RelaySeq) + 1
    BY <1>2, LengthOfSeq DEF ReadMinute
  <2>3. pc' \in {"relay", "end"} /\ pc = "top"
        /\ UNCHANGED <<plan, status, complete, count, delay, late, calm, toggled, switched>>
    BY <1>2 DEF ReadMinute
  <2> QED BY <2>1, <2>2, <2>3
<1>3. CASE Drive
  <2>1. RelaySeq[next] \in Relays
    BY <1>0, <1>3, LengthOfSeq DEF Drive
  <2>2. /\ status' \in [Relays -> BOOLEAN] /\ toggled' \subseteq Relays
        /\ switched' \subseteq Relays
    <3>1. plan.on \in BOOLEAN
      <4>1. plan \in Plans
        BY <1>3 DEF Drive
      <4> QED BY <4>1, ScheduleClockAssumption
    <3> QED BY <1>3, <2>1, <3>1 DEF Drive
  <2>3. /\ pc = "relay" /\ pc' = "send" /\ next <= Len(RelaySeq)
        /\ UNCHANGED <<plan, next, complete, count, delay, late, steady, calm>>
    BY <1>3 DEF Drive
  <2> QED BY <2>2, <2>3
<1>4. CASE Notified
  <2>1. next' \in 1 .. Len(RelaySeq) + 1
    BY <1>4, LengthOfSeq DEF Notified
  <2> QED BY <1>4, <2>1 DEF Notified
<1>5. CASE Skip
  <2>1. next' \in 1 .. Len(RelaySeq) + 1
    BY <1>5, LengthOfSeq DEF Skip
  <2>2. toggled' \subseteq Relays
    BY <1>5 DEF Skip
  <2> QED BY <1>5, <2>1, <2>2 DEF Skip
<1>6. CASE RelaysDone
  BY <1>6 DEF RelaysDone
<1>7. CASE Reported \/ Wake \/ Finish
  BY <1>7 DEF Reported, Wake, Finish
<1>8. CASE Sleep
  <2>1. count' \in 0 .. COUNT /\ late' \in 0 .. Slack
    BY <1>8, ScheduleClockAssumption DEF Sleep
  <2> QED BY <1>8, <2>1 DEF Sleep
<1> QED BY <1>1, <1>2, <1>3, <1>4, <1>5, <1>6, <1>7, <1>8 DEF Round

LEMMA TypeStep == TypeOK /\ SendsRelay /\ [Next]_vars => (TypeOK /\ SendsRelay)'
<1> SUFFICES ASSUME TypeOK, SendsRelay, [Next]_vars PROVE TypeOK' /\ SendsRelay'
  OBVIOUS
<1>0. NtpTypeOK /\ TaskTypeOK
  BY DEF TypeOK, TaskTypeOK
<1>1. CASE UNCHANGED vars
  BY <1>1 DEF vars, ntpVars, taskVars, history, TypeOK, NtpTypeOK, SendsRelay
<1>2. CASE ScheduleStart \/ Round
  <2>1. UNCHANGED ntpVars
    BY <1>2 DEF ScheduleStart, Round, ReadMinute, Drive, Notified, Skip, RelaysDone,
       Reported, Sleep, Wake, Finish
  <2>2. NtpTypeOK'
    BY <1>0, <2>1 DEF ntpVars, NtpTypeOK
  <2> QED BY <1>2, <2>2, RoundType DEF TypeOK, TaskTypeOK
<1>3. ASSUME NEW r \in Relays, OthersSwitch(r) PROVE TypeOK' /\ SendsRelay'
  BY <1>3 DEF OthersSwitch, TypeOK, NtpTypeOK, ntpVars, SendsRelay
<1>4. CASE Tick
  <2>1. NtpTypeOK'
    BY <1>0, <1>4, AdvanceType DEF Tick
  <2>2. late' \in 0 .. Slack /\ delay' \in Nat
    BY <1>4, ScheduleClockAssumption DEF Tick, TypeOK
  <2>3. steady' \in BOOLEAN /\ calm' \in BOOLEAN
    BY <1>4, Zenon DEF Tick
  <2>4. toggled' \subseteq Relays
    BY <1>4 DEF Tick, TypeOK
  <2>5. UNCHANGED <<plan, pc, next, status, complete, count, switched>>
    BY <1>4 DEF Tick
  <2> QED BY <1>0, <2>1, <2>2, <2>3, <2>4, <2>5 DEF TypeOK, SendsRelay
<1>5. CASE ClockSet \/ ObtainGoesOn
  <2>1. NtpTypeOK'
    BY <1>0, <1>5, ObtainType DEF ClockSet, ObtainGoesOn
  <2> QED BY <1>0, <1>5, <2>1 DEF ClockSet, ObtainGoesOn, taskVars, history, TypeOK, SendsRelay
<1>6. CASE Aborted
  BY <1>1, <1>6 DEF Aborted
<1> QED BY <1>1, <1>2, <1>3, <1>4, <1>5, <1>6 DEF Next

\* The clock, the locals of obtain_time and of the schedule, and the relays keep
\* their types.
THEOREM TypeCorrect == Spec => []TypeOK
BY TypeInit, TypeStep, PTL DEF Spec

-----------------------------------------------------------------------------
(***************************************************************************)
(* The clock: what obtain_time has seen is true, and once it has found the *)
(* time nothing but the tick is left to move it.                           *)
(***************************************************************************)
ClockInv ==
  /\ obtain \in Stages
  /\ seen => valid
  /\ obtain # "before" => zone
  /\ obtain = "synced" => valid /\ zone /\ ~sntp

LEMMA ClockInit == Init => ClockInv
BY DEF Init, NtpInit, ClockInv, Stages

\* The steps of the schedule and of those who switch relays leave the clock alone.
LEMMA TaskLeavesClock ==
  ASSUME ScheduleStart \/ Round \/ (\E r \in Relays : OthersSwitch(r)) \/ Aborted
  PROVE  UNCHANGED ntpVars
BY DEF ScheduleStart, Round, ReadMinute, Drive, Notified, Skip, RelaysDone, Reported,
   Sleep, Wake, Finish, OthersSwitch, Aborted, vars

LEMMA ClockNext == ClockInv /\ [Next]_vars => ClockInv'
<1> SUFFICES ASSUME ClockInv, [Next]_vars PROVE ClockInv'
  OBVIOUS
<1> USE DEF ClockInv, Stages, clock, locals
<1>1. CASE UNCHANGED ntpVars
  BY <1>1 DEF ntpVars
<1>2. CASE Tick
  BY <1>2 DEF Tick, Advance
<1>3. CASE ClockSet
  BY <1>3 DEF ClockSet, BeginObtain, SetTime, SntpAnswers
<1>4. CASE ObtainGoesOn
  BY <1>4 DEF ObtainGoesOn, Wait, ReadTime, GiveUp
<1> QED BY <1>1, <1>2, <1>3, <1>4, TaskLeavesClock DEF Next, vars

LEMMA ClockAlways == Spec => []ClockInv
BY ClockInit, ClockNext, PTL DEF Spec

\* Once obtain_time has found the time, schedules compare with a clock that is
\* valid and local, and that only ticks from then on.
THEOREM ClockOnlyTicks == Spec => ClockStays
<1>1. ClockInv /\ [Next]_vars =>
        [obtain = "synced" => /\ valid /\ zone
                              /\ utc' \in {utc, (utc + 1) % Week} /\ zone' = zone]_ntpVars
  <2> SUFFICES ASSUME ClockInv, [Next]_vars, obtain = "synced"
               PROVE  \/ UNCHANGED ntpVars
                      \/ valid /\ zone /\ utc' \in {utc, (utc + 1) % Week} /\ zone' = zone
    OBVIOUS
  <2>1. valid /\ zone /\ ~sntp
    BY DEF ClockInv
  <2>2. CASE Tick
    BY <2>1, <2>2 DEF Tick, Advance
  <2>3. ~ClockSet /\ ~ObtainGoesOn
    BY <2>1 DEF ClockSet, BeginObtain, SetTime, SntpAnswers, ObtainGoesOn, Wait, ReadTime,
       GiveUp
  <2>4. CASE UNCHANGED vars
    BY <2>4 DEF vars
  <2> QED BY <2>2, <2>3, <2>4, TaskLeavesClock DEF Next
<1> QED BY <1>1, ClockAlways, PTL DEF Spec, ClockStays

-----------------------------------------------------------------------------
(***************************************************************************)
(* A schedule that fires once: until its round is over it has switched     *)
(* only relays that the loop has passed, and after that it is complete.    *)
(***************************************************************************)
Passed(i) == \A r \in switched : \E k \in DOMAIN RelaySeq : k < i /\ r = RelaySeq[k]

OnceInv ==
  /\ next \in Nat \ {0}
  /\ (pc = "start" => switched = {}) /\ (plan = NULL => pc = "start")
  /\ plan # NULL /\ plan.once =>
       /\ pc \in {"top", "end", "sleep"} /\ ~complete => switched = {}
       /\ pc = "relay" => ~complete /\ Passed(next)
       /\ pc = "send" => ~complete /\ Passed(next + 1)

LEMMA OnceInit == Init => OnceInv
BY DEF Init, OnceInv

\* What the loop has passed, it has passed when it goes on.
LEMMA PassedOn ==
  ASSUME NEW i \in Nat, Passed(i)
  PROVE  Passed(i + 1)
<1> SUFFICES ASSUME NEW r \in switched
             PROVE  \E k \in DOMAIN RelaySeq : k < i + 1 /\ r = RelaySeq[k]
  BY DEF Passed
<1>1. PICK k \in DOMAIN RelaySeq : k < i /\ r = RelaySeq[k]
  BY DEF Passed
<1>2. k \in Nat
  BY ScheduleClockAssumption
<1> QED BY <1>1, <1>2

LEMMA OnceDrive ==
  ASSUME OnceInv, Drive
  PROVE  OnceInv' /\ (plan # NULL /\ plan.once => RelaySeq[next] \notin switched)
<1>1. /\ pc = "relay" /\ pc' = "send" /\ UNCHANGED <<plan, next, complete>>
      /\ next <= Len(RelaySeq) /\ plan # NULL
      /\ switched' = IF plan.once THEN switched \cup {RelaySeq[next]} ELSE {}
  BY DEF Drive, OnceInv
<1>2. CASE plan.once
  <2>1. ~complete /\ Passed(next) /\ switched' = switched \cup {RelaySeq[next]}
    BY <1>1, <1>2 DEF OnceInv
  <2>2. next \in Nat /\ Passed(next + 1)
    BY <2>1, PassedOn DEF OnceInv
  <2>3. RelaySeq[next] \notin switched
    <3> SUFFICES ASSUME RelaySeq[next] \in switched PROVE FALSE
      OBVIOUS
    <3>1. PICK k \in DOMAIN RelaySeq : k < next /\ RelaySeq[next] = RelaySeq[k]
      BY <2>1 DEF Passed
    <3>2. DOMAIN RelaySeq = 1 .. Len(RelaySeq) /\ Len(RelaySeq) \in Nat
      BY ScheduleClockAssumption
    <3>3. next \in DOMAIN RelaySeq /\ k # next
      BY <1>1, <2>2, <3>1, <3>2
    <3> QED BY <3>1, <3>3, ScheduleClockAssumption
  <2>4. Passed(next + 1)'
    <3> SUFFICES ASSUME NEW r \in switched'
                 PROVE  \E k \in DOMAIN RelaySeq : k < next + 1 /\ r = RelaySeq[k]
      BY <1>1 DEF Passed
    <3>1. CASE r \in switched
      BY <2>2, <3>1 DEF Passed
    <3>2. CASE r = RelaySeq[next]
      <4>1. next \in DOMAIN RelaySeq /\ next < next + 1
        <5>1. DOMAIN RelaySeq = 1 .. Len(RelaySeq) /\ Len(RelaySeq) \in Nat
          BY ScheduleClockAssumption
        <5> QED BY <1>1, <5>1 DEF OnceInv
      <4> QED BY <3>2, <4>1
    <3> QED BY <2>1, <3>1, <3>2
  <2> QED BY <1>1, <2>1, <2>2, <2>3, <2>4 DEF OnceInv
<1>3. CASE ~plan.once
  BY <1>1, <1>3 DEF OnceInv
<1> QED BY <1>2, <1>3

\* The other steps of the round.
LEMMA OnceRound ==
  ASSUME OnceInv,
         ReadMinute \/ Notified \/ Skip \/ RelaysDone \/ Reported \/ Sleep \/ Wake \/ Finish
  PROVE  OnceInv'
<1>1. CASE ReadMinute
  <2>1. /\ pc = "top" /\ pc' = (IF Due THEN "relay" ELSE "end") /\ next' = 1
        /\ UNCHANGED <<plan, complete, switched>>
    BY <1>1 DEF ReadMinute
  <2>2. Due => ~complete
    BY DEF Due
  <2>3. switched = {} => Passed(next)'
    BY <2>1 DEF Passed
  <2> QED BY <2>1, <2>2, <2>3 DEF OnceInv
<1>2. CASE Notified
  <2>1. /\ pc = "send" /\ pc' = "relay" /\ next' = next + 1
        /\ UNCHANGED <<plan, complete, switched>>
    BY <1>2 DEF Notified, history
  <2>2. Passed(next + 1) => Passed(next)'
    BY <2>1 DEF Passed
  <2> QED BY <2>1, <2>2 DEF OnceInv
<1>3. CASE Skip
  <2>1. /\ pc = "relay" /\ next' = next + 1
        /\ UNCHANGED <<plan, pc, complete, switched>>
    BY <1>3 DEF Skip
  <2>2. next \in Nat
    BY DEF OnceInv
  <2>3. Passed(next) => Passed(next)'
    <3>1. Passed(next) => Passed(next + 1)
      BY <2>2, PassedOn
    <3>2. Passed(next + 1) => Passed(next)'
      BY <2>1 DEF Passed
    <3> QED BY <3>1, <3>2
  <2> QED BY <2>1, <2>3 DEF OnceInv
<1>4. CASE RelaysDone
  <2>1. /\ pc = "relay" /\ UNCHANGED <<plan, next, complete, switched>>
        /\ pc' \in {"report", "abort", "end"} /\ (plan.once => pc' # "end")
    BY <1>4 DEF RelaysDone
  <2> QED BY <2>1 DEF OnceInv
<1>5. CASE Reported
  BY <1>5 DEF Reported, history, OnceInv
<1>6. CASE Sleep
  BY <1>6 DEF Sleep, history, OnceInv
<1>7. CASE Wake
  BY <1>7 DEF Wake, history, OnceInv
<1>8. CASE Finish
  BY <1>8 DEF Finish, history, OnceInv
<1> QED BY <1>1, <1>2, <1>3, <1>4, <1>5, <1>6, <1>7, <1>8

LEMMA OnceNext == OnceInv /\ [Next]_vars => OnceInv'
<1> SUFFICES ASSUME OnceInv, [Next]_vars PROVE OnceInv'
  OBVIOUS
<1>1. CASE ScheduleStart
  <2>1. /\ pc = "start" /\ pc' = "top" /\ plan' \in Plans /\ switched' = switched
        /\ next' = next
    BY <1>1 DEF ScheduleStart, history
  <2> QED BY <2>1, ScheduleClockAssumption DEF OnceInv
<1>2. CASE Drive
  BY <1>2, OnceDrive
<1>3. CASE Round /\ ~Drive
  BY <1>3, OnceRound DEF Round
<1>4. CASE \/ \E r \in Relays : OthersSwitch(r)
           \/ Tick \/ ClockSet \/ ObtainGoesOn \/ Aborted \/ UNCHANGED vars
  <2>1. UNCHANGED <<plan, pc, next, complete, switched>>
    BY <1>4 DEF OthersSwitch, Tick, ClockSet, ObtainGoesOn, Aborted, vars, taskVars, history
  <2> QED BY <2>1 DEF OnceInv, Passed
<1> QED BY <1>1, <1>2, <1>3, <1>4 DEF Next

\* A schedule that fires once never switches a relay a second time, whatever users,
\* the server and the clock do while its minute lasts.
THEOREM OnceIsEnough == Spec => OnceLetsGo
<1>1. OnceInv /\ [Next]_vars =>
        [plan # NULL /\ plan.once /\ Drive => RelaySeq[next] \notin switched]_vars
  BY OnceDrive
<1> QED BY <1>1, OnceInit, OnceNext, PTL DEF Spec, OnceLetsGo

-----------------------------------------------------------------------------
(***************************************************************************)
(* The calendar: minutes and days of the seconds of a week, for any number *)
(* of days, minutes and seconds.                                           *)
(***************************************************************************)

\* There is one quotient and one remainder.
LEMMA Quotient ==
  ASSUME NEW w \in Nat \ {0}, NEW q \in Nat, NEW r \in 0 .. w - 1
  PROVE  (w * q + r) \div w = q /\ (w * q + r) % w = r
<1> DEFINE x == w * q + r
           d == x \div w
           m == x % w
<1>1. x \in Nat /\ w * q \in Nat
  OBVIOUS
<1> HIDE DEF x
<1>2. d \in Nat /\ m \in 0 .. w - 1 /\ x = w * d + m
  BY <1>1
<1> HIDE DEF d, m
<1>3. \A a \in Nat : a >= 1 => w * a >= w
  OBVIOUS
<1>4. w * d + m = w * q + r
  BY <1>2 DEF x
<1>5. w * (d - q) = r - m /\ w * (q - d) = m - r
  BY <1>1, <1>2, <1>4
<1>6. ~(d > q)
  <2> SUFFICES ASSUME d > q PROVE FALSE
    OBVIOUS
  <2>1. d - q \in Nat /\ d - q >= 1
    BY <1>2
  <2>2. w * (d - q) >= w
    BY <1>3, <2>1
  <2> QED BY <1>2, <1>5, <2>2
<1>7. ~(q > d)
  <2> SUFFICES ASSUME q > d PROVE FALSE
    OBVIOUS
  <2>1. q - d \in Nat /\ q - d >= 1
    BY <1>2
  <2>2. w * (q - d) >= w
    BY <1>3, <2>1
  <2> QED BY <1>2, <1>5, <2>2
<1>8. d = q
  BY <1>2, <1>6, <1>7
<1>9. m = r
  BY <1>2, <1>5, <1>8
<1> QED BY <1>8, <1>9 DEF x, d, m

LEMMA Euclid ==
  ASSUME NEW w \in Nat \ {0}, NEW x \in Nat
  PROVE  x \div w \in Nat /\ x % w \in 0 .. w - 1 /\ x = w * (x \div w) + (x % w)
OBVIOUS

LEMMA ModAdd ==
  ASSUME NEW w \in Nat \ {0}, NEW x \in Nat, NEW y \in Nat
  PROVE  ((x % w) + y) % w = (x + y) % w
<1> DEFINE q == x \div w
           r == x % w
           a == (r + y) \div w
           b == (r + y) % w
<1>1. q \in Nat /\ r \in Nat /\ x = w * q + r
  BY Euclid
<1> HIDE DEF q, r
<1>2. r + y \in Nat
  BY <1>1
<1>3. a \in Nat /\ b \in 0 .. w - 1 /\ r + y = w * a + b
  BY <1>2, Euclid
<1> HIDE DEF a, b
<1>4. q + a \in Nat /\ w * (q + a) = w * q + w * a
  BY <1>1, <1>3
<1>5. x + y = w * (q + a) + b
  <2>1. w * q \in Nat /\ w * a \in Nat
    BY <1>1, <1>3
  <2> QED BY <1>1, <1>3, <1>4, <2>1
<1>6. (w * (q + a) + b) % w = b
  BY <1>3, <1>4, Quotient
<1> QED BY <1>5, <1>6 DEF b, r

\* A day is a whole number of minutes, and so is the week.
LEMMA DayFacts ==
  /\ Seconds * Minutes \in Nat \ {0}
  /\ Days * Minutes \in Nat
  /\ Week = Seconds * (Days * Minutes) /\ Week = (Seconds * Minutes) * Days
  /\ Week >= Seconds
<1>1. Days \in Nat \ {0} /\ Minutes \in Nat \ {0} /\ Seconds \in Nat \ {0}
  BY NtpTimeAssumption
<1>2. Seconds * Minutes \in Nat \ {0} /\ Days * Minutes \in Nat \ {0}
  BY <1>1
<1>3. Week = Seconds * (Days * Minutes) /\ Week = (Seconds * Minutes) * Days
  BY <1>1 DEF Week
<1>4. \A n \in Nat \ {0} : Seconds * n >= Seconds
  BY <1>1
<1> QED BY <1>2, <1>3, <1>4

LEMMA DayOfMinute ==
  ASSUME NEW t \in Nat
  PROVE  DayOf(t) = (t \div Seconds) \div Minutes
<1>1. Minutes \in Nat \ {0} /\ Seconds \in Nat \ {0} /\ Seconds * Minutes \in Nat \ {0}
  BY NtpTimeAssumption, DayFacts
<1> DEFINE q == t \div Seconds
           r == t % Seconds
           a == q \div Minutes
           b == q % Minutes
<1>2. q \in Nat /\ r \in 0 .. Seconds - 1 /\ t = Seconds * q + r
  BY <1>1, Euclid
<1> HIDE DEF q, r
<1>3. a \in Nat /\ b \in 0 .. Minutes - 1 /\ q = Minutes * a + b
  BY <1>1, <1>2, Euclid
<1> HIDE DEF a, b
<1> DEFINE m == Seconds * b + r
<1>4. t = (Seconds * Minutes) * a + m
  BY <1>1, <1>2, <1>3
<1>5. m \in 0 .. Seconds * Minutes - 1
  <2>1. \A n \in Nat : n + 1 <= Minutes => Seconds * n + Seconds <= Seconds * Minutes
    <3>1. \A n, k \in Nat : Seconds * (n + 1 + k) = Seconds * n + Seconds + Seconds * k
      BY <1>1
    <3>2. \A k \in Nat : Seconds * k >= 0
      BY <1>1
    <3>3. ASSUME NEW n \in Nat, n + 1 <= Minutes
          PROVE  Seconds * n + Seconds <= Seconds * Minutes
      <4> DEFINE k == Minutes - (n + 1)
      <4>1. k \in Nat /\ Minutes = n + 1 + k
        BY <1>1, <3>3
      <4> HIDE DEF k
      <4>2. Seconds * Minutes = Seconds * n + Seconds + Seconds * k
        BY <3>1, <4>1
      <4> QED BY <1>1, <3>2, <4>1, <4>2
    <3> QED BY <3>3
  <2>2. Seconds * b + Seconds <= Seconds * Minutes
    BY <1>1, <1>3, <2>1
  <2>3. Seconds * b \in Nat
    BY <1>1, <1>3
  <2> QED BY <1>1, <1>2, <2>2, <2>3
<1> HIDE DEF m
<1>6. t \div (Seconds * Minutes) = a
  BY <1>1, <1>3, <1>4, <1>5, Quotient
<1> QED BY <1>6 DEF DayOf, a, q

LEMMA NextMinute ==
  ASSUME NEW q \in Nat, Minutes > 1
  PROVE  (q + 1) % Minutes # q % Minutes
<1>1. Minutes \in Nat \ {0}
  BY NtpTimeAssumption
<1> DEFINE a == q \div Minutes
           b == q % Minutes
<1>2. a \in Nat /\ b \in 0 .. Minutes - 1 /\ q = Minutes * a + b
  BY <1>1, Euclid
<1> HIDE DEF a, b
<1>3. CASE b + 1 < Minutes
  <2>1. q + 1 = Minutes * a + (b + 1) /\ b + 1 \in 0 .. Minutes - 1
    BY <1>1, <1>2, <1>3
  <2>2. (Minutes * a + (b + 1)) % Minutes = b + 1
    BY <1>1, <1>2, <2>1, Quotient
  <2> QED BY <1>2, <2>1, <2>2 DEF b
<1>4. CASE b + 1 = Minutes
  <2>1. q + 1 = Minutes * (a + 1) + 0 /\ a + 1 \in Nat /\ 0 \in 0 .. Minutes - 1
    BY <1>1, <1>2, <1>4
  <2>2. (Minutes * (a + 1) + 0) % Minutes = 0
    BY <1>1, <2>1, Quotient
  <2>3. b # 0
    BY <1>1, <1>2, <1>4
  <2> QED BY <2>1, <2>2, <2>3 DEF b
<1> QED BY <1>1, <1>2, <1>3, <1>4

LEMMA NextSecond ==
  ASSUME NEW t \in Time, NEW u, u = (t + 1) % Week
  PROVE  /\ t % Seconds \in 0 .. Seconds - 1 /\ u \in Time
         /\ t % Seconds < Seconds - 1 =>
              /\ u % Seconds = (t % Seconds) + 1
              /\ MinuteOf(u) = MinuteOf(t) /\ DayOf(u) = DayOf(t)
         /\ t % Seconds = Seconds - 1 =>
              u % Seconds = 0 /\ MinuteOf(u) # MinuteOf(t)
<1> DEFINE q == t \div Seconds
           r == t % Seconds
           n == Days * Minutes
<1>1. /\ Minutes \in Nat \ {0} /\ Seconds \in Nat \ {0} /\ Week \in Nat \ {0}
      /\ Minutes > 1 /\ t \in Nat /\ t \in 0 .. Week - 1
      /\ n \in Nat /\ Week = Seconds * n /\ Days \in Nat \ {0}
  BY NtpTimeAssumption, ScheduleClockAssumption, DayFacts DEF Time
<1>2. q \in Nat /\ r \in 0 .. Seconds - 1 /\ t = Seconds * q + r
  BY <1>1, Euclid
<1> HIDE DEF q, r, n
<1>3. u = IF t + 1 = Week THEN 0 ELSE t + 1
  <2>1. CASE t + 1 = Week
    <3>1. Week = Week * 1 + 0 /\ 0 \in 0 .. Week - 1
      BY <1>1
    <3>2. (Week * 1 + 0) % Week = 0
      BY <1>1, <3>1, Quotient
    <3> QED BY <2>1, <3>1, <3>2
  <2>2. CASE t + 1 # Week
    <3>1. t + 1 = Week * 0 + (t + 1) /\ t + 1 \in 0 .. Week - 1
      BY <1>1, <2>2
    <3>2. (Week * 0 + (t + 1)) % Week = t + 1
      BY <1>1, <3>1, Quotient
    <3> QED BY <2>2, <3>1, <3>2
  <2> QED BY <2>1, <2>2
<1>4. Week % Seconds = 0 /\ Week \div Seconds = n
  <2>1. Week = Seconds * n + 0 /\ 0 \in 0 .. Seconds - 1
    BY <1>1
  <2> QED BY <1>1, <2>1, Quotient
<1>5. u \in Time
  BY <1>1, <1>3 DEF Time
<1>6. CASE r < Seconds - 1
  <2>1. t + 1 = Seconds * q + (r + 1) /\ r + 1 \in 0 .. Seconds - 1
    BY <1>1, <1>2, <1>6
  <2>2. (t + 1) % Seconds = r + 1 /\ (t + 1) \div Seconds = q
    <3>1. /\ (Seconds * q + (r + 1)) % Seconds = r + 1
          /\ (Seconds * q + (r + 1)) \div Seconds = q
      BY <1>1, <1>2, <2>1, Quotient
    <3> QED BY <2>1, <3>1
  <2>3. u = t + 1
    <3>1. r + 1 # 0
      BY <1>1, <1>2
    <3> QED BY <1>3, <1>4, <2>2, <3>1
  <2>4. MinuteOf(u) = MinuteOf(t)
    BY <2>2, <2>3 DEF MinuteOf, q
  <2>5. DayOf(u) = DayOf(t)
    <3>1. u \in Nat
      BY <1>1, <2>3
    <3> QED BY <1>1, <2>2, <2>3, <3>1, DayOfMinute DEF q
  <2>6. u % Seconds = r + 1
    BY <2>2, <2>3
  <2>7. r # Seconds - 1
    BY <1>1, <1>2, <1>6
  <2> QED BY <1>2, <1>5, <2>4, <2>5, <2>6, <2>7 DEF r
<1>7. CASE r = Seconds - 1
  <2>1. t + 1 = Seconds * (q + 1) + 0 /\ q + 1 \in Nat /\ 0 \in 0 .. Seconds - 1
    BY <1>1, <1>2, <1>7
  <2>2. (t + 1) % Seconds = 0 /\ (t + 1) \div Seconds = q + 1
    <3>1. /\ (Seconds * (q + 1) + 0) % Seconds = 0
          /\ (Seconds * (q + 1) + 0) \div Seconds = q + 1
      BY <1>1, <2>1, Quotient
    <3> QED BY <2>1, <3>1
  <2>3. CASE t + 1 # Week
    <3>1. u = t + 1
      BY <1>3, <2>3
    <3>2. MinuteOf(u) # MinuteOf(t)
      BY <1>1, <1>2, <2>2, <3>1, NextMinute DEF MinuteOf, q
    <3>3. ~(r < Seconds - 1)
      BY <1>1, <1>7
    <3> QED BY <1>2, <1>5, <2>2, <3>1, <3>2, <3>3 DEF r
  <2>4. CASE t + 1 = Week
    <3>1. u = 0 /\ q + 1 = n
      BY <1>3, <1>4, <2>2, <2>4
    <3>2. 0 % Seconds = 0 /\ 0 \div Seconds = 0 /\ 0 % Minutes = 0
      <4>1. 0 = Seconds * 0 + 0 /\ 0 = Minutes * 0 + 0 /\ 0 \in 0 .. Seconds - 1
            /\ 0 \in 0 .. Minutes - 1
        BY <1>1
      <4>2. (Seconds * 0 + 0) % Seconds = 0 /\ (Seconds * 0 + 0) \div Seconds = 0
        BY <1>1, <4>1, Quotient
      <4>3. (Minutes * 0 + 0) % Minutes = 0
        BY <1>1, <4>1, Quotient
      <4> QED BY <4>1, <4>2, <4>3
    <3>3. q % Minutes = Minutes - 1
      <4>1. q = Minutes * (Days - 1) + (Minutes - 1) /\ Days - 1 \in Nat
            /\ Minutes - 1 \in 0 .. Minutes - 1
        BY <1>1, <1>2, <3>1 DEF n
      <4> QED BY <1>1, <4>1, Quotient
    <3>4. MinuteOf(u) # MinuteOf(t)
      <4>1. MinuteOf(u) = 0
        BY <3>1, <3>2 DEF MinuteOf
      <4>2. MinuteOf(t) = Minutes - 1
        BY <3>3 DEF MinuteOf, q
      <4> QED BY <1>1, <4>1, <4>2
    <3>5. ~(r < Seconds - 1) /\ u % Seconds = 0
      BY <1>1, <1>7, <3>1, <3>2
    <3> QED BY <1>2, <1>5, <3>4, <3>5 DEF r
  <2> QED BY <2>3, <2>4
<1> QED BY <1>1, <1>2, <1>6, <1>7

\* A tick of the system time is a tick of the local time, in either zone.
LEMMA LocalTicks ==
  ASSUME NtpTypeOK, Advance
  PROVE  local' = (local + 1) % Week
<1> DEFINE o == IF zone THEN Offset ELSE 0
<1>1. utc \in Nat /\ o \in Nat /\ Week \in Nat \ {0}
  BY ZeroTime, NtpTimeAssumption DEF NtpTypeOK, Time
<1>2. local = (utc + o) % Week /\ local' = (utc' + o) % Week /\ utc' = (utc + 1) % Week
  BY DEF local, Advance
<1> HIDE DEF o
<1>3. utc + 1 \in Nat /\ utc + o \in Nat /\ utc + 1 + o = utc + o + 1
  BY <1>1
<1>4. (((utc + 1) % Week) + o) % Week = (utc + 1 + o) % Week
  BY <1>1, <1>3, ModAdd
<1>5. (((utc + o) % Week) + 1) % Week = (utc + o + 1) % Week
  BY <1>1, <1>3, ModAdd
<1> QED BY <1>2, <1>3, <1>4, <1>5

LEMMA LocalTime ==
  ASSUME NtpTypeOK
  PROVE  local \in Time /\ local \in Nat /\ local \in 0 .. Week - 1
<1>1. utc + (IF zone THEN Offset ELSE 0) \in Int
  BY ZeroTime, NtpTimeAssumption DEF NtpTypeOK
<1>2. local \in Time
  BY <1>1, WrapsInWeek DEF local
<1> QED BY <1>2 DEF Time

\* The code's day, counted from Monday, is the day of the week.
LEMMA TodayIsToday ==
  ASSUME NtpTypeOK, NEW days
  PROVE  is_today_selected(days) <=> DayOf(local) \in days
<1> DEFINE d == DayOf(local)
           w == Seconds * Minutes
<1>1. w \in Nat \ {0} /\ Days \in Nat \ {0} /\ Week = w * Days
  BY DayFacts, NtpTimeAssumption
<1>2. local \in 0 .. Week - 1 /\ local \in Nat
  BY LocalTime
<1> HIDE DEF w
<1>3. d \in Nat /\ local >= w * d
  <2>1. local \div w \in Nat /\ local % w \in Nat
        /\ local = w * (local \div w) + (local % w)
    BY <1>1, <1>2, Euclid
  <2>2. w * (local \div w) \in Nat
    BY <1>1, <2>1
  <2>3. local >= w * (local \div w)
    BY <2>1, <2>2
  <2> QED BY <2>1, <2>3 DEF DayOf, w
<1> HIDE DEF d
<1>4. d < Days
  <2> SUFFICES ASSUME d >= Days PROVE FALSE
    BY <1>1, <1>3
  <2> DEFINE e == d - Days
  <2>1. e \in Nat /\ d = Days + e
    BY <1>1, <1>3
  <2> HIDE DEF e
  <2>2. w * d = w * Days + w * e /\ w * e \in Nat /\ w * Days \in Nat
    BY <1>1, <2>1
  <2> QED BY <1>1, <1>2, <1>3, <2>2
<1>5. CASE d + 1 < Days
  <2>1. d + 1 = Days * 0 + (d + 1) /\ d + 1 \in 0 .. Days - 1
    BY <1>1, <1>3, <1>5
  <2>2. (Days * 0 + (d + 1)) % Days = d + 1
    BY <1>1, <2>1, Quotient
  <2>3. tm_wday = d + 1
    BY <2>1, <2>2 DEF tm_wday, d
  <2> QED BY <1>1, <1>3, <2>3 DEF is_today_selected, d
<1>6. CASE d + 1 = Days
  <2>1. d + 1 = Days * 1 + 0 /\ 0 \in 0 .. Days - 1
    BY <1>1, <1>6
  <2>2. (Days * 1 + 0) % Days = 0
    BY <1>1, <2>1, Quotient
  <2>3. tm_wday = 0
    BY <2>1, <2>2 DEF tm_wday, d
  <2>4. d = Days - 1
    BY <1>1, <1>3, <1>6
  <2> QED BY <2>3, <2>4 DEF is_today_selected, d
<1> QED BY <1>1, <1>3, <1>4, <1>5, <1>6

\* k seconds before now is k + 1 seconds before the next second.
LEMMA AgoFacts ==
  ASSUME NtpTypeOK
  PROVE  /\ Ago(0) = local
         /\ Advance => \A k \in 0 .. Slack - 1 : Ago(k + 1)' = Ago(k)
<1>1. /\ Week \in Nat \ {0} /\ Slack \in Nat /\ Slack < Week
      /\ local \in 0 .. Week - 1
  BY DayFacts, LocalTime, ZeroTime, NtpTimeAssumption, ScheduleClockAssumption
<1>2. \A n \in 0 .. Slack : n % Week = n
  <2> SUFFICES ASSUME NEW n \in 0 .. Slack PROVE n % Week = n
    OBVIOUS
  <2>1. n = Week * 0 + n /\ n \in 0 .. Week - 1
    BY <1>1
  <2> QED BY <1>1, <2>1, Quotient
<1>3. \A t \in 0 .. Week - 1 : (t + Week) % Week = t /\ t % Week = t
  <2> SUFFICES ASSUME NEW t \in 0 .. Week - 1 PROVE (t + Week) % Week = t /\ t % Week = t
    OBVIOUS
  <2>1. t + Week = Week * 1 + t /\ t = Week * 0 + t
    BY <1>1
  <2>2. (Week * 1 + t) % Week = t /\ (Week * 0 + t) % Week = t
    BY <1>1, Quotient
  <2> QED BY <2>1, <2>2
<1>4. Ago(0) = local
  <2>1. 0 % Week = 0 /\ local + Week - 0 = local + Week
    BY <1>1, <1>2
  <2> QED BY <1>1, <1>3, <2>1 DEF Ago
<1>5. ASSUME Advance, NEW k \in 0 .. Slack - 1 PROVE Ago(k + 1)' = Ago(k)
  <2>1. local' = (local + 1) % Week
    BY <1>5, LocalTicks
  <2>2. k % Week = k /\ (k + 1) % Week = k + 1
    BY <1>1, <1>2
  <2>3. CASE local + 1 < Week
    <3>1. local' = local + 1
      <4>1. local + 1 \in 0 .. Week - 1
        BY <1>1, <2>3
      <4> QED BY <1>3, <2>1, <4>1
    <3>2. local' + Week - (k + 1) = local + Week - k
      BY <1>1, <3>1
    <3> QED BY <2>2, <3>2 DEF Ago
  <2>4. CASE local + 1 = Week
    <3>1. local' = 0
      <4>1. 0 \in 0 .. Week - 1 /\ 0 + Week = Week
        BY <1>1
      <4> QED BY <1>3, <2>1, <2>4, <4>1
    <3>2. /\ local' + Week - (k + 1) = Week - 1 - k
          /\ local + Week - k = (Week - 1 - k) + Week
          /\ Week - 1 - k \in 0 .. Week - 1
      BY <1>1, <2>4, <3>1
    <3>3. (Week - 1 - k) % Week = Week - 1 - k
          /\ ((Week - 1 - k) + Week) % Week = Week - 1 - k
      BY <1>3, <3>2
    <3>4. Ago(k + 1)' = (Week - 1 - k) % Week /\ Ago(k) = ((Week - 1 - k) + Week) % Week
      BY <2>2, <3>2 DEF Ago
    <3> QED BY <3>3, <3>4
  <2> QED BY <1>1, <2>3, <2>4
<1> QED BY <1>4, <1>5

-----------------------------------------------------------------------------
(***************************************************************************)
(* The minute.  A round that began before it is Old, at most Slack seconds *)
(* late; the next one looks at the clock InTime, Slack seconds later at    *)
(* most; what it has looked at is as the plan says from then on, or has    *)
(* been toggled by others.                                                 *)
(***************************************************************************)
Into        == local % Seconds
Served(r)   == status[r] = plan.on \/ r \in toggled
ServedTo(i) == \A k \in DOMAIN RelaySeq :
                 k < i /\ RelaySeq[k] \in plan.relays => Served(RelaySeq[k])
AllServed   == \A r \in plan.relays : Served(r)
Old         == late >= Into + 1
InTime      == Into <= Slack + late

RoundInv ==
  /\ delay > 0 => pc = "sleep" /\ delay = 1 /\ late = 0
  /\ pc = "start" => ~complete
  /\ pc = "gone" => complete
  /\ plan # NULL /\ ~plan.once => ~complete /\ pc # "report"

CalmInv == calm => plan # NULL /\ MinuteOf(local) = plan.minute

OnceDue ==
  calm /\ plan.active /\ plan.once /\ ~complete =>
    /\ pc = "end" => Old
    /\ pc = "sleep" => Into + delay <= Slack + late
    /\ pc \in {"top", "relay", "send", "report"} => InTime

WeeklyDue ==
  calm /\ plan.active /\ ~plan.once /\ DayOf(local) \in plan.days /\ ~AllServed =>
    /\ pc = "end" => Old
    /\ pc = "sleep" => Into + delay <= Slack + late
    /\ pc = "top" => InTime
    /\ pc = "relay" => Old \/ (InTime /\ ServedTo(next))
    /\ pc = "send" => Old \/ (InTime /\ ServedTo(next + 1))

\* A round that has looked at the right clock acts on its minute.
SteadyInv ==
  steady => /\ plan # NULL /\ pc \in {"relay", "send"}
            /\ \E k \in 0 .. late : MinuteOf(Ago(k)) = plan.minute

MInv == /\ TypeOK /\ SendsRelay
        /\ RoundInv /\ CalmInv /\ OnceDue /\ WeeklyDue /\ SteadyInv

\* What is known of the plan and of the numbers.
LEMMA MFacts ==
  ASSUME TypeOK
  PROVE  /\ Slack \in Nat /\ late \in Nat /\ late <= Slack /\ delay \in Nat
         /\ Into \in Nat /\ Into <= Seconds - 1 /\ Seconds \in Nat /\ Seconds > 2 * Slack
         /\ (plan = NULL <=> pc = "start") /\ NULL \notin Plans
         /\ plan # NULL => /\ plan.relays \subseteq Relays /\ plan.on \in BOOLEAN
                           /\ plan.active \in BOOLEAN /\ plan.once \in BOOLEAN
         /\ next \in Nat /\ next >= 1
         /\ DOMAIN RelaySeq = 1 .. Len(RelaySeq) /\ Len(RelaySeq) \in Nat
<1>1. Into \in 0 .. Seconds - 1 /\ Seconds \in Nat
  <2>1. local \in Nat /\ Seconds \in Nat \ {0}
    BY LocalTime, NtpTimeAssumption DEF TypeOK
  <2> QED BY <2>1, Euclid DEF Into
<1>2. Slack \in Nat /\ late \in 0 .. Slack /\ delay \in Nat /\ Seconds > 2 * Slack
  BY ScheduleClockAssumption DEF TypeOK
<1>3. (plan = NULL <=> pc = "start") /\ NULL \notin Plans /\ plan \in Plans \cup {NULL}
  BY ScheduleClockAssumption DEF TypeOK
<1>4. plan # NULL => /\ plan.relays \subseteq Relays /\ plan.on \in BOOLEAN
                     /\ plan.active \in BOOLEAN /\ plan.once \in BOOLEAN
  BY <1>3, ScheduleClockAssumption
<1>5. next \in 1 .. Len(RelaySeq) + 1
  BY DEF TypeOK
<1> QED BY <1>1, <1>2, <1>3, <1>4, <1>5, LengthOfSeq

\* Steps that leave the system time and the zone alone.
LEMMA StillClock ==
  ASSUME UNCHANGED <<utc, zone>>
  PROVE  /\ local' = local /\ Into' = Into
         /\ \A k \in Nat : Ago(k)' = Ago(k)
BY DEF local, Into, Ago

LEMMA MInvInit == Init => MInv
<1> SUFFICES ASSUME Init PROVE MInv
  OBVIOUS
<1> QED BY TypeInit DEF Init, MInv, RoundInv, CalmInv, OnceDue, WeeklyDue, SteadyInv

\* A step of obtain_time that does not move the clock.
LEMMA MInvObtain ==
  ASSUME MInv, ObtainGoesOn, (TypeOK /\ SendsRelay)'
  PROVE  MInv'
<1>1. UNCHANGED <<utc, zone, taskVars, history>>
  BY DEF ObtainGoesOn, Wait, ReadTime, GiveUp, clock
<1>2. local' = local /\ Into' = Into /\ \A k \in Nat : Ago(k)' = Ago(k)
  BY <1>1, StillClock
<1>3. UNCHANGED <<plan, pc, next, status, complete, delay, late, steady, calm, toggled>>
  BY <1>1 DEF taskVars, history
<1>4. RoundInv' /\ CalmInv' /\ OnceDue'
  BY <1>2, <1>3 DEF MInv, RoundInv, CalmInv, OnceDue, Old, InTime
<1>5. WeeklyDue'
  BY <1>2, <1>3 DEF MInv, WeeklyDue, Old, InTime, ServedTo, AllServed, Served
<1>6. SteadyInv'
  <2>1. \A k \in 0 .. late : k \in Nat
    OBVIOUS
  <2> QED BY <1>2, <1>3, <2>1 DEF MInv, SteadyInv
<1> QED BY <1>4, <1>5, <1>6 DEF MInv

LEMMA MInvClockSet ==
  ASSUME MInv, ClockSet, (TypeOK /\ SendsRelay)'
  PROVE  MInv'
<1>1. ~steady' /\ ~calm' /\ UNCHANGED taskVars
  BY DEF ClockSet
<1>2. RoundInv'
  BY <1>1 DEF MInv, RoundInv, taskVars
<1> QED BY <1>1, <1>2 DEF MInv, CalmInv, OnceDue, WeeklyDue, SteadyInv

LEMMA MInvOthers ==
  ASSUME MInv, NEW x \in Relays, OthersSwitch(x), (TypeOK /\ SendsRelay)'
  PROVE  MInv'
<1>1. /\ UNCHANGED <<plan, pc, next, complete, delay, late, steady, calm, ntpVars>>
      /\ status' = [status EXCEPT ![x] = ~@]
      /\ calm => toggled' = toggled \cup {x}
  BY DEF OthersSwitch
<1>2. local' = local /\ Into' = Into /\ \A k \in Nat : Ago(k)' = Ago(k)
  BY <1>1, StillClock DEF ntpVars
<1>3. RoundInv' /\ CalmInv' /\ OnceDue'
  BY <1>1, <1>2 DEF MInv, RoundInv, CalmInv, OnceDue, Old, InTime
<1>4. WeeklyDue'
  <2>2. ASSUME calm, NEW r, Served(r) PROVE Served(r)'
    <3>1. r # x => status'[r] = status[r]
      BY <1>1 DEF MInv, TypeOK
    <3> QED BY <1>1, <2>2, <3>1 DEF Served
  <2>3. calm /\ AllServed => AllServed'
    BY <1>1, <2>2 DEF AllServed
  <2>4. \A i : calm /\ ServedTo(i) => ServedTo(i)'
    BY <1>1, <2>2 DEF ServedTo
  <2> QED BY <1>1, <1>2, <2>3, <2>4 DEF MInv, WeeklyDue, Old, InTime
<1>5. SteadyInv'
  <2>1. \A k \in 0 .. late : k \in Nat
    OBVIOUS
  <2> QED BY <1>1, <1>2, <2>1 DEF MInv, SteadyInv
<1> QED BY <1>3, <1>4, <1>5 DEF MInv

\* What every step of the schedule leaves alone.
LEMMA RoundClock ==
  ASSUME ScheduleStart \/ Round
  PROVE  /\ UNCHANGED <<utc, zone, valid, calm>>
         /\ local' = local /\ Into' = Into /\ \A k \in Nat : Ago(k)' = Ago(k)
<1>1. UNCHANGED <<ntpVars, calm>>
  BY DEF ScheduleStart, Round, ReadMinute, Drive, Notified, Skip, RelaysDone, Reported,
     Sleep, Wake, Finish, history
<1> QED BY <1>1, StillClock DEF ntpVars

LEMMA MInvStart ==
  ASSUME MInv, ScheduleStart, (TypeOK /\ SendsRelay)'
  PROVE  MInv'
<1>1. /\ pc = "start" /\ pc' = "top" /\ UNCHANGED <<complete, delay, late, steady, calm>>
  BY DEF ScheduleStart, history
<1>2. plan = NULL
  BY <1>1, MFacts DEF MInv
<1>3. ~calm /\ ~steady
  BY <1>2 DEF MInv, CalmInv, SteadyInv
<1>4. ~complete
  BY <1>1 DEF MInv, RoundInv
<1> QED BY <1>1, <1>3, <1>4 DEF MInv, RoundInv, CalmInv, OnceDue, WeeklyDue, SteadyInv

LEMMA MInvLook ==
  ASSUME MInv, ReadMinute, (TypeOK /\ SendsRelay)'
  PROVE  MInv'
<1>1. /\ pc = "top" /\ pc' = (IF Due THEN "relay" ELSE "end") /\ next' = 1
      /\ (steady' <=> Due /\ valid /\ zone)
      /\ UNCHANGED <<plan, status, complete, delay, late, calm, toggled, ntpVars>>
  BY DEF ReadMinute
<1>2. local' = local /\ Into' = Into /\ \A k \in Nat : Ago(k)' = Ago(k)
  BY <1>1, StillClock DEF ntpVars
<1>3. RoundInv' /\ CalmInv'
  BY <1>1, <1>2 DEF MInv, RoundInv, CalmInv
<1>4. plan # NULL
  BY <1>1, MFacts DEF MInv
<1>5. calm /\ plan.active /\ ~complete => Due
  BY DEF MInv, CalmInv, Due
<1>6. OnceDue'
  BY <1>1, <1>2, <1>5 DEF MInv, OnceDue, InTime
<1>7. WeeklyDue'
  <2>1. ServedTo(1)'
    <3>1. \A k \in DOMAIN RelaySeq : ~(k < 1)
      BY LengthOfSeq
    <3> QED BY <3>1 DEF ServedTo
  <2>2. ~plan.once => ~complete
    BY <1>4 DEF MInv, RoundInv
  <2> QED BY <1>1, <1>2, <1>5, <2>1, <2>2 DEF MInv, WeeklyDue, InTime, AllServed, Served
<1>8. SteadyInv'
  <2>1. ASSUME Due PROVE \E k \in 0 .. late : MinuteOf(Ago(k)) = plan.minute
    <3>1. 0 \in 0 .. late /\ Ago(0) = local
      BY MFacts, AgoFacts DEF MInv, TypeOK
    <3> QED BY <2>1, <3>1 DEF Due
  <2>2. \A k \in 0 .. late : k \in Nat
    OBVIOUS
  <2> QED BY <1>1, <1>2, <1>4, <2>1, <2>2 DEF SteadyInv
<1> QED BY <1>3, <1>6, <1>7, <1>8 DEF MInv

\* The loop deals with one more relay.
LEMMA MInvRelay ==
  ASSUME MInv, Drive \/ Skip, (TypeOK /\ SendsRelay)'
  PROVE  MInv'
<1> DEFINE r == RelaySeq[next]
<1>1. /\ pc = "relay" /\ next \in DOMAIN RelaySeq /\ r \in Relays
      /\ UNCHANGED <<plan, complete, delay, late, steady, calm, ntpVars>>
  <2>1. next <= Len(RelaySeq)
    BY DEF Drive, Skip
  <2>2. next \in DOMAIN RelaySeq
    BY <2>1, MFacts DEF MInv
  <2> QED BY <2>2 DEF Drive, Skip, Relays
<1>2. local' = local /\ Into' = Into /\ \A k \in Nat : Ago(k)' = Ago(k)
  BY <1>1, StillClock DEF ntpVars
<1>3. \/ pc' = "send" /\ next' = next
      \/ pc' = "relay" /\ next' = next + 1
  BY <1>1 DEF Drive, Skip
<1>4. RoundInv' /\ CalmInv'
  BY <1>1, <1>2, <1>3 DEF MInv, RoundInv, CalmInv
<1>5. OnceDue'
  BY <1>1, <1>2, <1>3 DEF MInv, OnceDue, InTime
<1>6. SteadyInv'
  <2>1. \A k \in 0 .. late : k \in Nat
    OBVIOUS
  <2> QED BY <1>1, <1>2, <1>3, <2>1 DEF MInv, SteadyInv
<1>7. plan # NULL /\ status \in [Relays -> BOOLEAN] /\ next \in Nat
  BY <1>1, MFacts DEF MInv, TypeOK
<1>8. ASSUME NEW x, Served(x) PROVE Served(x)'
  <2>1. CASE Drive
    <3>1. status' = [status EXCEPT ![r] = plan.on] /\ toggled' = toggled \ {r}
      BY <2>1 DEF Drive
    <3>2. CASE x = r
      BY <1>1, <1>7, <3>1, <3>2 DEF Served
    <3>3. CASE x # r
      BY <1>1, <1>7, <1>8, <3>1, <3>3 DEF Served
    <3> QED BY <3>2, <3>3
  <2>2. CASE Skip
    <3>1. /\ ~(Wants(r) /\ status[r] # plan.on) /\ status' = status
          /\ toggled' = IF Wants(r) THEN toggled \ {r} ELSE toggled
      BY <2>2 DEF Skip
    <3>2. CASE Wants(r) /\ x = r
      BY <1>1, <3>1, <3>2 DEF Served
    <3>3. CASE ~(Wants(r) /\ x = r)
      BY <1>1, <1>8, <3>1, <3>3 DEF Served
    <3> QED BY <3>2, <3>3
  <2> QED BY <2>1, <2>2
<1>9. ASSUME ~plan.once, DayOf(local) \in plan.days, NEW x, x = r, x \in plan.relays
      PROVE  Served(x)'
  <2>1. Wants(r)
    BY <1>9, TodayIsToday DEF Wants, MInv, TypeOK
  <2>2. CASE Drive
    <3>1. status'[x] = plan.on
      BY <1>1, <1>7, <1>9, <2>2 DEF Drive
    <3> QED BY <1>1, <3>1 DEF Served
  <2>3. CASE Skip
    BY <1>1, <1>9, <2>1, <2>3 DEF Skip, Served
  <2> QED BY <1>1, <2>2, <2>3
<1>10. WeeklyDue'
  <2>1. SUFFICES ASSUME calm', plan'.active, ~plan'.once, DayOf(local)' \in plan'.days,
                        ~AllServed'
                 PROVE  /\ pc' = "relay" => (Old \/ (InTime /\ ServedTo(next)))'
                        /\ pc' = "send" => (Old \/ (InTime /\ ServedTo(next + 1)))'
    BY <1>3 DEF WeeklyDue
  <2>2. calm /\ plan.active /\ ~plan.once /\ DayOf(local) \in plan.days /\ ~AllServed
    BY <1>1, <1>2, <1>8, <2>1 DEF AllServed
  <2>3. Old \/ (InTime /\ ServedTo(next))
    BY <1>1, <2>2 DEF MInv, WeeklyDue
  <2>4. CASE Old
    BY <1>1, <1>2, <2>4 DEF Old
  <2>5. CASE InTime /\ ServedTo(next)
    <3>1. InTime'
      BY <1>1, <1>2, <2>5 DEF InTime
    <3>2. \A k \in DOMAIN RelaySeq :
            k < next + 1 /\ RelaySeq[k] \in plan.relays => Served(RelaySeq[k])'
      <4> SUFFICES ASSUME NEW k \in DOMAIN RelaySeq, k < next + 1,
                          RelaySeq[k] \in plan.relays
                   PROVE  Served(RelaySeq[k])'
        OBVIOUS
      <4>1. k < next \/ k = next
        BY <1>7, LengthOfSeq
      <4>2. CASE k = next
        BY <1>9, <2>2, <4>2
      <4>3. CASE k < next
        BY <1>8, <2>5, <4>3 DEF ServedTo
      <4> QED BY <4>1, <4>2, <4>3
    <3>3. pc' = "relay" => ServedTo(next)'
      BY <1>1, <1>3, <3>2 DEF ServedTo
    <3>4. pc' = "send" => ServedTo(next + 1)'
      BY <1>1, <1>3, <3>2 DEF ServedTo
    <3> QED BY <3>1, <3>3, <3>4
  <2> QED BY <2>3, <2>4, <2>5
<1> QED BY <1>4, <1>5, <1>6, <1>10 DEF MInv

LEMMA MInvNotified ==
  ASSUME MInv, Notified, (TypeOK /\ SendsRelay)'
  PROVE  MInv'
<1>1. /\ pc = "send" /\ pc' = "relay" /\ next' = next + 1
      /\ UNCHANGED <<plan, status, complete, delay, late, steady, calm, toggled, ntpVars>>
  BY DEF Notified, history
<1>2. local' = local /\ Into' = Into /\ \A k \in Nat : Ago(k)' = Ago(k)
  BY <1>1, StillClock DEF ntpVars
<1>3. RoundInv' /\ CalmInv' /\ OnceDue'
  BY <1>1, <1>2 DEF MInv, RoundInv, CalmInv, OnceDue, InTime
<1>4. WeeklyDue'
  BY <1>1, <1>2 DEF MInv, WeeklyDue, Old, InTime, ServedTo, AllServed, Served
<1>5. SteadyInv'
  <2>1. \A k \in 0 .. late : k \in Nat
    OBVIOUS
  <2> QED BY <1>1, <1>2, <2>1 DEF MInv, SteadyInv
<1> QED BY <1>3, <1>4, <1>5 DEF MInv

LEMMA MInvDone ==
  ASSUME MInv, RelaysDone, (TypeOK /\ SendsRelay)'
  PROVE  MInv'
<1>1. /\ pc = "relay" /\ next > Len(RelaySeq) /\ ~steady'
      /\ UNCHANGED <<plan, status, complete, delay, late, calm, toggled, ntpVars>>
      /\ pc' \in {"report", "abort", "end"}
      /\ plan.once => pc' # "end"
      /\ ~plan.once => pc' = "end"
  BY DEF RelaysDone
<1>2. local' = local /\ Into' = Into
  BY <1>1, StillClock DEF ntpVars
<1>3. plan # NULL
  BY <1>1, MFacts DEF MInv
<1>4. RoundInv' /\ CalmInv' /\ OnceDue' /\ SteadyInv'
  BY <1>1, <1>2 DEF MInv, RoundInv, CalmInv, OnceDue, InTime, SteadyInv
<1>5. ServedTo(next) => AllServed
  <2> SUFFICES ASSUME ServedTo(next), NEW r \in plan.relays PROVE Served(r)
    BY DEF AllServed
  <2>1. r \in Relays
    BY <1>3, MFacts DEF MInv
  <2>2. PICK k \in DOMAIN RelaySeq : r = RelaySeq[k]
    BY <2>1 DEF Relays
  <2>3. k < next
    BY <1>1, MFacts DEF MInv
  <2> QED BY <2>2, <2>3 DEF ServedTo
<1>6. WeeklyDue'
  BY <1>1, <1>2, <1>5 DEF MInv, WeeklyDue, Old, AllServed, Served
<1> QED BY <1>4, <1>6 DEF MInv

LEMMA MInvEnds ==
  ASSUME MInv, Reported \/ Finish, (TypeOK /\ SendsRelay)'
  PROVE  MInv'
<1>1. /\ UNCHANGED <<plan, status, delay, late, steady, calm, toggled, ntpVars>>
      /\ \/ pc = "report" /\ pc' = "end"
         \/ pc = "end" /\ pc' = "gone"
      /\ complete' /\ pc # "start"
  BY DEF Reported, Finish, history
<1>2. local' = local
  BY <1>1, StillClock DEF ntpVars
<1>3. plan # NULL /\ plan.once
  <2>1. plan # NULL
    BY <1>1, MFacts DEF MInv
  <2>2. pc = "report" => plan.once
    BY <2>1 DEF MInv, RoundInv
  <2>3. Finish => plan.once
    BY <2>1 DEF Finish, MInv, RoundInv
  <2> QED BY <1>1, <2>1, <2>2, <2>3 DEF Reported
<1>4. ~steady
  BY <1>1 DEF MInv, SteadyInv
<1> QED BY <1>1, <1>2, <1>3, <1>4
   DEF MInv, RoundInv, CalmInv, OnceDue, WeeklyDue, SteadyInv

LEMMA MInvSleep ==
  ASSUME MInv, Sleep, (TypeOK /\ SendsRelay)'
  PROVE  MInv'
<1>1. /\ pc = "end" /\ pc' = "sleep" /\ delay' = 1 /\ late' = 0
      /\ UNCHANGED <<plan, status, complete, steady, calm, toggled, ntpVars>>
  BY DEF Sleep, history
<1>2. local' = local /\ Into' = Into
  BY <1>1, StillClock DEF ntpVars
<1>3. Old => Into' + delay' <= Slack + late'
  BY <1>1, <1>2, MFacts DEF MInv, Old
<1>4. RoundInv' /\ CalmInv' /\ SteadyInv'
  BY <1>1, <1>2 DEF MInv, RoundInv, CalmInv, SteadyInv
<1>5. OnceDue'
  BY <1>1, <1>2, <1>3 DEF MInv, OnceDue
<1>6. WeeklyDue'
  BY <1>1, <1>2, <1>3 DEF MInv, WeeklyDue, AllServed, Served
<1> QED BY <1>4, <1>5, <1>6 DEF MInv

LEMMA MInvWake ==
  ASSUME MInv, Wake, (TypeOK /\ SendsRelay)'
  PROVE  MInv'
<1>1. /\ pc = "sleep" /\ pc' = "top" /\ delay = 0
      /\ UNCHANGED <<plan, status, complete, delay, late, steady, calm, toggled, ntpVars>>
  BY DEF Wake, history
<1>2. local' = local /\ Into' = Into
  BY <1>1, StillClock DEF ntpVars
<1>3. Into + delay <= Slack + late => InTime'
  BY <1>1, <1>2, MFacts DEF MInv, InTime
<1>4. RoundInv' /\ CalmInv' /\ SteadyInv'
  BY <1>1, <1>2 DEF MInv, RoundInv, CalmInv, SteadyInv
<1>5. OnceDue'
  BY <1>1, <1>2, <1>3 DEF MInv, OnceDue
<1>6. WeeklyDue'
  BY <1>1, <1>2, <1>3 DEF MInv, WeeklyDue, AllServed, Served
<1> QED BY <1>4, <1>5, <1>6 DEF MInv

\* A second within the minute, and the first of the next.
LEMMA TickOfMinute ==
  ASSUME MInv, Tick
  PROVE  /\ MinuteOf(local') = MinuteOf(local) =>
              Into' = Into + 1 /\ DayOf(local') = DayOf(local)
         /\ MinuteOf(local') # MinuteOf(local) => Into = Seconds - 1 /\ Into' = 0
<1>1. local \in Time /\ local' = (local + 1) % Week
  BY LocalTime, LocalTicks DEF MInv, TypeOK, Tick
<1>2. /\ local % Seconds \in 0 .. Seconds - 1
      /\ local % Seconds < Seconds - 1 =>
           /\ local' % Seconds = (local % Seconds) + 1
           /\ MinuteOf(local') = MinuteOf(local) /\ DayOf(local') = DayOf(local)
      /\ local % Seconds = Seconds - 1 =>
           local' % Seconds = 0 /\ MinuteOf(local') # MinuteOf(local)
  BY <1>1, NextSecond
<1>3. Seconds \in Nat /\ Into = local % Seconds /\ Into' = local' % Seconds
  BY NtpTimeAssumption DEF Into
<1>4. Into < Seconds - 1 \/ Into = Seconds - 1
  BY <1>2, <1>3
<1> QED BY <1>2, <1>3, <1>4

LEMMA MInvTick ==
  ASSUME MInv, Tick, (TypeOK /\ SendsRelay)'
  PROVE  MInv'
<1>1. /\ Ready => late < Slack /\ late' = late + 1
      /\ ~Ready => late' = late
      /\ delay' = IF delay = 0 THEN 0 ELSE delay - 1
      /\ UNCHANGED <<plan, pc, next, status, complete>>
      /\ steady' => steady /\ ~Blocked
  BY DEF Tick
<1>2. /\ calm' => ~Blocked
      /\ calm' /\ MinuteOf(local') = MinuteOf(local) => calm /\ toggled' = toggled
      /\ calm' /\ MinuteOf(local') # MinuteOf(local) =>
           pc # "start" /\ MinuteOf(local') = plan.minute
  BY DEF Tick
<1>3. /\ Slack \in Nat /\ late \in Nat /\ delay \in {0, 1} /\ Into \in Nat
      /\ delay' = 0 /\ (delay = 1 => pc = "sleep")
      /\ (pc # "start" => plan # NULL)
  BY <1>1, MFacts DEF MInv, RoundInv
<1>4. RoundInv'
  BY <1>1, <1>3 DEF MInv, RoundInv
<1>5. CalmInv'
  <2>1. calm' => plan # NULL /\ MinuteOf(local') = plan.minute
    BY <1>2, <1>3 DEF MInv, CalmInv
  <2> QED BY <1>1, <2>1 DEF CalmInv
<1>6. pc \in {"top", "relay", "end"} => Ready
  BY DEF Ready
<1>7. ASSUME calm' PROVE pc \notin {"send", "report"}
  BY <1>2, <1>7 DEF Blocked
<1>8. ASSUME MinuteOf(local') = MinuteOf(local) PROVE OnceDue' /\ WeeklyDue'
  <2>1. Into' = Into + 1 /\ DayOf(local') = DayOf(local)
    BY <1>8, TickOfMinute
  <2>2. Ready /\ Old => Old'
    BY <1>1, <1>3, <2>1 DEF Old
  <2>3. Ready /\ InTime => InTime'
    BY <1>1, <1>3, <2>1 DEF InTime
  <2>4. pc = "sleep" /\ Into + delay <= Slack + late => Into' + delay' <= Slack + late'
    <3> SUFFICES ASSUME pc = "sleep", Into + delay <= Slack + late
                 PROVE  Into' + delay' <= Slack + late'
      OBVIOUS
    <3>1. Into' + delay' = Into + 1
      BY <1>3, <2>1
    <3>2. CASE delay = 0
      <4>1. late' = late + 1
        BY <1>1, <3>2 DEF Ready
      <4>2. Into <= Slack + late
        BY <1>3, <3>2
      <4>3. Into + 1 <= Slack + (late + 1)
        BY <1>3, <4>2
      <4> QED BY <3>1, <4>1, <4>3
    <3>3. CASE delay = 1
      <4>1. late <= late' /\ late' \in Nat
        BY <1>1, <1>3
      <4>2. Into + 1 <= Slack + late
        BY <3>3
      <4>3. \A i, s, l, m \in Nat : l <= m /\ i + 1 <= s + l => i + 1 <= s + m
        OBVIOUS
      <4>4. Into + 1 <= Slack + late'
        BY <1>3, <4>1, <4>2, <4>3
      <4> QED BY <3>1, <4>4
    <3> QED BY <1>3, <3>2, <3>3
  <2>5. OnceDue'
    BY <1>1, <1>2, <1>6, <1>7, <1>8, <2>2, <2>3, <2>4 DEF MInv, OnceDue
  <2>6. WeeklyDue'
    <3>1. ASSUME calm' PROVE /\ AllServed => AllServed'
                             /\ ServedTo(next) => ServedTo(next)'
      BY <1>1, <1>2, <1>8, <3>1 DEF AllServed, ServedTo, Served
    <3> QED BY <1>1, <1>2, <1>6, <1>7, <1>8, <2>1, <2>2, <2>3, <2>4, <3>1 DEF MInv, WeeklyDue
  <2> QED BY <2>5, <2>6
<1>9. ASSUME MinuteOf(local') # MinuteOf(local) PROVE OnceDue' /\ WeeklyDue'
  <2>1. Into' = 0
    BY <1>9, TickOfMinute
  <2>2. Ready => Old' /\ InTime'
    BY <1>1, <1>3, <2>1 DEF Old, InTime
  <2>3. Into' + delay' <= Slack + late'
    BY <1>1, <1>3, <2>1
  <2>4. OnceDue'
    BY <1>1, <1>6, <1>7, <2>2, <2>3 DEF OnceDue
  <2>5. WeeklyDue'
    BY <1>1, <1>6, <1>7, <2>2, <2>3 DEF WeeklyDue
  <2> QED BY <2>4, <2>5
<1>10. OnceDue' /\ WeeklyDue'
  BY <1>8, <1>9
<1>11. SteadyInv'
  <2> SUFFICES ASSUME steady'
               PROVE  /\ plan # NULL /\ pc \in {"relay", "send"}
                      /\ \E k \in 0 .. late' : MinuteOf(Ago(k)') = plan.minute
    BY <1>1 DEF SteadyInv
  <2>1. plan # NULL /\ pc = "relay"
    BY <1>1 DEF MInv, SteadyInv, Blocked
  <2>2. PICK k \in 0 .. late : MinuteOf(Ago(k)) = plan.minute
    BY <1>1 DEF MInv, SteadyInv
  <2>3. k \in 0 .. Slack - 1 /\ k + 1 \in 0 .. late'
    BY <1>1, <1>3, <1>6, <2>1
  <2>4. Ago(k + 1)' = Ago(k)
    BY <2>3, AgoFacts DEF MInv, TypeOK, Tick
  <2> QED BY <2>1, <2>2, <2>3, <2>4
<1> QED BY <1>4, <1>5, <1>10, <1>11 DEF MInv

LEMMA MInvNext == MInv /\ [Next]_vars => MInv'
<1> SUFFICES ASSUME MInv, [Next]_vars PROVE MInv'
  OBVIOUS
<1>1. (TypeOK /\ SendsRelay)'
  BY TypeStep DEF MInv
<1>2. CASE UNCHANGED vars
  <2>1. UNCHANGED <<plan, pc, next, status, complete, delay, late, steady, calm, toggled,
                    utc, zone>>
    BY <1>2 DEF vars, taskVars, history, ntpVars
  <2>2. local' = local /\ Into' = Into /\ \A k \in Nat : Ago(k)' = Ago(k)
    BY <2>1, StillClock
  <2>3. RoundInv' /\ CalmInv' /\ OnceDue'
    BY <2>1, <2>2 DEF MInv, RoundInv, CalmInv, OnceDue, Old, InTime
  <2>4. WeeklyDue'
    BY <2>1, <2>2 DEF MInv, WeeklyDue, Old, InTime, ServedTo, AllServed, Served
  <2>5. SteadyInv'
    <3>1. \A k \in 0 .. late : k \in Nat
      OBVIOUS
    <3> QED BY <2>1, <2>2, <3>1 DEF MInv, SteadyInv
  <2> QED BY <1>1, <2>3, <2>4, <2>5 DEF MInv
<1>3. CASE ScheduleStart \/ Round
  BY <1>1, <1>3, MInvStart, MInvLook, MInvRelay, MInvNotified, MInvDone, MInvEnds,
     MInvSleep, MInvWake DEF Round
<1>4. CASE \E r \in Relays : OthersSwitch(r)
  BY <1>1, <1>4, MInvOthers
<1>5. CASE Tick \/ ClockSet \/ ObtainGoesOn
  BY <1>1, <1>5, MInvTick, MInvClockSet, MInvObtain
<1> QED BY <1>2, <1>3, <1>4, <1>5 DEF Next, Aborted

LEMMA MInvAlways == Spec => []MInv
BY MInvInit, MInvNext, PTL DEF Spec

\* A schedule drives a relay in its minute, on one of its days, or within the
\* seconds its round was late, unless it waited for the lock or the clock was moved.
THEOREM DrivesAreOnTime == Spec => DrivesOnTime
<1> DEFINE OnTime ==
      steady /\ status' # status /\ Drive =>
        /\ \E k \in 0 .. Slack : MinuteOf(Ago(k)) = plan.minute
        /\ plan.once \/ \E k \in 0 .. Slack : DayOf(Ago(k)) \in plan.days
<1>1. ASSUME MInv, steady, Drive PROVE OnTime
  <2>1. \E k \in 0 .. Slack : MinuteOf(Ago(k)) = plan.minute
    <3>1. PICK k \in 0 .. late : MinuteOf(Ago(k)) = plan.minute
      BY <1>1 DEF MInv, SteadyInv
    <3>2. k \in 0 .. Slack
      BY <1>1, MFacts DEF MInv
    <3> QED BY <3>1, <3>2
  <2>2. plan.once \/ is_today_selected(plan.days)
    BY <1>1 DEF Drive, Wants
  <2>3. is_today_selected(plan.days) <=> DayOf(Ago(0)) \in plan.days
    BY <1>1, TodayIsToday, AgoFacts DEF MInv, TypeOK
  <2>4. 0 \in 0 .. Slack
    BY ScheduleClockAssumption
  <2> QED BY <2>1, <2>2, <2>3, <2>4
<1>2. MInv => [OnTime]_vars
  BY <1>1
<1>3. []MInv => [][OnTime]_vars
  BY <1>2, PTL
<1> QED BY <1>3, MInvAlways DEF DrivesOnTime

\* No minute of an active schedule goes by unseen: a minute is longer than two
\* rounds can be late, so one round at least falls into it.
THEOREM MinutesAreServed == Spec => MinuteServed
<1> DEFINE Done ==
      Tick /\ calm /\ ~Blocked /\ plan.active /\ MinuteOf(local') # plan.minute =>
        IF plan.once THEN complete
        ELSE DayOf(local) \in plan.days =>
               \A r \in plan.relays : status[r] = plan.on \/ r \in toggled
<1>1. ASSUME MInv, Tick, calm, ~Blocked, plan.active, MinuteOf(local') # plan.minute
      PROVE  Done
  <2>1. /\ Slack \in Nat /\ late \in Nat /\ late <= Slack /\ Seconds \in Nat
        /\ Seconds > 2 * Slack /\ delay \in {0, 1}
        /\ pc # "start" /\ plan.once \in BOOLEAN
    BY <1>1, MFacts DEF MInv, RoundInv, CalmInv
  <2>2. Into = Seconds - 1
    BY <1>1, TickOfMinute DEF MInv, CalmInv
  <2>3. Ready => late < Slack
    BY <1>1 DEF Tick
  <2>4. ~Old
    BY <2>1, <2>2 DEF Old
  <2>5. Ready => ~InTime
    BY <2>1, <2>2, <2>3 DEF InTime
  <2>6. pc = "sleep" => ~(Into + delay <= Slack + late)
    <3>1. CASE delay = 0
      <4>1. pc = "sleep" => late < Slack
        BY <2>3, <3>1 DEF Ready
      <4> QED BY <2>1, <2>2, <3>1, <4>1
    <3>2. CASE delay = 1
      <4>1. late = 0
        BY <1>1, <3>2 DEF MInv, RoundInv
      <4> QED BY <2>1, <2>2, <3>2, <4>1
    <3> QED BY <2>1, <3>1, <3>2
  <2>7. pc \in {"top", "relay", "end", "sleep", "gone"}
    BY <1>1, <2>1 DEF Tick, Blocked, MInv, TypeOK, Labels
  <2>8. pc \in {"top", "relay", "end"} => Ready
    BY DEF Ready
  <2>9. CASE plan.once
    BY <1>1, <2>4, <2>5, <2>6, <2>7, <2>8, <2>9 DEF MInv, RoundInv, OnceDue
  <2>10. CASE ~plan.once
    <3>1. pc # "gone"
      BY <1>1, <2>10 DEF MInv, RoundInv, CalmInv
    <3>2. DayOf(local) \in plan.days => AllServed
      BY <1>1, <2>4, <2>5, <2>6, <2>7, <2>8, <2>10, <3>1 DEF MInv, WeeklyDue
    <3> QED BY <2>10, <3>2 DEF AllServed, Served
  <2> QED BY <2>1, <2>9, <2>10
<1>2. MInv => [Done]_vars
  BY <1>1
<1>3. []MInv => [][Done]_vars
  BY <1>2, PTL
<1> QED BY <1>3, MInvAlways DEF MinuteServed

=============================================================================
