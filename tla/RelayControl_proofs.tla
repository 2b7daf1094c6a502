------------------------ MODULE RelayControl_proofs ------------------------
(***************************************************************************)
(* Proofs about RelayControl, for any relays, any of them inverted, any    *)
(* number of schedule tasks and any schedules.                             *)
(***************************************************************************)
EXTENDS RelayControl, TLAPS

(***************************************************************************)
(* Sequences: what is left of a round once its head is done.               *)
(***************************************************************************)

LEMMA TailFacts ==
  ASSUME NEW S, NEW s \in Seq(S), s # << >>
  PROVE  /\ Len(s) \in Nat /\ Len(s) >= 1 /\ Head(s) = s[1] /\ s[1] \in S
         /\ Tail(s) \in Seq(S) /\ Len(Tail(s)) = Len(s) - 1
         /\ \A k \in 1 .. Len(s) - 1 : Tail(s)[k] = s[k + 1]
OBVIOUS

LEMMA LastTail ==
  ASSUME NEW S, NEW s \in Seq(S), Len(s) = 1
  PROVE  Tail(s) = << >>
<1>1. s # << >>
  OBVIOUS
<1>2. Tail(s) \in Seq(S) /\ Len(Tail(s)) = 0
  BY <1>1, TailFacts
<1>3. \A t \in Seq(S) : Len(t) = 0 => t = << >>
  OBVIOUS
<1> QED BY <1>2, <1>3

LEMMA NoneMore ==
  ASSUME NEW S, NEW t \in Seq(S)
  PROVE  << >> \o t = t
OBVIOUS

LEMMA OneMore ==
  ASSUME NEW S, NEW t \in Seq(S), NEW x \in S
  PROVE  /\ <<x>> \o t \in Seq(S) /\ Len(<<x>> \o t) = Len(t) + 1
         /\ (<<x>> \o t)[1] = x
         /\ \A k \in 2 .. Len(t) + 1 : (<<x>> \o t)[k] = t[k - 1]
<1>1. <<x>> \in Seq(S) /\ Len(<<x>>) = 1 /\ <<x>>[1] = x
  OBVIOUS
<1> HIDE <1>1
<1>2. Len(t) \in Nat
  OBVIOUS
<1> QED BY <1>1, <1>2

LEMMA TwoMore ==
  ASSUME NEW S, NEW t \in Seq(S), NEW x \in S, NEW y \in S
  PROVE  /\ <<x, y>> \o t \in Seq(S) /\ Len(<<x, y>> \o t) = Len(t) + 2
         /\ (<<x, y>> \o t)[1] = x /\ (<<x, y>> \o t)[2] = y
         /\ \A k \in 3 .. Len(t) + 2 : (<<x, y>> \o t)[k] = t[k - 2]
<1>1. <<x, y>> \in Seq(S) /\ Len(<<x, y>>) = 2 /\ <<x, y>>[1] = x /\ <<x, y>>[2] = y
  OBVIOUS
<1>2. Len(t) \in Nat
  OBVIOUS
<1> QED BY <1>1, <1>2

LEMMA ConcatFacts ==
  ASSUME NEW S, NEW s \in Seq(S), NEW t \in Seq(S)
  PROVE  /\ s \o t \in Seq(S) /\ Len(s \o t) = Len(s) + Len(t)
         /\ \A k \in 1 .. Len(s) : (s \o t)[k] = s[k]
         /\ \A k \in Len(s) + 1 .. Len(s) + Len(t) : (s \o t)[k] = t[k - Len(s)]
OBVIOUS

-----------------------------------------------------------------------------
(***************************************************************************)
(* The inductive invariant.  Program says what a round can consist of,     *)
(* Pin what a relay's contact agrees with while one task drives it alone,  *)
(* LockInv who can hold the lock, Truthful what a task that has driven a   *)
(* relay is going to tell the server.                                      *)
(***************************************************************************)

\* Only the head of a round can be the second write of a drive.
RoundOK(s) ==
  \A k \in 1 .. Len(s) :
    /\ s[k].op = "status" => k = 1
    /\ s[k].op # "report" => s[k].relay \in Relays

\* A handler of the client task ends with a message.
WsRound(s) ==
  \A k \in 1 .. Len(s) :
    /\ s[k].op \in {"gpio", "status", "notify", "report"}
    /\ k = Len(s) => s[k].op \in {"notify", "report"}

\* In a round of any other task everything is about one and the same position.
Valued == {"check", "skip", "gpio", "status", "notify"}
OneValue(s) ==
  \A k, l \in 1 .. Len(s) : s[k].op \in Valued /\ s[l].op \in Valued => s[k].on = s[l].on

Program(p, s) ==
  /\ RoundOK(s)
  /\ p = "ws" => WsRound(s)
  /\ p # "ws" => OneValue(s)

Pin(r) ==
  ~torn[r] =>
    \/ Driving(r) = {} /\ (Closed(r) <=> status[r])
    \/ \E p \in Actors : Driving(r) = {p} /\ (Closed(r) <=> Head(todo[p]).on)

LockInv ==
  /\ \A p \in Actors \ {"ws"} : lock = p => Sending(p)
  /\ lock = "ws" => todo["ws"] # << >>

\* Nothing drives the relay of s[k] before s[k].
First(s, k) == \A l \in 1 .. k - 1 : s[l].op \in {"gpio", "status"} => s[l].relay # s[k].relay

Truthful(p) ==
  \A k \in 1 .. Len(todo[p]) :
    /\ todo[p][k].op = "notify" /\ First(todo[p], k)
    /\ lastDriver[todo[p][k].relay] = p
    => status[todo[p][k].relay] = todo[p][k].on

RInv ==
  /\ TypeOK
  /\ \A p \in Actors : Program(p, todo[p])
  /\ \A r \in Relays : Pin(r)
  /\ LockInv
  /\ \A p \in Actors \ {"ws"} : Truthful(p)

-----------------------------------------------------------------------------
(* What becomes of a round when its head is done.                          *)

LEMMA RelayFacts ==
  /\ RelaySeq \in Seq(Relays) /\ DOMAIN RelaySeq = 1 .. Len(RelaySeq) /\ Len(RelaySeq) \in Nat
  /\ \A k \in 1 .. Len(RelaySeq) : RelaySeq[k] \in Relays
  /\ "ws" \in Actors /\ "button" \in Actors /\ "ac" \in Actors /\ Schedules \subseteq Actors
  /\ NULL \notin Actors /\ NULL # Lost /\ Lost \notin Actors /\ "ws" \notin Schedules
BY RelayControlAssumption DEF Relays, Range, Actors, Lost

LEMMA HeadType ==
  ASSUME TypeOK, NEW p \in Actors, todo[p] # << >>
  PROVE  /\ todo[p] \in Seq(Operations) /\ Head(todo[p]) \in Operations
         /\ Head(todo[p]) = todo[p][1] /\ 1 \in 1 .. Len(todo[p])
<1>1. todo[p] \in Seq(Operations)
  BY DEF TypeOK
<1> QED BY <1>1, TailFacts

\* The head is done.
LEMMA ProgramTail ==
  ASSUME NEW p, NEW s \in Seq(Operations), s # << >>, Program(p, s)
  PROVE  /\ Tail(s) \in Seq(Operations) /\ Program(p, Tail(s))
         /\ Tail(s) # << >> => Head(Tail(s)).op # "status"
<1> DEFINE t == Tail(s)
<1>1. /\ t \in Seq(Operations) /\ Len(t) = Len(s) - 1 /\ Len(s) \in Nat
      /\ \A k \in 1 .. Len(t) : k + 1 \in 1 .. Len(s) /\ t[k] = s[k + 1]
      /\ t # << >> => Head(t) = t[1] /\ 1 \in 1 .. Len(t)
  BY TailFacts
<1> HIDE DEF t
<1>2. \A k \in 1 .. Len(t) : t[k].op # "status"
  BY <1>1 DEF Program, RoundOK
<1>3. RoundOK(t)
  BY <1>1, <1>2 DEF Program, RoundOK
<1>4. p = "ws" => WsRound(t)
  BY <1>1 DEF Program, WsRound
<1>5. p # "ws" => OneValue(t)
  BY <1>1 DEF Program, OneValue
<1> QED BY <1>1, <1>2, <1>3, <1>4, <1>5 DEF Program, t

\* The pin is written, the status is next.
LEMMA ProgramStatus ==
  ASSUME NEW p, NEW s \in Seq(Operations), s # << >>, Program(p, s), s[1].op = "gpio",
         NEW t, t = <<Op("status", s[1].relay, s[1].on)>> \o Tail(s)
  PROVE  /\ t \in Seq(Operations) /\ t # << >> /\ Program(p, t)
         /\ Len(t) = Len(s) /\ t[1] = Op("status", s[1].relay, s[1].on)
         /\ \A k \in 2 .. Len(s) : t[k] = s[k]
<1>1. /\ s[1] \in Operations /\ Tail(s) \in Seq(Operations)
      /\ Len(Tail(s)) = Len(s) - 1 /\ Len(s) \in Nat /\ Len(s) >= 1
      /\ \A k \in 1 .. Len(s) - 1 : Tail(s)[k] = s[k + 1]
  BY TailFacts
<1>2. Op("status", s[1].relay, s[1].on) \in Operations
  BY <1>1 DEF Op, Operations
<1>3. /\ t \in Seq(Operations) /\ Len(t) = Len(s)
      /\ t[1] = Op("status", s[1].relay, s[1].on)
      /\ \A k \in 2 .. Len(s) : t[k] = Tail(s)[k - 1]
  BY <1>1, <1>2, OneMore
<1>4. \A k \in 2 .. Len(s) : t[k] = s[k]
  BY <1>1, <1>3
<1>5. t[1].op = "status" /\ t[1].relay = s[1].relay /\ t[1].on = s[1].on
  BY <1>3 DEF Op
<1>6. t # << >> /\ \A k \in 1 .. Len(t) : k = 1 \/ (k \in 2 .. Len(s) /\ t[k] = s[k])
  BY <1>1, <1>3, <1>4
<1>7. RoundOK(t)
  BY <1>1, <1>3, <1>5, <1>6 DEF Program, RoundOK
<1>8. p = "ws" => WsRound(t)
  BY <1>1, <1>3, <1>5, <1>6 DEF Program, WsRound
<1>9. p # "ws" => OneValue(t)
  BY <1>1, <1>3, <1>5, <1>6 DEF Program, OneValue, Valued
<1> QED BY <1>3, <1>4, <1>6, <1>7, <1>8, <1>9 DEF Program

\* A schedule has found that it must drive the relay.
LEMMA ProgramCheck ==
  ASSUME NEW p, NEW s \in Seq(Operations), s # << >>, Program(p, s), s[1].op = "check",
         NEW t, t = <<Drive(s[1].relay, s[1].on), Notify(s[1].relay, s[1].on)>> \o Tail(s)
  PROVE  /\ t \in Seq(Operations) /\ t # << >> /\ Program(p, t) /\ Len(t) = Len(s) + 1
         /\ t[1] = Drive(s[1].relay, s[1].on) /\ t[2] = Notify(s[1].relay, s[1].on)
         /\ \A k \in 3 .. Len(t) : t[k] = s[k - 1]
<1>1. /\ s[1] \in Operations /\ Tail(s) \in Seq(Operations)
      /\ Len(Tail(s)) = Len(s) - 1 /\ Len(s) \in Nat /\ Len(s) >= 1
      /\ \A k \in 1 .. Len(s) - 1 : Tail(s)[k] = s[k + 1]
  BY TailFacts
<1>2. /\ Drive(s[1].relay, s[1].on) \in Operations
      /\ Notify(s[1].relay, s[1].on) \in Operations
  BY <1>1 DEF Drive, Notify, Op, Operations
<1>3. /\ t \in Seq(Operations) /\ Len(t) = Len(s) + 1
      /\ t[1] = Drive(s[1].relay, s[1].on) /\ t[2] = Notify(s[1].relay, s[1].on)
      /\ \A k \in 3 .. Len(t) : t[k] = Tail(s)[k - 2]
  BY <1>1, <1>2, TwoMore
<1>4. \A k \in 3 .. Len(t) : t[k] = s[k - 1] /\ k - 1 \in 2 .. Len(s)
  BY <1>1, <1>3
<1>5. /\ t[1].op = "gpio" /\ t[1].relay = s[1].relay /\ t[1].on = s[1].on
      /\ t[2].op = "notify" /\ t[2].relay = s[1].relay /\ t[2].on = s[1].on
  BY <1>3 DEF Drive, Notify, Op
<1>6. /\ t # << >>
      /\ \A k \in 1 .. Len(t) :
           k = 1 \/ k = 2 \/ (k - 1 \in 2 .. Len(s) /\ t[k] = s[k - 1])
  BY <1>1, <1>3, <1>4
<1>7. p # "ws"
  <2>1. 1 \in 1 .. Len(s)
    BY <1>1
  <2>2. s[1].op \notin {"gpio", "status", "notify", "report"}
    OBVIOUS
  <2> QED BY <2>1, <2>2 DEF Program, WsRound
<1>8. RoundOK(t)
  BY <1>1, <1>3, <1>5, <1>6 DEF Program, RoundOK
<1>9. OneValue(t)
  <2>1. \A k \in 1 .. Len(t) : t[k].op \in Valued => t[k].on = s[1].on
    BY <1>1, <1>5, <1>6, <1>7 DEF Program, OneValue, Valued
  <2> QED BY <2>1 DEF OneValue
<1> QED BY <1>3, <1>4, <1>6, <1>7, <1>8, <1>9 DEF Program

-----------------------------------------------------------------------------
(* The rounds there are.                                                   *)

\* What a round is like when it begins, or when the button has decided.
Whole(p, s) ==
  /\ s \in Seq(Operations) /\ Program(p, s)
  /\ s # << >> => Head(s).op # "status"
  /\ p # "ws" => \A k \in 1 .. Len(s) : s[k].op = "notify" => ~First(s, k)

\* A round all of whose operations concern one position, before any of them.
LEMMA WholeRound ==
  ASSUME NEW p, p # "ws", NEW s \in Seq(Operations), NEW on \in BOOLEAN,
         \A k \in 1 .. Len(s) :
           /\ s[k].op # "status"
           /\ s[k].op # "report" => s[k].relay \in Relays
           /\ s[k].op \in Valued => s[k].on = on
           /\ s[k].op = "notify" => ~First(s, k)
  PROVE  Whole(p, s)
<1>1. Program(p, s)
  BY DEF Program, RoundOK, OneValue
<1>2. s # << >> => Head(s).op # "status"
  BY TailFacts
<1> QED BY <1>1, <1>2 DEF Whole

\* The button and the overcurrent trip drive all relays, then notify.
LEMMA AllWhole ==
  ASSUME NEW p, p # "ws", NEW on \in BOOLEAN
  PROVE  Whole(p, DriveAll(on) \o NotifyAll(on))
<1> DEFINE n == Len(RelaySeq)
           d == DriveAll(on)
           m == NotifyAll(on)
           s == d \o m
<1>1. n \in Nat /\ \A k \in 1 .. n : RelaySeq[k] \in Relays
  BY RelayFacts
<1>2. \A k \in 1 .. n : /\ d[k].op = "gpio" /\ d[k].relay = RelaySeq[k] /\ d[k].on = on
                        /\ m[k].op = "notify" /\ m[k].relay = RelaySeq[k] /\ m[k].on = on
  BY RelayFacts DEF DriveAll, NotifyAll, Drive, Notify, Op
<1>3. d \in Seq(Operations) /\ Len(d) = n /\ m \in Seq(Operations) /\ Len(m) = n
  <2>1. \A r \in Relays, op \in {"gpio", "notify"} : Op(op, r, on) \in Operations
    BY DEF Op, Operations
  <2>2. d \in [1 .. n -> Operations] /\ m \in [1 .. n -> Operations]
    BY <1>1, <2>1, RelayFacts DEF DriveAll, NotifyAll, Drive, Notify
  <2> QED BY <1>1, <2>2
<1> HIDE DEF n, d, m
<1>4. /\ s \in Seq(Operations) /\ Len(s) = Len(d) + Len(m)
      /\ \A k \in 1 .. Len(d) : s[k] = d[k]
      /\ \A k \in Len(d) + 1 .. Len(d) + Len(m) : s[k] = m[k - Len(d)]
  BY <1>3, ConcatFacts
<1> HIDE DEF s
<1>5. \A k \in 1 .. Len(s) : k \in 1 .. n \/ (k \in n + 1 .. n + n /\ k - n \in 1 .. n)
  BY <1>1, <1>3, <1>4
<1>6. \A k \in 1 .. n : s[k].op = "gpio" /\ s[k].relay = RelaySeq[k] /\ s[k].on = on
  BY <1>2, <1>3, <1>4
<1>7. ASSUME NEW k \in n + 1 .. n + n, k - n \in 1 .. n
      PROVE  /\ s[k].op = "notify" /\ s[k].relay = RelaySeq[k - n] /\ s[k].on = on
             /\ ~First(s, k)
  <2>1. s[k].op = "notify" /\ s[k].relay = RelaySeq[k - n] /\ s[k].on = on
    BY <1>2, <1>3, <1>4, <1>7
  <2>2. k - n \in 1 .. k - 1
    BY <1>1, <1>7
  <2> QED BY <1>6, <1>7, <2>1, <2>2 DEF First
<1>8. \A k \in 1 .. Len(s) :
        /\ s[k].op # "status"
        /\ s[k].op # "report" => s[k].relay \in Relays
        /\ s[k].op \in Valued => s[k].on = on
        /\ s[k].op = "notify" => ~First(s, k)
  BY <1>1, <1>5, <1>6, <1>7
<1>9. s \in Seq(Operations)
  BY <1>4
<1>10. Whole(p, s)
  BY <1>8, <1>9, WholeRound
<1> QED BY <1>10 DEF s, d, m

LEMMA TestsWhole ==
  Whole("button", [k \in DOMAIN RelaySeq |-> Op("test", RelaySeq[k], FALSE)])
<1> DEFINE n == Len(RelaySeq)
           s == [k \in DOMAIN RelaySeq |-> Op("test", RelaySeq[k], FALSE)]
<1>1. n \in Nat /\ \A k \in 1 .. n : RelaySeq[k] \in Relays
  BY RelayFacts
<1>2. \A k \in 1 .. n : s[k].op = "test" /\ s[k].relay = RelaySeq[k]
  BY RelayFacts DEF Op
<1>3. s \in Seq(Operations) /\ Len(s) = n
  <2>1. \A r \in Relays : Op("test", r, FALSE) \in Operations
    BY DEF Op, Operations
  <2>2. s \in [1 .. n -> Operations]
    BY <1>1, <2>1, RelayFacts
  <2> HIDE DEF n, s
  <2> QED BY <1>1, <2>2
<1> HIDE DEF n, s
<1>4. \A k \in 1 .. Len(s) : s[k].op = "test" /\ s[k].relay \in Relays
  BY <1>1, <1>2, <1>3
<1>5. \A k \in 1 .. Len(s) :
        /\ s[k].op # "status"
        /\ s[k].op # "report" => s[k].relay \in Relays
        /\ s[k].op \in Valued => s[k].on = TRUE
        /\ s[k].op = "notify" => ~First(s, k)
  BY <1>4 DEF Valued
<1>6. Whole("button", s)
  BY <1>3, <1>5, WholeRound
<1> QED BY <1>6 DEF s

LEMMA ScheduleWhole ==
  ASSUME NEW p, p # "ws", NEW now, NEW on \in BOOLEAN, NEW once \in BOOLEAN
  PROVE  Whole(p, [k \in DOMAIN RelaySeq |->
                     Op(IF RelaySeq[k] \in now THEN "check" ELSE "skip", RelaySeq[k], on)]
                    \o (IF once THEN <<Report>> ELSE << >>))
<1> DEFINE n == Len(RelaySeq)
           c == [k \in DOMAIN RelaySeq |->
                   Op(IF RelaySeq[k] \in now THEN "check" ELSE "skip", RelaySeq[k], on)]
           e == IF once THEN <<Report>> ELSE << >>
           s == c \o e
<1>1. n \in Nat /\ \A k \in 1 .. n : RelaySeq[k] \in Relays
  BY RelayFacts
<1>2. \A k \in 1 .. n : c[k].op \in {"check", "skip"} /\ c[k].relay = RelaySeq[k] /\ c[k].on = on
  BY RelayFacts DEF Op
<1>3. c \in Seq(Operations) /\ Len(c) = n
  <2>1. \A r \in Relays, op \in {"check", "skip"} : Op(op, r, on) \in Operations
    BY DEF Op, Operations
  <2>2. c \in [1 .. n -> Operations]
    BY <1>1, <2>1, RelayFacts
  <2> QED BY <1>1, <2>2
<1>4. e \in Seq(Operations) /\ Len(e) \in {0, 1} /\ \A k \in 1 .. Len(e) : e[k].op = "report"
  <2>1. Report \in Operations /\ Report.op = "report"
    BY DEF Report, Op, Operations
  <2>2. CASE once
    <3>1. e = <<Report>>
      BY <2>2
    <3> HIDE DEF e
    <3> QED BY <2>1, <3>1
  <2>3. CASE ~once
    BY <2>3
  <2> QED BY <2>2, <2>3
<1> HIDE DEF c, e
<1>5. /\ s \in Seq(Operations) /\ Len(s) = n + Len(e)
      /\ \A k \in 1 .. n : s[k] = c[k]
      /\ \A k \in n + 1 .. n + Len(e) : s[k] = e[k - n]
  <2>1. c \in Seq(Operations) /\ e \in Seq(Operations)
    BY <1>3, <1>4
  <2>2. /\ s \in Seq(Operations) /\ Len(s) = Len(c) + Len(e)
        /\ \A k \in 1 .. Len(c) : s[k] = c[k]
        /\ \A k \in Len(c) + 1 .. Len(c) + Len(e) : s[k] = e[k - Len(c)]
    BY <2>1, ConcatFacts
  <2> HIDE DEF s, n
  <2> QED BY <1>3, <2>2
<1> HIDE DEF s
<1>6. \A k \in 1 .. Len(s) :
        \/ s[k].op = "report"
        \/ s[k].op \in {"check", "skip"} /\ s[k].relay \in Relays /\ s[k].on = on
  <2>1. \A k \in 1 .. Len(s) : k \in 1 .. n \/ (k \in n + 1 .. n + Len(e) /\ k - n \in 1 .. Len(e))
    BY <1>1, <1>4, <1>5
  <2> QED BY <1>1, <1>2, <1>4, <1>5, <2>1
<1>7. Whole(p, s)
  BY <1>5, <1>6, WholeRound DEF Valued
<1> QED BY <1>7 DEF s, c, e

LEMMA UpdateWhole ==
  ASSUME NEW r \in Relays, NEW s \in BOOLEAN
  PROVE  Whole("ws", <<Drive(r, ~s), Notify(r, s)>>)
<1> DEFINE d == Drive(r, ~s)
           m == Notify(r, s)
           t == <<d, m>>
<1>1. /\ d \in Operations /\ m \in Operations
      /\ d.op = "gpio" /\ m.op = "notify" /\ d.relay = r /\ m.relay = r
  BY DEF Drive, Notify, Op, Operations
<1> HIDE DEF d, m
<1>2. t \in Seq(Operations) /\ Len(t) = 2 /\ t[1] = d /\ t[2] = m /\ Head(t) = d
  BY <1>1
<1> HIDE DEF t
<1>3. Whole("ws", t)
  BY <1>1, <1>2 DEF Whole, Program, RoundOK, WsRound
<1> QED BY <1>3 DEF t, d, m

LEMMA ReportWhole == Whole("ws", <<Report>>)
<1> DEFINE t == <<Report>>
<1>1. Report \in Operations /\ Report.op = "report"
  BY DEF Report, Op, Operations
<1>2. t \in Seq(Operations) /\ Len(t) = 1 /\ t[1] = Report /\ Head(t) = Report
  BY <1>1
<1> HIDE DEF t
<1>3. Whole("ws", t)
  BY <1>1, <1>2 DEF Whole, Program, RoundOK, WsRound
<1> QED BY <1>3 DEF t

-----------------------------------------------------------------------------
(* The steps.                                                              *)

\* A step of p that writes neither pin nor status, and is not between the two.
LEMMA Moves ==
  ASSUME RInv, NEW p \in Actors, NEW t \in Seq(Operations),
         todo' = [todo EXCEPT ![p] = t], Program(p, t), ~At(p, "status"),
         t # << >> => Head(t).op # "status",
         UNCHANGED <<gpio, status, torn, lastDriver>>,
         view' \in [Relays -> BOOLEAN \cup {NULL}], lock' \in Actors \cup {NULL, Lost},
         LockInv', p # "ws" => Truthful(p)'
  PROVE  RInv'
<1>1. todo'[p] = t /\ \A q \in Actors : q # p => todo'[q] = todo[q]
  BY DEF RInv, TypeOK
<1>2. TypeOK'
  BY DEF RInv, TypeOK
<1>3. \A q \in Actors : Program(q, todo'[q])
  BY <1>1 DEF RInv
<1>4. ASSUME NEW r \in Relays PROVE Pin(r)'
  <2>1. \A q \in Actors : q \in Driving(r)' <=> q \in Driving(r)
    BY <1>1 DEF Driving, At
  <2>2. Driving(r)' = Driving(r)
    BY <2>1 DEF Driving
  <2>3. \A q \in Driving(r) : todo'[q] = todo[q]
    BY <1>1 DEF Driving, At
  <2>4. Pin(r)
    BY DEF RInv
  <2> QED BY <2>2, <2>3, <2>4 DEF Pin, Closed
<1>5. ASSUME NEW q \in Actors \ {"ws"}, q # p PROVE Truthful(q)'
  BY <1>1, <1>5 DEF RInv, Truthful
<1> QED BY <1>2, <1>3, <1>4, <1>5 DEF RInv

\* The lock while a task that does not hold it goes on.
LEMMA LockStays ==
  ASSUME RInv, NEW p \in Actors, lock # p, lock' = lock,
         \A q \in Actors : q # p => todo'[q] = todo[q]
  PROVE  LockInv'
<1>1. ASSUME NEW q \in Actors \ {"ws"}, lock' = q PROVE Sending(q)'
  <2>1. q # p /\ lock = q
    BY <1>1
  <2>2. Sending(q) /\ todo'[q] = todo[q]
    BY <2>1 DEF RInv, LockInv
  <2> QED BY <2>2 DEF Sending, At
<1>2. lock' = "ws" => todo'["ws"] # << >>
  BY RelayFacts DEF RInv, LockInv
<1> QED BY <1>1, <1>2 DEF LockInv

\* A task that is not sending does not hold the lock, the client's own aside.
LEMMA NotHolding ==
  ASSUME RInv, NEW p \in Actors, todo[p] # << >>,
         Head(todo[p]).op \in {"test", "check", "skip", "gpio", "status"}
  PROVE  /\ p # "ws" => lock # p
         /\ p = "ws" => Head(todo[p]).op \in {"gpio", "status"} /\ Len(todo[p]) > 1
<1>1. /\ todo[p] \in Seq(Operations) /\ Len(todo[p]) \in Nat /\ Len(todo[p]) >= 1
      /\ Head(todo[p]) = todo[p][1] /\ 1 \in 1 .. Len(todo[p])
  BY TailFacts, HeadType DEF RInv, TypeOK
<1>2. p # "ws" => lock # p
  BY DEF RInv, LockInv, Sending, At
<1>3. ASSUME p = "ws" PROVE Head(todo[p]).op \in {"gpio", "status"} /\ Len(todo[p]) > 1
  <2>1. WsRound(todo[p])
    BY <1>3 DEF RInv, Program
  <2>2. todo[p][1].op \in {"gpio", "status"}
    BY <1>1, <2>1 DEF WsRound
  <2>3. Len(todo[p]) # 1
    BY <1>1, <2>1, <2>2 DEF WsRound
  <2>4. \A n \in Nat : n >= 1 /\ n # 1 => n > 1
    OBVIOUS
  <2>5. Len(todo[p]) > 1
    BY <1>1, <2>3, <2>4
  <2> QED BY <1>1, <2>2, <2>5
<1> QED BY <1>2, <1>3

\* Going past a head that drives nothing.
LEMMA TruthfulTail ==
  ASSUME RInv, NEW p \in Actors \ {"ws"}, todo[p] # << >>,
         Head(todo[p]).op \notin {"gpio", "status"},
         todo'[p] = Tail(todo[p]), UNCHANGED <<status, lastDriver>>
  PROVE  Truthful(p)'
<1> DEFINE s == todo[p]
           t == todo'[p]
<1>1. /\ Len(s) \in Nat /\ Len(t) = Len(s) - 1 /\ Head(s) = s[1]
      /\ \A k \in 1 .. Len(t) : k + 1 \in 1 .. Len(s) /\ t[k] = s[k + 1]
  <2>1. s \in Seq(Operations)
    BY DEF RInv, TypeOK
  <2> QED BY <2>1, TailFacts
<1>2. ASSUME NEW k \in 1 .. Len(t), First(t, k) PROVE First(s, k + 1)
  <2>1. ASSUME NEW l \in 1 .. k, s[l].op \in {"gpio", "status"}, s[l].relay = s[k + 1].relay
        PROVE  FALSE
    <3>1. l # 1
      BY <1>1, <2>1
    <3>2. l - 1 \in 1 .. k - 1 /\ l - 1 \in 1 .. Len(t) /\ t[l - 1] = s[l] /\ t[k] = s[k + 1]
      BY <1>1, <3>1
    <3> QED BY <1>2, <2>1, <3>2 DEF First
  <2>2. k + 1 - 1 = k
    OBVIOUS
  <2> QED BY <2>1, <2>2 DEF First
<1>3. Truthful(p)
  BY DEF RInv
<1>4. ASSUME NEW k \in 1 .. Len(t), t[k].op = "notify", First(t, k), lastDriver[t[k].relay] = p
      PROVE  status[t[k].relay] = t[k].on
  BY <1>1, <1>2, <1>3, <1>4 DEF Truthful
<1> QED BY <1>4 DEF Truthful

\* A round that begins has its drives before its notifications.
LEMMA TruthfulWhole ==
  ASSUME NEW p \in Actors \ {"ws"}, Whole(p, todo'[p])
  PROVE  Truthful(p)'
BY DEF Whole, Truthful

LEMMA BeginStep ==
  ASSUME RInv, NEW p \in Actors, NEW t, Whole(p, t), Begin(p, t),
         \/ p # "ws" /\ lock' = lock
         \/ p = "ws" /\ lock' = "ws" /\ lock = NULL /\ t # << >>
  PROVE  RInv'
<1>1. /\ todo' = [todo EXCEPT ![p] = t] /\ todo[p] = << >>
      /\ UNCHANGED <<gpio, status, view, torn, lastDriver>>
      /\ t \in Seq(Operations) /\ Program(p, t) /\ (t # << >> => Head(t).op # "status")
  BY DEF Begin, Whole
<1>2. todo'[p] = t /\ \A q \in Actors : q # p => todo'[q] = todo[q]
  BY <1>1 DEF RInv, TypeOK
<1>3. ~At(p, "status") /\ (p # "ws" => lock # p)
  BY <1>1 DEF At, RInv, LockInv, Sending
<1>4. LockInv'
  <2>1. CASE p # "ws"
    BY <1>2, <1>3, <2>1, LockStays
  <2>2. CASE p = "ws"
    BY <1>2, <2>2 DEF LockInv
  <2> QED BY <2>1, <2>2
<1>5. p # "ws" => Truthful(p)'
  BY <1>2, TruthfulWhole
<1>6. lock' \in Actors \cup {NULL, Lost} /\ view' \in [Relays -> BOOLEAN \cup {NULL}]
  BY <1>1 DEF RInv, TypeOK
<1> QED BY <1>1, <1>3, <1>4, <1>5, <1>6, Moves

\* The rounds of the five kinds of tasks.
LEMMA RoundBegins ==
  ASSUME RInv,
         \/ ButtonPress \/ Overcurrent
         \/ \E h \in Schedules, plan \in Plans : ScheduleRound(h, plan)
         \/ \E r \in Relays, s \in BOOLEAN : UpdateRelay(r, s)
         \/ UpdateSchedule
  PROVE  RInv'
<1>1. CASE ButtonPress
  BY <1>1, BeginStep, TestsWhole, RelayFacts DEF ButtonPress
<1>2. CASE Overcurrent
  <2>1. Whole("ac", DriveAll(FALSE) \o NotifyAll(FALSE))
    BY AllWhole
  <2> QED BY <1>2, <2>1, BeginStep, RelayFacts DEF Overcurrent
<1>3. ASSUME NEW h \in Schedules, NEW plan \in Plans, ScheduleRound(h, plan) PROVE RInv'
  <2>1. plan.on \in BOOLEAN /\ plan.once \in BOOLEAN
    BY RelayControlAssumption
  <2>2. h # "ws" /\ h \in Actors
    BY RelayControlAssumption, RelayFacts
  <2>3. PICK now : Begin(h, [k \in DOMAIN RelaySeq |->
                     Op(IF RelaySeq[k] \in now THEN "check" ELSE "skip", RelaySeq[k], plan.on)]
                    \o (IF plan.once THEN <<Report>> ELSE << >>))
    BY <1>3 DEF ScheduleRound
  <2>4. lock' = lock
    BY <1>3 DEF ScheduleRound
  <2> QED BY <2>1, <2>2, <2>3, <2>4, ScheduleWhole, BeginStep
<1>4. ASSUME NEW r \in Relays, NEW s \in BOOLEAN, UpdateRelay(r, s) PROVE RInv'
  <2>1. Whole("ws", <<Drive(r, ~s), Notify(r, s)>>) /\ <<Drive(r, ~s), Notify(r, s)>> # << >>
    BY UpdateWhole
  <2> QED BY <1>4, <2>1, BeginStep, RelayFacts DEF UpdateRelay
<1>5. CASE UpdateSchedule
  <2>1. Whole("ws", <<Report>>) /\ <<Report>> # << >>
    BY ReportWhole
  <2> QED BY <1>5, <2>1, BeginStep, RelayFacts DEF UpdateSchedule
<1> QED BY <1>1, <1>2, <1>3, <1>4, <1>5

\* The head is done: it was neither of the two writes of a drive.
LEMMA TailStep ==
  ASSUME RInv, NEW p \in Actors, todo[p] # << >>,
         Head(todo[p]).op \notin {"gpio", "status"},
         Continue(p, << >>), UNCHANGED <<gpio, status, torn, lastDriver>>,
         view' \in [Relays -> BOOLEAN \cup {NULL}], lock' \in Actors \cup {NULL, Lost},
         LockInv'
  PROVE  RInv'
<1> DEFINE t == Tail(todo[p])
<1>1. todo[p] \in Seq(Operations) /\ todo \in [Actors -> Seq(Operations)]
  BY DEF RInv, TypeOK
<1>2. Program(p, todo[p])
  BY DEF RInv
<1>3. t \in Seq(Operations) /\ Program(p, t) /\ (t # << >> => Head(t).op # "status")
  BY <1>1, <1>2, ProgramTail
<1>4. todo' = [todo EXCEPT ![p] = t]
  BY <1>1, <1>3, NoneMore DEF Continue
<1>5. todo'[p] = t
  BY <1>1, <1>4
<1>6. p # "ws" => Truthful(p)'
  BY <1>5, TruthfulTail
<1>7. ~At(p, "status")
  BY DEF At
<1> HIDE DEF t
<1> QED BY <1>3, <1>4, <1>6, <1>7, Moves

\* The lock and the other tasks after a step that changes only p's round.
LEMMA OwnRound ==
  ASSUME RInv, NEW p \in Actors, NEW t, todo' = [todo EXCEPT ![p] = t]
  PROVE  todo'[p] = t /\ \A q \in Actors : q # p => todo'[q] = todo[q]
BY DEF RInv, TypeOK

LEMMA ContinueRound ==
  ASSUME RInv, NEW p \in Actors, NEW more, Continue(p, more)
  PROVE  /\ todo' = [todo EXCEPT ![p] = more \o Tail(todo[p])]
         /\ todo'[p] = more \o Tail(todo[p])
         /\ \A q \in Actors : q # p => todo'[q] = todo[q]
BY DEF RInv, TypeOK, Continue

\* A schedule, or the button, goes past a relay that it leaves alone.
LEMMA PassStep ==
  ASSUME RInv, NEW p \in Actors, todo[p] # << >>,
         Head(todo[p]).op \in {"test", "check", "skip"},
         Continue(p, << >>), UNCHANGED <<gpio, status, lock, view, torn, lastDriver>>
  PROVE  RInv'
<1>1. p # "ws" /\ lock # p
  BY NotHolding
<1>2. \A q \in Actors : q # p => todo'[q] = todo[q]
  BY ContinueRound
<1>3. LockInv'
  BY <1>1, <1>2, LockStays
<1>4. view' \in [Relays -> BOOLEAN \cup {NULL}] /\ lock' \in Actors \cup {NULL, Lost}
  BY DEF RInv, TypeOK
<1> QED BY <1>3, <1>4, TailStep

\* A test, or a check, that ends in drives: p's round is replaced.
LEMMA ReplaceStep ==
  ASSUME RInv, NEW p \in Actors, todo[p] # << >>,
         Head(todo[p]).op \in {"test", "check"},
         NEW t \in Seq(Operations), todo' = [todo EXCEPT ![p] = t], Program(p, t),
         t # << >> => Head(t).op # "status", Truthful(p)',
         UNCHANGED <<gpio, status, lock, view, torn, lastDriver>>
  PROVE  RInv'
<1>1. p # "ws" /\ lock # p /\ ~At(p, "status")
  BY NotHolding DEF At
<1>2. LockInv'
  BY <1>1, OwnRound, LockStays
<1>3. view' \in [Relays -> BOOLEAN \cup {NULL}] /\ lock' \in Actors \cup {NULL, Lost}
  BY DEF RInv, TypeOK
<1> QED BY <1>1, <1>2, <1>3, Moves

LEMMA TestStep ==
  ASSUME RInv, NEW p \in Actors, TestStatus(p)
  PROVE  RInv'
<1>1. todo[p] # << >> /\ Head(todo[p]).op = "test"
  BY DEF TestStatus, At
<1>2. UNCHANGED <<gpio, status, lock, view, torn, lastDriver>>
  BY DEF TestStatus
<1>3. p # "ws"
  BY <1>1, NotHolding
<1>4. ASSUME NEW on \in BOOLEAN,
             todo' = [todo EXCEPT ![p] = DriveAll(on) \o NotifyAll(on)]
      PROVE  RInv'
  <2> DEFINE t == DriveAll(on) \o NotifyAll(on)
  <2>1. Whole(p, t)
    BY <1>3, AllWhole
  <2>2. todo' = [todo EXCEPT ![p] = t]
    BY <1>4
  <2> HIDE DEF t
  <2>3. todo'[p] = t
    BY <2>2, OwnRound
  <2>4. Truthful(p)'
    BY <1>3, <2>1, <2>3, TruthfulWhole
  <2>5. t \in Seq(Operations) /\ Program(p, t) /\ (t # << >> => Head(t).op # "status")
    BY <2>1 DEF Whole
  <2> QED BY <1>1, <1>2, <2>2, <2>4, <2>5, ReplaceStep
<1>5. CASE ~status[Head(todo[p]).relay]
  BY <1>4, <1>5 DEF TestStatus
<1>6. CASE status[Head(todo[p]).relay] /\ Len(todo[p]) = 1
  <2> DEFINE t == DriveAll(FALSE) \o NotifyAll(FALSE)
  <2>1. t \in Seq(Operations)
    BY <1>3, AllWhole DEF Whole
  <2>2. Tail(todo[p]) = << >>
    BY <1>1, <1>6, HeadType, LastTail DEF RInv
  <2>3. todo' = [todo EXCEPT ![p] = t \o Tail(todo[p])]
    BY <1>6, ContinueRound DEF TestStatus
  <2> HIDE DEF t
  <2>4. t \o << >> = t
    BY <2>1
  <2>5. todo' = [todo EXCEPT ![p] = t]
    BY <2>2, <2>3, <2>4
  <2> QED BY <1>4, <2>5 DEF t
<1>7. CASE status[Head(todo[p]).relay] /\ Len(todo[p]) # 1
  <2>1. Continue(p, << >>)
    BY <1>7 DEF TestStatus
  <2> QED BY <1>1, <1>2, <2>1, PassStep
<1> QED BY <1>5, <1>6, <1>7

LEMMA CheckStep ==
  ASSUME RInv, NEW p \in Actors, CheckStatus(p)
  PROVE  RInv'
<1> DEFINE s == todo[p]
           o == Head(todo[p])
<1>1. s # << >> /\ o.op = "check" /\ UNCHANGED <<gpio, status, lock, view, torn, lastDriver>>
  BY DEF CheckStatus, At
<1>2. s \in Seq(Operations) /\ o = s[1] /\ Len(s) \in Nat /\ Len(s) >= 1 /\ Program(p, s)
  BY <1>1, HeadType, TailFacts DEF RInv
<1>3. CASE status[o.relay] = o.on
  <2>1. Continue(p, << >>)
    BY <1>3 DEF CheckStatus
  <2> QED BY <1>1, <2>1, PassStep
<1>4. CASE status[o.relay] # o.on
  <2> DEFINE t == <<Drive(o.relay, o.on), Notify(o.relay, o.on)>> \o Tail(s)
  <2>1. Continue(p, <<Drive(o.relay, o.on), Notify(o.relay, o.on)>>)
    BY <1>4 DEF CheckStatus
  <2>2. todo' = [todo EXCEPT ![p] = t] /\ todo'[p] = t
    BY <2>1, ContinueRound
  <2>3. /\ t \in Seq(Operations) /\ t # << >> /\ Program(p, t) /\ Len(t) = Len(s) + 1
        /\ t[1] = Drive(o.relay, o.on) /\ t[2] = Notify(o.relay, o.on)
        /\ \A k \in 3 .. Len(t) : t[k] = s[k - 1]
    <3>1. t = <<Drive(s[1].relay, s[1].on), Notify(s[1].relay, s[1].on)>> \o Tail(s)
      BY <1>2
    <3>2. s[1].op = "check"
      BY <1>1, <1>2
    <3> HIDE DEF t, s
    <3>3. /\ t \in Seq(Operations) /\ t # << >> /\ Program(p, t) /\ Len(t) = Len(s) + 1
          /\ t[1] = Drive(s[1].relay, s[1].on) /\ t[2] = Notify(s[1].relay, s[1].on)
          /\ \A k \in 3 .. Len(t) : t[k] = s[k - 1]
      BY <1>1, <1>2, <3>1, <3>2, ProgramCheck
    <3> QED BY <1>2, <3>3
  <2>4. /\ Head(t).op = "gpio" /\ t[1].op = "gpio" /\ t[1].relay = o.relay
        /\ t[2].relay = o.relay
    <3>1. Head(t) = t[1]
      BY <2>3, TailFacts
    <3> HIDE DEF t
    <3> QED BY <2>3, <3>1 DEF Drive, Notify, Op
  <2> HIDE DEF t
  <2>5. Truthful(p)'
    <3>1. ASSUME NEW k \in 1 .. Len(t), t[k].op = "notify", First(t, k),
                 lastDriver[t[k].relay] = p
          PROVE  status[t[k].relay] = t[k].on
      <4>1. k # 1
        BY <2>4, <3>1
      <4>2. k # 2
        <5>1. ASSUME k = 2 PROVE FALSE
          <6>1. 1 \in 1 .. k - 1 /\ t[k].relay = t[1].relay
            BY <2>4, <5>1
          <6> QED BY <2>4, <3>1, <6>1 DEF First
        <5> QED BY <5>1
      <4>3. k \in 3 .. Len(t) /\ k - 1 \in 1 .. Len(s) /\ t[k] = s[k - 1]
        BY <1>2, <2>3, <4>1, <4>2
      <4>4. ASSUME NEW l \in 1 .. k - 1 - 1, s[l].op \in {"gpio", "status"},
                   s[l].relay = s[k - 1].relay
            PROVE  FALSE
        <5>1. l # 1
          BY <1>1, <1>2, <4>4
        <5>2. l + 1 \in 3 .. Len(t) /\ l + 1 \in 1 .. k - 1 /\ t[l + 1] = s[l]
          BY <1>2, <2>3, <4>3, <5>1
        <5> QED BY <3>1, <4>3, <4>4, <5>2 DEF First
      <4>5. First(s, k - 1)
        BY <4>4 DEF First
      <4>6. Truthful(p)
        BY <1>1, NotHolding DEF RInv
      <4> QED BY <3>1, <4>3, <4>5, <4>6 DEF Truthful
    <3> QED BY <1>1, <2>2, <3>1 DEF Truthful
  <2> QED BY <1>1, <2>2, <2>3, <2>4, <2>5, ReplaceStep
<1> QED BY <1>3, <1>4

LEMMA SkipStep ==
  ASSUME RInv, NEW p \in Actors, SkipRelay(p)
  PROVE  RInv'
BY PassStep DEF SkipRelay, At

LEMMA FailStep ==
  ASSUME RInv, NEW p \in Actors, NotifyFails(p)
  PROVE  RInv'
<1>1. /\ todo[p] # << >> /\ Head(todo[p]).op \notin {"gpio", "status"}
      /\ Continue(p, << >>) /\ lock # p
      /\ UNCHANGED <<gpio, status, lock, view, torn, lastDriver>>
  BY DEF NotifyFails, Sending, At
<1>2. LockInv'
  BY <1>1, ContinueRound, LockStays
<1>3. view' \in [Relays -> BOOLEAN \cup {NULL}] /\ lock' \in Actors \cup {NULL, Lost}
  BY <1>1 DEF RInv, TypeOK
<1> QED BY <1>1, <1>2, <1>3, TailStep

LEMMA AcquireStep ==
  ASSUME RInv, NEW p \in Actors, Acquire(p)
  PROVE  RInv'
<1>1. /\ Sending(p) /\ lock' = p
      /\ UNCHANGED <<gpio, status, todo, view, torn, lastDriver>>
  BY DEF Acquire
<1>2. TypeOK'
  BY <1>1 DEF RInv, TypeOK
<1>3. LockInv'
  <2>1. Sending(p)' /\ todo'[p] # << >>
    BY <1>1 DEF Sending, At
  <2> QED BY <1>1, <2>1 DEF LockInv
<1>4. \A r \in Relays : Pin(r)'
  BY <1>1 DEF RInv, Pin, Closed, Driving, At
<1>5. \A q \in Actors \ {"ws"} : Truthful(q)'
  BY <1>1 DEF RInv, Truthful
<1>6. \A q \in Actors : Program(q, todo'[q])
  BY <1>1 DEF RInv
<1> QED BY <1>2, <1>3, <1>4, <1>5, <1>6 DEF RInv

LEMMA SendStep ==
  ASSUME RInv, NEW p \in Actors, Send(p)
  PROVE  RInv'
<1>1. /\ todo[p] # << >> /\ Head(todo[p]).op \in {"notify", "report"}
      /\ Continue(p, << >>) /\ lock' = NULL
      /\ view' \in {view, Delivered(Head(todo[p]))}
      /\ UNCHANGED <<gpio, status, torn, lastDriver>>
  BY DEF Send, Sending, At
<1>2. LockInv'
  BY <1>1, RelayFacts DEF LockInv
<1>3. Head(todo[p]).on \in BOOLEAN
  BY <1>1, HeadType DEF RInv, Operations
<1>4. view' \in [Relays -> BOOLEAN \cup {NULL}]
  BY <1>1, <1>3 DEF RInv, TypeOK, Delivered
<1> QED BY <1>1, <1>2, <1>4, TailStep

\* The client's handler goes on: it has not sent its message yet.
LEMMA LockOfWs ==
  ASSUME RInv, lock' = lock, todo'["ws"] # << >>,
         \A q \in Actors : q # "ws" => todo'[q] = todo[q]
  PROVE  LockInv'
<1>1. ASSUME NEW q \in Actors \ {"ws"}, lock' = q PROVE Sending(q)'
  <2>1. Sending(q) /\ todo'[q] = todo[q]
    BY <1>1 DEF RInv, LockInv
  <2> QED BY <2>1 DEF Sending, At
<1> QED BY <1>1 DEF LockInv

\* What is known of a task whose next operation is one of the two writes.
LEMMA WriteFacts ==
  ASSUME RInv, NEW p \in Actors, todo[p] # << >>,
         Head(todo[p]).op \in {"gpio", "status"}
  PROVE  /\ todo[p] \in Seq(Operations) /\ Program(p, todo[p])
         /\ Head(todo[p]) = todo[p][1] /\ 1 \in 1 .. Len(todo[p])
         /\ Len(todo[p]) \in Nat /\ Len(todo[p]) >= 1
         /\ Head(todo[p]).relay \in Relays /\ Head(todo[p]).on \in BOOLEAN
<1>1. /\ todo[p] \in Seq(Operations) /\ Head(todo[p]) \in Operations
      /\ Head(todo[p]) = todo[p][1] /\ 1 \in 1 .. Len(todo[p])
  BY HeadType DEF RInv
<1>2. Program(p, todo[p])
  BY DEF RInv
<1>3. Head(todo[p]).op # "report"
  OBVIOUS
<1>4. Head(todo[p]).relay \in Relays
  BY <1>1, <1>2, <1>3 DEF Program, RoundOK
<1>5. Head(todo[p]).on \in BOOLEAN
  BY <1>1 DEF Operations
<1>6. Len(todo[p]) \in Nat /\ Len(todo[p]) >= 1
  BY <1>1, TailFacts
<1> QED BY <1>1, <1>2, <1>4, <1>5, <1>6

LEMMA GpioStep ==
  ASSUME RInv, NEW p \in Actors, WriteGpio(p)
  PROVE  RInv'
<1> DEFINE s == todo[p]
           t == todo'[p]
           r == s[1].relay
           on == s[1].on
<1>1. s # << >> /\ Head(s).op = "gpio" /\ UNCHANGED <<status, lock, view, lastDriver>>
  BY DEF WriteGpio, At
<1>2. /\ s \in Seq(Operations) /\ Program(p, s) /\ Head(s) = s[1] /\ s[1].op = "gpio"
      /\ Len(s) \in Nat /\ Len(s) >= 1 /\ r \in Relays /\ on \in BOOLEAN
  <2>1. /\ s \in Seq(Operations) /\ Program(p, s) /\ Head(s) = s[1]
        /\ Len(s) \in Nat /\ Len(s) >= 1 /\ Head(s).relay \in Relays /\ Head(s).on \in BOOLEAN
    BY <1>1, WriteFacts
  <2> QED BY <1>1, <2>1
<1>3. /\ gpio' = [gpio EXCEPT ![r] = IF on = (r \in ActiveLow) THEN 0 ELSE 1]
      /\ torn' = [torn EXCEPT ![r] = Driving(r) # {}]
      /\ Continue(p, <<Op("status", r, on)>>)
  BY <1>2 DEF WriteGpio
<1>4. /\ t = <<Op("status", r, on)>> \o Tail(s)
      /\ \A q \in Actors : q # p => todo'[q] = todo[q]
      /\ todo' = [todo EXCEPT ![p] = t]
  BY <1>3, ContinueRound
<1>5. /\ t \in Seq(Operations) /\ t # << >> /\ Program(p, t) /\ Len(t) = Len(s)
      /\ t[1] = Op("status", r, on)
      /\ \A k \in 2 .. Len(s) : t[k] = s[k]
  <2>1. s # << >> /\ s[1].op = "gpio"
    BY <1>1, <1>2
  <2>2. t = <<Op("status", s[1].relay, s[1].on)>> \o Tail(s)
    BY <1>4
  <2> HIDE DEF s, t
  <2>3. /\ t \in Seq(Operations) /\ t # << >> /\ Program(p, t) /\ Len(t) = Len(s)
        /\ t[1] = Op("status", s[1].relay, s[1].on)
        /\ \A k \in 2 .. Len(s) : t[k] = s[k]
    BY <1>2, <2>1, <2>2, ProgramStatus
  <2> QED BY <2>3
<1>6. Head(t) = t[1] /\ t[1].op = "status" /\ t[1].relay = r /\ t[1].on = on
  <2>1. Head(t) = t[1]
    BY <1>5, TailFacts
  <2> QED BY <1>5, <2>1 DEF Op
<1>7. TypeOK'
  <2>1. gpio' \in [Relays -> {0, 1}] /\ torn' \in [Relays -> BOOLEAN]
    BY <1>3 DEF RInv, TypeOK
  <2>2. todo' \in [Actors -> Seq(Operations)]
    BY <1>4, <1>5 DEF RInv, TypeOK
  <2> QED BY <1>1, <2>1, <2>2 DEF RInv, TypeOK
<1>8. \A q \in Actors : Program(q, todo'[q])
  BY <1>4, <1>5 DEF RInv
<1>9. LockInv'
  <2>1. CASE p = "ws"
    BY <1>1, <1>4, <1>5, <2>1, LockOfWs
  <2>2. CASE p # "ws"
    <3>1. lock # p
      BY <1>1, <2>2, NotHolding
    <3> QED BY <1>1, <1>4, <3>1, LockStays
  <2> QED BY <2>1, <2>2
<1>10. ASSUME NEW x \in Relays PROVE Pin(x)'
  <2>1. gpio \in [Relays -> {0, 1}] /\ torn \in [Relays -> BOOLEAN]
    BY DEF RInv, TypeOK
  <2>2. \A q \in Actors : q # p => (q \in Driving(x)' <=> q \in Driving(x))
    BY <1>4 DEF Driving, At
  <2>3. p \notin Driving(x)
    BY <1>1 DEF Driving, At
  <2>4. p \in Driving(x)' <=> x = r
    BY <1>5, <1>6 DEF Driving, At
  <2>5. Driving(x) \subseteq Actors /\ Driving(x)' \subseteq Actors
    BY DEF Driving
  <2>6. CASE x # r
    <3>1. Driving(x)' = Driving(x)
      BY <2>2, <2>3, <2>4, <2>5, <2>6
    <3>2. \A q \in Driving(x) : todo'[q] = todo[q]
      BY <1>4, <2>3, <2>5
    <3>3. gpio'[x] = gpio[x] /\ torn'[x] = torn[x] /\ status'[x] = status[x]
      BY <1>1, <1>3, <2>1, <2>6
    <3>4. Pin(x)
      BY DEF RInv
    <3> QED BY <3>1, <3>2, <3>3, <3>4 DEF Pin, Closed
  <2>7. CASE x = r
    <3>1. torn'[x] = (Driving(x) # {}) /\ gpio'[x] = IF on = (x \in ActiveLow) THEN 0 ELSE 1
      BY <1>3, <2>1, <2>7
    <3>2. Closed(x)' <=> Head(t).on
      BY <1>2, <1>6, <3>1 DEF Closed
    <3>3. ASSUME ~torn'[x] PROVE Driving(x)' = {p}
      BY <2>2, <2>4, <2>5, <2>7, <3>1, <3>3
    <3> QED BY <3>2, <3>3 DEF Pin
  <2> QED BY <2>6, <2>7
<1>11. ASSUME NEW q \in Actors \ {"ws"} PROVE Truthful(q)'
  <2>1. Truthful(q)
    BY DEF RInv
  <2>2. CASE q # p
    BY <1>1, <1>4, <2>1, <2>2 DEF Truthful
  <2>3. CASE q = p
    <3>1. ASSUME NEW k \in 1 .. Len(t), t[k].op = "notify", First(t, k),
                 lastDriver[t[k].relay] = p
          PROVE  status[t[k].relay] = t[k].on
      <4>1. k # 1
        BY <1>6, <3>1
      <4>2. k \in 2 .. Len(s) /\ k \in 1 .. Len(s) /\ t[k] = s[k]
        BY <1>2, <1>5, <4>1
      <4>3. ASSUME NEW l \in 1 .. k - 1, s[l].op \in {"gpio", "status"},
                   s[l].relay = s[k].relay
            PROVE  FALSE
        <5>1. t[l].op \in {"gpio", "status"} /\ t[l].relay = s[l].relay
          <6>1. l = 1 \/ l \in 2 .. Len(s)
            BY <1>2, <4>2
          <6> QED BY <1>5, <1>6, <4>3, <6>1
        <5> QED BY <3>1, <4>2, <4>3, <5>1 DEF First
      <4>4. First(s, k)
        BY <4>3 DEF First
      <4> QED BY <2>1, <2>3, <3>1, <4>2, <4>4 DEF Truthful
    <3> QED BY <1>1, <2>3, <3>1 DEF Truthful
  <2> QED BY <2>2, <2>3
<1> QED BY <1>7, <1>8, <1>9, <1>10, <1>11 DEF RInv

LEMMA StatusStep ==
  ASSUME RInv, NEW p \in Actors, WriteStatus(p)
  PROVE  RInv'
<1> DEFINE s == todo[p]
           t == todo'[p]
           r == s[1].relay
           on == s[1].on
<1>1. s # << >> /\ Head(s).op = "status" /\ UNCHANGED <<gpio, lock, view, torn>>
  BY DEF WriteStatus, At
<1>2. /\ s \in Seq(Operations) /\ Program(p, s) /\ Head(s) = s[1] /\ s[1].op = "status"
      /\ Len(s) \in Nat /\ Len(s) >= 1 /\ r \in Relays /\ on \in BOOLEAN
  <2>1. /\ s \in Seq(Operations) /\ Program(p, s) /\ Head(s) = s[1]
        /\ Len(s) \in Nat /\ Len(s) >= 1 /\ Head(s).relay \in Relays /\ Head(s).on \in BOOLEAN
    BY <1>1, WriteFacts
  <2> QED BY <1>1, <2>1
<1>3. /\ status' = [status EXCEPT ![r] = on]
      /\ lastDriver' = [lastDriver EXCEPT ![r] = p]
      /\ Continue(p, << >>)
  BY <1>2 DEF WriteStatus
<1>4. /\ t = Tail(s) /\ t \in Seq(Operations) /\ Program(p, t)
      /\ t # << >> => Head(t).op # "status"
  <2>1. /\ Tail(s) \in Seq(Operations) /\ Program(p, Tail(s))
        /\ Tail(s) # << >> => Head(Tail(s)).op # "status"
    BY <1>1, <1>2, ProgramTail
  <2>2. t = << >> \o Tail(s)
    BY <1>3, ContinueRound
  <2> QED BY <2>1, <2>2, NoneMore
<1>5. Len(t) = Len(s) - 1 /\ \A k \in 1 .. Len(t) : k + 1 \in 1 .. Len(s) /\ t[k] = s[k + 1]
  BY <1>1, <1>2, <1>4, TailFacts
<1>6. /\ \A q \in Actors : q # p => todo'[q] = todo[q]
      /\ todo' = [todo EXCEPT ![p] = t]
  BY <1>3, ContinueRound
<1>7. TypeOK'
  <2>1. status' \in [Relays -> BOOLEAN] /\ lastDriver' \in [Relays -> Actors \cup {NULL}]
    BY <1>2, <1>3 DEF RInv, TypeOK
  <2>2. todo' \in [Actors -> Seq(Operations)]
    BY <1>4, <1>6 DEF RInv, TypeOK
  <2> QED BY <1>1, <2>1, <2>2 DEF RInv, TypeOK
<1>8. \A q \in Actors : Program(q, todo'[q])
  BY <1>4, <1>6 DEF RInv
<1>9. LockInv'
  <2>1. CASE p = "ws"
    <3>1. Len(s) > 1
      BY <1>1, <2>1, NotHolding
    <3>2. Len(t) # 0
      <4>1. \A n \in Nat : n > 1 => n - 1 # 0
        OBVIOUS
      <4> QED BY <1>2, <1>5, <3>1, <4>1
    <3>3. t # << >>
      <4>1. Len(<< >>) = 0
        OBVIOUS
      <4> QED BY <3>2, <4>1
    <3> QED BY <1>1, <1>6, <2>1, <3>3, LockOfWs
  <2>2. CASE p # "ws"
    <3>1. lock # p
      BY <1>1, <2>2, NotHolding
    <3> QED BY <1>1, <1>6, <3>1, LockStays
  <2> QED BY <2>1, <2>2
<1>10. ASSUME NEW x \in Relays PROVE Pin(x)'
  <2>1. status \in [Relays -> BOOLEAN]
    BY DEF RInv, TypeOK
  <2>2. \A q \in Actors : q # p => (q \in Driving(x)' <=> q \in Driving(x))
    BY <1>6 DEF Driving, At
  <2>3. p \notin Driving(x)'
    BY <1>4 DEF Driving, At
  <2>4. p \in Driving(x) <=> x = r
    BY <1>1, <1>2 DEF Driving, At
  <2>5. Driving(x) \subseteq Actors /\ Driving(x)' \subseteq Actors
    BY DEF Driving
  <2>6. Pin(x) /\ torn'[x] = torn[x] /\ (Closed(x)' <=> Closed(x))
    BY <1>1 DEF RInv, Closed
  <2>7. CASE x # r
    <3>1. Driving(x)' = Driving(x)
      BY <2>2, <2>3, <2>4, <2>5, <2>7
    <3>2. \A q \in Driving(x) : todo'[q] = todo[q]
      BY <1>6, <2>4, <2>5, <2>7
    <3>3. status'[x] = status[x]
      BY <1>3, <2>1, <2>7
    <3> QED BY <2>6, <3>1, <3>2, <3>3 DEF Pin
  <2>8. CASE x = r
    <3>1. status'[x] = on
      BY <1>3, <2>1, <2>8
    <3>2. ASSUME ~torn[x] PROVE Driving(x) = {p} /\ (Closed(x) <=> on)
      <4>1. p \in Driving(x)
        BY <2>4, <2>8
      <4>2. PICK q \in Actors : Driving(x) = {q} /\ (Closed(x) <=> Head(todo[q]).on)
        BY <2>6, <3>2, <4>1 DEF Pin
      <4>3. q = p
        BY <4>1, <4>2
      <4> QED BY <1>2, <4>2, <4>3
    <3>3. ASSUME ~torn[x] PROVE Driving(x)' = {}
      BY <2>2, <2>3, <2>5, <3>2, <3>3
    <3> QED BY <2>6, <3>1, <3>2, <3>3 DEF Pin
  <2> QED BY <2>7, <2>8
<1>11. ASSUME NEW q \in Actors \ {"ws"} PROVE Truthful(q)'
  <2>1. Truthful(q)
    BY DEF RInv
  <2>2. /\ status \in [Relays -> BOOLEAN]
        /\ lastDriver \in [Relays -> Actors \cup {NULL}]
    BY DEF RInv, TypeOK
  <2>3. CASE q # p
    <3>1. ASSUME NEW k \in 1 .. Len(todo[q]), todo[q][k].op = "notify", First(todo[q], k),
                 lastDriver'[todo[q][k].relay] = q
          PROVE  status'[todo[q][k].relay] = todo[q][k].on
      <4>1. todo[q][k].relay # r
        BY <1>2, <1>3, <2>2, <2>3, <3>1
      <4>2. todo[q][k].relay \in Relays
        BY <3>1 DEF RInv, Program, RoundOK
      <4>3. /\ lastDriver'[todo[q][k].relay] = lastDriver[todo[q][k].relay]
            /\ status'[todo[q][k].relay] = status[todo[q][k].relay]
        BY <1>3, <2>2, <4>1, <4>2
      <4> QED BY <2>1, <3>1, <4>3 DEF Truthful
    <3>2. todo'[q] = todo[q]
      BY <1>6, <2>3
    <3> QED BY <3>1, <3>2 DEF Truthful
  <2>4. CASE q = p
    <3>1. ASSUME NEW k \in 1 .. Len(t), t[k].op = "notify", First(t, k),
                 lastDriver'[t[k].relay] = p
          PROVE  status'[t[k].relay] = t[k].on
      <4>1. /\ k \in Nat /\ k + 1 \in 1 .. Len(s) /\ t[k] = s[k + 1] /\ 1 \in 1 .. Len(s)
            /\ k + 1 - 1 = k
        BY <1>2, <1>5
      <4>2. t[k].relay \in Relays
        BY <1>4, <3>1 DEF Program, RoundOK
      <4>3. CASE t[k].relay = r
        <5>1. OneValue(s)
          BY <1>2, <2>4 DEF Program
        <5>2. s[k + 1].on = s[1].on
          BY <1>2, <3>1, <4>1, <5>1 DEF OneValue, Valued
        <5>3. status'[t[k].relay] = on
          BY <1>3, <2>2, <4>2, <4>3
        <5> QED BY <4>1, <5>2, <5>3
      <4>4. CASE t[k].relay # r
        <5>1. /\ lastDriver'[t[k].relay] = lastDriver[t[k].relay]
              /\ status'[t[k].relay] = status[t[k].relay]
          BY <1>3, <2>2, <4>2, <4>4
        <5>2. ASSUME NEW l \in 1 .. k, s[l].op \in {"gpio", "status"},
                     s[l].relay = s[k + 1].relay
              PROVE  FALSE
          <6>1. l # 1
            BY <4>1, <4>4, <5>2
          <6>2. l - 1 \in 1 .. k - 1 /\ l - 1 \in 1 .. Len(t) /\ t[l - 1] = s[l]
            BY <1>2, <1>5, <6>1
          <6> QED BY <3>1, <4>1, <5>2, <6>2 DEF First
        <5>3. First(s, k + 1)
          BY <4>1, <5>2 DEF First
        <5> QED BY <2>1, <2>4, <3>1, <4>1, <5>1, <5>3 DEF Truthful
      <4> QED BY <4>3, <4>4
    <3> QED BY <2>4, <3>1 DEF Truthful
  <2> QED BY <2>3, <2>4
<1> QED BY <1>7, <1>8, <1>9, <1>10, <1>11 DEF RInv

\* A delete: what it cuts between the two writes is torn from then on.
LEMMA KillStep ==
  ASSUME RInv, NEW h \in Schedules, Kill(h)
  PROVE  RInv'
<1>1. h \in Actors /\ h # "ws" /\ Lost \notin Actors
  BY RelayFacts
<1>2. /\ todo' = [todo EXCEPT ![h] = << >>]
      /\ todo'[h] = << >> /\ \A q \in Actors : q # h => todo'[q] = todo[q]
  BY <1>1, OwnRound DEF Kill
<1>3. UNCHANGED <<gpio, status, view, lastDriver>>
  BY DEF Kill
<1>4. << >> \in Seq(Operations) /\ Len(<< >>) = 0
  OBVIOUS
<1>5. TypeOK'
  <2>1. torn' \in [Relays -> BOOLEAN]
    BY DEF Kill, RInv, TypeOK
  <2>2. lock' \in Actors \cup {NULL, Lost}
    BY DEF Kill, RInv, TypeOK
  <2>3. todo' \in [Actors -> Seq(Operations)]
    BY <1>2, <1>4 DEF RInv, TypeOK
  <2> QED BY <1>3, <2>1, <2>2, <2>3 DEF RInv, TypeOK
<1>6. ASSUME NEW q \in Actors PROVE Program(q, todo'[q])
  <2>1. CASE q = h
    BY <1>1, <1>2, <1>4, <2>1 DEF Program, RoundOK, OneValue
  <2>2. CASE q # h
    BY <1>2, <2>2 DEF RInv
  <2> QED BY <2>1, <2>2
<1>7. LockInv'
  <2>1. ASSUME NEW q \in Actors, lock' = q PROVE q # h /\ lock = q
    BY <1>1, <2>1 DEF Kill
  <2>2. ASSUME NEW q \in Actors \ {"ws"}, lock' = q PROVE Sending(q)'
    <3>1. q # h /\ lock = q
      BY <2>1, <2>2
    <3>2. Sending(q) /\ todo'[q] = todo[q]
      BY <1>2, <3>1 DEF RInv, LockInv
    <3> QED BY <3>2 DEF Sending, At
  <2>3. lock' = "ws" => todo'["ws"] # << >>
    BY <1>1, <1>2, <2>1, RelayFacts DEF RInv, LockInv
  <2> QED BY <2>2, <2>3 DEF LockInv
<1>8. ASSUME NEW x \in Relays PROVE Pin(x)'
  <2>1. torn'[x] <=> torn[x] \/ h \in Driving(x)
    BY DEF Kill
  <2>2. \A q \in Actors : q # h => (q \in Driving(x)' <=> q \in Driving(x))
    BY <1>2 DEF Driving, At
  <2>3. h \notin Driving(x)'
    BY <1>2 DEF Driving, At
  <2>4. Driving(x) \subseteq Actors /\ Driving(x)' \subseteq Actors
    BY DEF Driving
  <2>5. ASSUME ~torn'[x] PROVE Driving(x)' = Driving(x) /\ h \notin Driving(x)
    BY <2>1, <2>2, <2>3, <2>4, <2>5
  <2>6. ASSUME ~torn'[x], NEW q \in Driving(x) PROVE todo'[q] = todo[q]
    BY <1>2, <2>4, <2>5, <2>6
  <2>7. Pin(x)
    BY DEF RInv
  <2> QED BY <1>3, <2>1, <2>5, <2>6, <2>7 DEF Pin, Closed
<1>9. ASSUME NEW q \in Actors \ {"ws"} PROVE Truthful(q)'
  <2>1. CASE q = h
    BY <1>2, <1>4, <2>1 DEF Truthful
  <2>2. CASE q # h
    BY <1>2, <1>3, <2>2 DEF RInv, Truthful
  <2> QED BY <2>1, <2>2
<1> QED BY <1>5, <1>6, <1>7, <1>8, <1>9 DEF RInv

-----------------------------------------------------------------------------
(* The invariant is inductive.                                             *)

LEMMA InitRInv ==
  ASSUME Init
  PROVE  RInv
<1>1. /\ << >> \in Seq(Operations) /\ Len(<< >>) = 0
      /\ \A p \in Actors : todo[p] = << >>
  BY DEF Init
<1>2. TypeOK
  BY <1>1 DEF Init, TypeOK
<1>3. \A p \in Actors : Program(p, todo[p])
  BY <1>1 DEF Program, RoundOK, WsRound, OneValue
<1>4. ASSUME NEW r \in Relays PROVE Pin(r)
  <2>1. Driving(r) = {}
    BY <1>1 DEF Driving, At
  <2>2. gpio[r] = (IF r \in ActiveLow THEN 1 ELSE 0) /\ status[r] = FALSE
    BY DEF Init
  <2> QED BY <2>1, <2>2 DEF Pin, Closed
<1>5. LockInv
  BY RelayFacts DEF Init, LockInv
<1>6. \A p \in Actors : Truthful(p)
  BY <1>1 DEF Truthful
<1> QED BY <1>2, <1>3, <1>4, <1>5, <1>6 DEF RInv

LEMMA NextRInv ==
  ASSUME RInv, [Next]_vars
  PROVE  RInv'
<1>1. CASE UNCHANGED vars
  <2>1. UNCHANGED <<gpio, status, todo, lock, view, torn, lastDriver>>
    BY <1>1 DEF vars
  <2>2. TypeOK' /\ LockInv' /\ \A p \in Actors : Program(p, todo'[p])
    BY <2>1 DEF RInv, TypeOK, LockInv, Sending, At
  <2>3. \A r \in Relays : Pin(r)'
    BY <2>1 DEF RInv, Pin, Closed, Driving, At
  <2>4. \A p \in Actors \ {"ws"} : Truthful(p)'
    BY <2>1 DEF RInv, Truthful
  <2> QED BY <2>2, <2>3, <2>4 DEF RInv
<1>2. CASE \/ ButtonPress \/ Overcurrent
           \/ \E h \in Schedules, plan \in Plans : ScheduleRound(h, plan)
           \/ \E r \in Relays, s \in BOOLEAN : UpdateRelay(r, s)
           \/ UpdateSchedule
  BY <1>2, RoundBegins
<1>3. CASE \E h \in Schedules : Kill(h)
  BY <1>3, KillStep
<1>4. ASSUME NEW p \in Actors, NotifyFails(p) PROVE RInv'
  BY <1>4, FailStep
<1>5. ASSUME NEW p \in Actors, Proceed(p) PROVE RInv'
  BY <1>5, TestStep, CheckStep, SkipStep, GpioStep, StatusStep, AcquireStep, SendStep
     DEF Proceed
<1> QED BY <1>1, <1>2, <1>3, <1>4, <1>5 DEF Next

LEMMA RInvAlways == Spec => []RInv
<1> QED BY InitRInv, NextRInv, PTL DEF Spec

-----------------------------------------------------------------------------
(* The theorems.                                                           *)

\* The relays, the rounds and the server's view keep their types: levels are 0
\* or 1, and every operation of a round names a relay of the device or none.
THEOREM RelayTypes == Spec => []TypeOK
<1>1. RInv => TypeOK
  BY DEF RInv
<1> QED BY <1>1, RInvAlways, PTL

\* Whatever the tasks interleave, the contact is where the status says once the
\* drives of the relay are over, unless the last drive ran into another one or a
\* delete cut it.
THEOREM PinAgrees == Spec => []PinFollowsStatus
<1>1. RInv => PinFollowsStatus
  <2> SUFFICES ASSUME RInv, NEW r \in Relays, ~torn[r], Driving(r) = {}
               PROVE  Closed(r) <=> status[r]
    BY DEF PinFollowsStatus
  <2>1. Pin(r)
    BY DEF RInv
  <2>2. \A p \in Actors : Driving(r) # {p}
    OBVIOUS
  <2> QED BY <2>1, <2>2 DEF Pin
<1> QED BY <1>1, RInvAlways, PTL

\* The client's lock is only ever held by a task that is sending, by the client's
\* own handler, or by a schedule that was deleted while it sent.
THEOREM HolderSends == Spec => []LockHolderSends
<1>1. RInv => LockHolderSends
  BY DEF RInv, LockInv, LockHolderSends, Sending, At
<1> QED BY <1>1, RInvAlways, PTL

\* Whoever drove a relay last, its notification, if it arrives, tells the server
\* the status the relay has at that moment, updateRelay's answer aside.
THEOREM LastDriverTellsStatus == Spec => ViewFollowsDriver
<1>1. ASSUME RInv, NEW p \in Actors \ {"ws"}, NEW r \in Relays,
             lastDriver[r] = p, view'[r] # view[r], Send(p)
      PROVE  view'[r] = status[r]
  <2> DEFINE s == todo[p]
             o == Head(s)
  <2>1. s # << >> /\ view' = Delivered(o)
    BY <1>1 DEF Send, Sending, At
  <2>2. o = s[1] /\ 1 \in 1 .. Len(s)
    BY <1>1, <2>1, HeadType DEF RInv
  <2>3. o.op = "notify" /\ o.relay = r /\ view'[r] = o.on
    BY <1>1, <2>1 DEF Delivered, RInv, TypeOK
  <2>4. First(s, 1)
    BY DEF First
  <2>5. Truthful(p)
    BY <1>1 DEF RInv
  <2> QED BY <1>1, <2>2, <2>3, <2>4, <2>5 DEF Truthful
<1> DEFINE Told == \A p \in Actors \ {"ws"}, r \in Relays :
                     lastDriver[r] = p /\ view'[r] # view[r] /\ Send(p)
                       => view'[r] = status[r]
<1>2. RInv => [Told]_vars
  BY <1>1
<1>3. []RInv => [][Told]_vars
  BY <1>2, PTL
<1> QED BY <1>3, RInvAlways DEF ViewFollowsDriver

=============================================================================
