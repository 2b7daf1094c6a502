--------------------------- MODULE AppMain_proofs ---------------------------
(***************************************************************************)
(* Proofs about WebSocketLink and about AppMain, which extends it, for any *)
(* number of client and reconnect tasks, any length of the buffer, any     *)
(* limit and any currents.                                                 *)
(***************************************************************************)
EXTENDS AppMain, FiniteSetTheorems, TLAPS

(***************************************************************************)
(* Until a close frame arrives the link is in one of three phases: the     *)
(* client's task does not exist, has been created, or runs; and only in    *)
(* the first one is anybody past the check of esp_websocket_client_start.  *)
(***************************************************************************)
NoTask     == \A c \in ClientTasks : task[c] = "none"
Only(c)    == \A d \in ClientTasks : d # c => task[d] = "none"
NoStarters == \A r \in Reconnectors : starter[r] = "none"
NonePast   == \A s \in Starters : starter[s] \in {"none", "check", "sleep"}

Stopped  == NoTask /\ state = "UNKNOW" /\ NoStarters
Created  == /\ \E c \in ClientTasks : task[c] = "new" /\ Only(c)
            /\ state = "UNKNOW" /\ NoStarters /\ starter[Main] = "none"
Started  == /\ \E c \in ClientTasks : task[c] = "loop" /\ Only(c)
            /\ state \in {"INIT", "CONNECTED", "WAIT_TIMEOUT"}
            /\ NonePast /\ starter[Main] = "none"

Phases == ~closed => Stopped \/ Created \/ Started
IInv   == TypeOK /\ Phases

LEMMA InitIInv == Init => IInv
<1> SUFFICES ASSUME Init PROVE IInv
  OBVIOUS
<1>1. TypeOK
  BY DEF Init, TypeOK, States
<1>2. Stopped
  BY WebSocketLinkAssumption DEF Init, Stopped, NoTask, NoStarters, Starters
<1> QED BY <1>1, <1>2 DEF IInv, Phases

\* Steps of esp_websocket_client_start, by whichever task calls it.
LEMMA StartStep ==
  ASSUME IInv, NEW s \in Starters, Start(s)
  PROVE  IInv'
<1>1. TypeOK'
  BY DEF IInv, TypeOK, Start, StartPasses, StartRefused, StartCreates, StartFails, TryAgain
<1> SUFFICES ASSUME ~closed' PROVE (Stopped \/ Created \/ Started)'
  BY <1>1 DEF IInv, Phases
<1>0. ~closed /\ (Stopped \/ Created \/ Started)
  BY DEF IInv, Phases, Start, StartPasses, StartRefused, StartCreates, StartFails, TryAgain
<1>m. Main \notin Reconnectors /\ Starters = Reconnectors \cup {Main}
  BY WebSocketLinkAssumption DEF Starters
<1>2. CASE StartPasses(s)
  <2>1. Stopped /\ s = Main
    BY <1>0, <1>2, <1>m DEF StartPasses, Stopped, Created, Started, NoStarters
  <2> QED BY <2>1, <1>2, <1>m DEF StartPasses, Stopped, NoTask, NoStarters, IInv, TypeOK
<1>3. CASE StartRefused(s)
  <2>1. Started
    BY <1>0, <1>3 DEF StartRefused, Stopped, Created
  <2> QED BY <2>1, <1>3, <1>m DEF StartRefused, Started, Only, NonePast, IInv, TypeOK
<1>4. CASE StartCreates(s)
  <2>1. Stopped /\ s = Main
    BY <1>0, <1>4, <1>m DEF StartCreates, Stopped, Created, Started, NoStarters, NonePast
  <2>2. Created'
    BY <2>1, <1>4, <1>m DEF StartCreates, Stopped, Created, NoTask, Only, NoStarters, IInv, TypeOK
  <2> QED BY <2>2
<1>5. CASE StartFails(s)
  <2>1. Stopped /\ s = Main
    BY <1>0, <1>5, <1>m DEF StartFails, Stopped, Created, Started, NoStarters, NonePast
  <2> QED BY <2>1, <1>5, <1>m DEF StartFails, Stopped, NoTask, NoStarters, IInv, TypeOK
<1>6. CASE TryAgain(s)
  <2>1. CASE Started
    BY <2>1, <1>6, <1>m DEF TryAgain, Started, Only, NonePast, IInv, TypeOK
  <2>2. CASE Stopped
    BY <2>2, <1>6, <1>m DEF TryAgain, Stopped, NoTask, NoStarters, IInv, TypeOK
  <2>3. CASE Created
    BY <2>3, <1>6, <1>m DEF TryAgain, Created, NoStarters
  <2> QED BY <1>0, <2>1, <2>2, <2>3
<1> QED BY <1>2, <1>3, <1>4, <1>5, <1>6 DEF Start

\* A lost connection adds a reconnect task that has not checked anything yet.
LEMMA AbortStep ==
  ASSUME TypeOK, Started, Abort, UNCHANGED <<task, closed>>
  PROVE  Started'
<1>1. NonePast' /\ starter'[Main] = "none"
  <2>1. CASE UNCHANGED starter
    BY <2>1 DEF Started, NonePast
  <2>2. CASE \E r \in Reconnectors :
               starter[r] = "none" /\ starter' = [starter EXCEPT ![r] = "check"]
    BY <2>2, WebSocketLinkAssumption DEF Started, NonePast, Starters, TypeOK
  <2> QED BY <2>1, <2>2 DEF Abort, HandleDisconnected
<1> QED BY <1>1 DEF Started, Abort, Only

\* Steps of the client's task.
LEMMA RunStep ==
  ASSUME IInv, NEW c \in ClientTasks, Run(c) \/ CloseFrame(c) \/ ConnectionLost \/ Network
  PROVE  IInv'
<1>1. TypeOK'
  BY DEF IInv, TypeOK, States, Run, Begin, Connect, ConnectFails, Reconnect, Closed, End,
         CloseFrame, ConnectionLost, Network, Abort, HandleDisconnected, HandleEvent, Starters
<1> SUFFICES ASSUME ~closed' PROVE (Stopped \/ Created \/ Started)'
  BY <1>1 DEF IInv, Phases
<1>0. ~closed /\ (Stopped \/ Created \/ Started) /\ TypeOK
  BY DEF IInv, Phases, Run, Begin, Connect, ConnectFails, Reconnect, Closed, End,
         CloseFrame, ConnectionLost, Network
<1>2. CASE Begin(c)
  <2>1. Created
    BY <1>0, <1>2 DEF Begin, Stopped, Started, NoTask, Only
  <2>2. Only(c)
    BY <2>1, <1>2 DEF Begin, Created, Only
  <2>3. task' = [task EXCEPT ![c] = "loop"] /\ Only(c)'
    BY <2>2, <1>2, <1>0 DEF Begin, Only, TypeOK
  <2>4. NonePast' /\ starter'[Main] = "none"
    BY <2>1, <1>2 DEF Begin, Created, NoStarters, NonePast, Starters
  <2> QED BY <2>3, <2>4, <1>2, <1>0 DEF Begin, Started, TypeOK
<1>3. CASE Connect(c) \/ Reconnect(c)
  <2>1. Started
    BY <1>0, <1>3 DEF Connect, Reconnect, Stopped, Created
  <2> QED BY <2>1, <1>3 DEF Connect, Reconnect, Started, Only, NonePast
<1>4. CASE ConnectFails(c) \/ ConnectionLost
  <2>1. Started
    BY <1>0, <1>4 DEF ConnectFails, ConnectionLost, Stopped, Created
  <2>2. Abort /\ UNCHANGED <<task, closed>>
    BY <1>4 DEF ConnectFails, ConnectionLost
  <2> QED BY <2>1, <2>2, <1>0, AbortStep
<1>5. CASE Closed(c) \/ End(c) \/ CloseFrame(c)
  BY <1>0, <1>5 DEF Closed, End, CloseFrame, Stopped, Created, Started, NoTask, Only
<1>6. CASE Network
  BY <1>0, <1>6 DEF Network, Stopped, Created, Started, NoTask, Only, NoStarters, NonePast
<1> QED BY <1>2, <1>3, <1>4, <1>5, <1>6 DEF Run

LEMMA NextIInv == IInv /\ [Next]_vars => IInv'
<1> SUFFICES ASSUME IInv, [Next]_vars PROVE IInv'
  OBVIOUS
<1>1. CASE UNCHANGED vars
  BY <1>1 DEF vars, IInv, TypeOK, Phases, Stopped, Created, Started, NoTask, Only,
              NoStarters, NonePast
<1>2. ASSUME NEW s \in Starters, Start(s) PROVE IInv'
  BY <1>2, StartStep
<1>3. ASSUME NEW c \in ClientTasks, Run(c) \/ CloseFrame(c) PROVE IInv'
  BY <1>3, RunStep
<1>4. CASE ConnectionLost \/ Network
  <2>1. CASE ClientTasks # {}
    BY <1>4, <2>1, RunStep
  <2>2. CASE ClientTasks = {}
    BY <1>4, <2>2 DEF IInv, TypeOK, Phases, Stopped, Created, Started, NoTask, NoStarters,
       ConnectionLost, Network, States, Abort, HandleDisconnected, HandleEvent, Starters
  <2> QED BY <2>1, <2>2
<1> QED BY <1>1, <1>2, <1>3, <1>4 DEF Next

LEMMA IInvAlways == Spec => []IInv
BY InitIInv, NextIInv, PTL DEF Spec

\* The client never has a second task before a close frame has arrived, however
\* many outages there were and however many tasks try to start it.
THEOREM OneClientAlways == Spec => []OneClientTask
<1>1. IInv => OneClientTask
  <2> SUFFICES ASSUME IInv, ~closed
               PROVE  Cardinality({c \in ClientTasks : task[c] # "none"}) <= 1
    BY DEF OneClientTask
  <2> DEFINE Live == {c \in ClientTasks : task[c] # "none"}
  <2>1. CASE Live = {}
    BY <2>1, FS_EmptySet
  <2>2. CASE Live # {}
    <3>1. PICK c \in ClientTasks : Live = {c}
      BY <2>2 DEF IInv, Phases, Stopped, Created, Started, NoTask, Only
    <3> QED BY <3>1, FS_Singleton
  <2> QED BY <2>1, <2>2
<1> QED BY <1>1, IInvAlways, PTL

-----------------------------------------------------------------------------
(* The link beside the program.                                            *)

\* What the program does leaves the link to its own steps.
LEMMA AppStepOfLink == [AppNext]_allVars => [Next]_vars
<1> SUFFICES ASSUME [AppNext]_allVars PROVE [Next]_vars
  OBVIOUS
<1>1. CASE Link(Next)
  BY <1>1 DEF Link
<1>2. CASE AppMainStep
  BY <1>2 DEF AppMainStep, WebsocketStarted, ServerStarted, send_device_data,
     post_relay_to_api, Request, TimeObtained, MeasureStarted
<1>3. CASE Measure
  BY <1>3 DEF Measure, Sample, Check, Trip, Notified, Full, Post, NextRound
<1>4. CASE OthersSwitch \/ Aborted \/ UNCHANGED allVars
  BY <1>4 DEF OthersSwitch, Aborted, allVars
<1> QED BY <1>1, <1>2, <1>3, <1>4 DEF AppNext

\* The websocket connection behaves beside the program as it does alone, so what
\* holds of every execution of WebSocketLink holds here.
THEOREM AppRunsTheLink == AppSpec => Spec
<1>1. AppInit => Init
  BY DEF AppInit
<1> QED BY <1>1, AppStepOfLink, PTL DEF AppSpec, Spec

\* One client task until a close frame, whatever app_main, the requests and the
\* overcurrent trip do meanwhile.
COROLLARY AppKeepsTheLink == AppSpec => []OneClientTask
BY AppRunsTheLink, OneClientAlways, PTL

-----------------------------------------------------------------------------
(***************************************************************************)
(* The AC-measure task: the entries before data_index are the ones that    *)
(* have not been posted, and the relays are open once a trip has begun.    *)
(***************************************************************************)
MeasureType ==
  /\ stage \in Stages /\ ac \in Rounds
  /\ data_index \in 0 .. SAMPLES_PER_SECOND
  /\ current \in Currents \cup {0} /\ drawn \in Currents \cup {0, NULL}
  /\ on \in BOOLEAN /\ opened \in BOOLEAN

\* The task does not exist until app_main has come to it.
NotYet == stage # "loop" => ac = "none"

Filled == \A i : i \in unposted <=> i \in Nat /\ i < data_index

\* Where the buffer has room, and where it is full.
Room ==
  /\ ac \in {"none", "sample", "sleep"} => data_index < SAMPLES_PER_SECOND
  /\ ac = "post" => data_index = SAMPLES_PER_SECOND

\* What each point of a round knows of the sample.
Judged ==
  /\ ac = "none" => drawn = NULL
  /\ ac = "check" => ~opened /\ (drawn # NULL => current = drawn)
  /\ ac = "trip" => ~opened /\ (drawn # NULL => drawn >= Limit)
  /\ ac = "notify" => opened /\ (drawn # NULL => drawn >= Limit)
  /\ ac \in {"full", "post", "sleep", "sample"} /\ drawn # NULL => (opened <=> drawn >= Limit)

AInv == MeasureType /\ NotYet /\ Filled /\ Room /\ Judged

LEMMA AInvInit == AppInit => AInv
<1> SUFFICES ASSUME AppInit PROVE AInv
  OBVIOUS
<1>1. MeasureType
  <2>1. SAMPLES_PER_SECOND \in Nat
    BY AppMainAssumption
  <2>2. data_index \in 0 .. SAMPLES_PER_SECOND
    BY <2>1 DEF AppInit
  <2>3. stage \in Stages /\ ac \in Rounds
    BY DEF AppInit, Stages, Rounds
  <2> QED BY <2>2, <2>3 DEF AppInit, MeasureType
<1>2. NotYet /\ Room /\ Judged
  BY AppMainAssumption DEF AppInit, NotYet, Room, Judged
<1>3. Filled
  BY DEF AppInit, Filled
<1> QED BY <1>1, <1>2, <1>3 DEF AInv

LEMMA AInvMain ==
  ASSUME AInv, AppMainStep
  PROVE  AInv'
<1>1. UNCHANGED <<data_index, current, drawn, on, unposted, opened>>
  BY DEF AppMainStep, WebsocketStarted, ServerStarted, send_device_data, post_relay_to_api,
     Request, TimeObtained, MeasureStarted, acVars
<1>2. /\ stage' \in Stages /\ stage # "loop"
      /\ ac' = ac \/ (stage' = "loop" /\ ac' \in {"none", "sample"})
      /\ stage' = "loop" \/ ac' = ac
  BY DEF AppMainStep, WebsocketStarted, ServerStarted, send_device_data, post_relay_to_api,
     Request, TimeObtained, MeasureStarted, acVars, Stages
<1>3. ac = "none" /\ drawn = NULL
  BY <1>2 DEF AInv, NotYet, Judged
<1>4. MeasureType' /\ NotYet' /\ Filled'
  BY <1>1, <1>2, <1>3 DEF AInv, MeasureType, NotYet, Filled, Rounds
<1>5. Room' /\ Judged'
  BY <1>1, <1>2, <1>3 DEF AInv, Room, Judged
<1> QED BY <1>4, <1>5 DEF AInv

LEMMA AInvSample ==
  ASSUME AInv, Sample
  PROVE  AInv'
<1>1. /\ ac = "sample" /\ ac' = "check" /\ data_index' = data_index + 1 /\ ~opened'
      /\ unposted' = unposted \cup {data_index}
      /\ UNCHANGED <<stage, on>>
  BY DEF Sample
<1>2. PICK reading \in Readings : drawn' = reading.line /\ current' = reading.data
  BY DEF Sample
<1>3. /\ current' \in Currents \cup {0} /\ drawn' \in Currents \cup {0, NULL}
      /\ drawn' # NULL => current' = drawn'
  BY <1>2 DEF Readings
<1>4. data_index \in Nat /\ data_index < SAMPLES_PER_SECOND
  BY <1>1 DEF AInv, MeasureType, Room
<1>5. MeasureType'
  <2>1. SAMPLES_PER_SECOND \in Nat
    BY AppMainAssumption
  <2>2. data_index' \in 0 .. SAMPLES_PER_SECOND
    BY <1>1, <1>4, <2>1
  <2>3. stage' \in Stages /\ ac' \in Rounds /\ on' \in BOOLEAN
    BY <1>1 DEF AInv, MeasureType, Rounds
  <2>4. opened' = FALSE
    BY DEF Sample
  <2> QED BY <1>3, <2>2, <2>3, <2>4 DEF MeasureType
<1>6. Filled'
  BY <1>1, <1>4 DEF AInv, Filled
<1>7. NotYet' /\ Room' /\ Judged'
  BY <1>1, <1>3 DEF AInv, NotYet, Room, Judged
<1> QED BY <1>5, <1>6, <1>7 DEF AInv

LEMMA AInvCompare ==
  ASSUME AInv, Check \/ Trip \/ Notified
  PROVE  AInv'
<1>1. UNCHANGED <<stage, data_index, drawn, unposted>>
  BY DEF Check, Trip, Notified
<1>2. CASE Check
  <2>1. /\ ac = "check" /\ ac' \in {"trip", "full"} /\ current' = 0
        /\ UNCHANGED <<on, opened>>
    BY <1>2 DEF Check
  <2>2. ac' = "trip" <=> current >= Limit
    BY <1>2 DEF Check
  <2>3. MeasureType' /\ NotYet' /\ Filled' /\ Room'
    BY <1>1, <2>1 DEF AInv, MeasureType, NotYet, Filled, Room, Rounds
  <2>4. Judged'
    BY <1>1, <2>1, <2>2 DEF AInv, Judged
  <2> QED BY <2>3, <2>4 DEF AInv
<1>3. CASE Trip
  BY <1>1, <1>3 DEF Trip, AInv, MeasureType, NotYet, Filled, Room, Judged, Rounds
<1>4. CASE Notified
  BY <1>1, <1>4 DEF Notified, AInv, MeasureType, NotYet, Filled, Room, Judged, Rounds
<1> QED BY <1>2, <1>3, <1>4

LEMMA AInvPost ==
  ASSUME AInv, Full \/ Post \/ NextRound
  PROVE  AInv'
<1>1. UNCHANGED <<stage, drawn, current, on, opened>>
  BY DEF Full, Post, NextRound
<1>2. CASE Full
  <2>1. /\ ac = "full" /\ UNCHANGED <<data_index, unposted>>
        /\ \/ data_index >= SAMPLES_PER_SECOND /\ ac' \in {"post", "abort"}
           \/ ~(data_index >= SAMPLES_PER_SECOND) /\ ac' = "sleep"
    BY <1>2 DEF Full
  <2>2. data_index \in 0 .. SAMPLES_PER_SECOND /\ SAMPLES_PER_SECOND \in Nat
    BY AppMainAssumption DEF AInv, MeasureType
  <2>3. Room'
    BY <2>1, <2>2 DEF Room
  <2>4. MeasureType' /\ NotYet' /\ Filled' /\ Judged'
    BY <1>1, <2>1 DEF AInv, MeasureType, NotYet, Filled, Judged, Rounds
  <2> QED BY <2>3, <2>4 DEF AInv
<1>3. CASE Post
  <2>1. Filled'
    BY <1>3 DEF Post, Filled
  <2>2. MeasureType' /\ NotYet' /\ Room' /\ Judged'
    BY <1>1, <1>3, AppMainAssumption
    DEF Post, AInv, MeasureType, NotYet, Room, Judged, Rounds
  <2> QED BY <2>1, <2>2 DEF AInv
<1>4. CASE NextRound
  BY <1>1, <1>4 DEF NextRound, AInv, MeasureType, NotYet, Filled, Room, Judged, Rounds
<1> QED BY <1>2, <1>3, <1>4

LEMMA AInvNext == AInv /\ [AppNext]_allVars => AInv'
<1> SUFFICES ASSUME AInv, [AppNext]_allVars PROVE AInv'
  OBVIOUS
<1>1. CASE Link(Next) \/ Aborted \/ UNCHANGED allVars
  BY <1>1 DEF Link, Aborted, allVars, appVars, acVars, AInv, MeasureType, NotYet, Filled,
     Room, Judged
<1>2. CASE OthersSwitch
  BY <1>2 DEF OthersSwitch, acVars, AInv, MeasureType, NotYet, Filled, Room, Judged
<1>3. CASE AppMainStep
  BY <1>3, AInvMain
<1>4. CASE Measure
  BY <1>4, AInvSample, AInvCompare, AInvPost DEF Measure
<1> QED BY <1>1, <1>2, <1>3, <1>4 DEF AppNext

LEMMA AInvAlways == AppSpec => []AInv
BY AInvInit, AInvNext, PTL DEF AppSpec

\* The link, the progress of app_main and the AC-measure task keep their types.
THEOREM AppTypeCorrect == AppSpec => []AppTypeOK
<1>1. AInv /\ IInv => AppTypeOK
  <2> SUFFICES ASSUME AInv, IInv PROVE AppTypeOK
    OBVIOUS
  <2>1. unposted \subseteq Indexes
    BY AppMainAssumption DEF AInv, MeasureType, Filled, Indexes
  <2> QED BY <2>1 DEF AInv, MeasureType, IInv, AppTypeOK
<1> QED BY <1>1, AInvAlways, AppRunsTheLink, IInvAlways, PTL

\* No sample is written outside data_buffer or over one that has not been posted,
\* and a post sends a whole buffer of new samples, whatever became of earlier posts.
THEOREM NoSampleLost == AppSpec => []SamplesKept
<1>1. AInv => SamplesKept
  <2> SUFFICES ASSUME AInv PROVE SamplesKept
    OBVIOUS
  <2>1. SAMPLES_PER_SECOND \in Nat /\ data_index \in Nat
    BY AppMainAssumption DEF AInv, MeasureType
  <2>2. ac = "sample" => data_index \in Indexes \ unposted
    BY <2>1 DEF AInv, Filled, Room, Indexes
  <2>3. ac = "post" => unposted = Indexes
    <3> SUFFICES ASSUME data_index = SAMPLES_PER_SECOND
                 PROVE  \A i : i \in unposted <=> i \in Indexes
      BY DEF AInv, Room
    <3>1. \A i : i \in Indexes <=> i \in Nat /\ i < SAMPLES_PER_SECOND
      BY <2>1 DEF Indexes
    <3> QED BY <3>1 DEF AInv, Filled
  <2> QED BY <2>2, <2>3 DEF SamplesKept
<1> QED BY <1>1, AInvAlways, PTL

\* Each sample of Limit or more has opened the relays before the next one, and no
\* smaller one has, for any limit and whoever switches relays meanwhile.
THEOREM TripsWhenItShould == AppSpec => []OvercurrentOpens
<1>1. AInv => OvercurrentOpens
  BY DEF AInv, Judged, OvercurrentOpens
<1> QED BY <1>1, AInvAlways, PTL
=============================================================================
