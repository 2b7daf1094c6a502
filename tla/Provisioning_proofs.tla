------------------------ MODULE Provisioning_proofs ------------------------
(***************************************************************************)
(* Proofs about Provisioning, for any set of credentials, any of which an  *)
(* access point may accept, any number of retries and of restarts of       *)
(* SmartConfig, and any number of events waiting in the event loop.        *)
(***************************************************************************)
EXTENDS Provisioning, TLAPS

\* The two events that come from the phone.
Phone     == {"GOT_SSID_PSWD", "ACK_DONE"}
NoGot     == \A k \in 1 .. Len(queue) : queue[k].type # "GOT_SSID_PSWD"
NoAck     == \A k \in 1 .. Len(queue) : queue[k].type # "ACK_DONE"
AtMostOne == \A k, l \in 1 .. Len(queue) :
               queue[k].type \in Phone /\ queue[l].type \in Phone => k = l

Handling == event.at \in {"ssid", "password", "apply"}

-----------------------------------------------------------------------------
(* The event queue.                                                        *)

LEMMA EventTypes ==
  /\ \A t \in {"START", "DISCONNECTED", "GOT_IP", "ACK_DONE"} : [type |-> t] \in Events
  /\ \A c \in Credentials : [type |-> "GOT_SSID_PSWD", cred |-> c] \in Events
BY DEF Events

\* Posting and taking an event that is not the phone's.
LEMMA OtherEvent ==
  ASSUME queue \in Seq(Events),
         \/ queue' = queue
         \/ \E t \in {"START", "DISCONNECTED", "GOT_IP"} : queue' = Append(queue, [type |-> t])
         \/ queue # << >> /\ Head(queue).type \notin Phone /\ queue' = Tail(queue)
  PROVE  /\ queue' \in Seq(Events)
         /\ NoGot' <=> NoGot
         /\ NoAck' <=> NoAck
         /\ AtMostOne => AtMostOne'
<1>1. CASE queue' = queue
  BY <1>1 DEF NoGot, NoAck, AtMostOne
<1>2. ASSUME NEW t \in {"START", "DISCONNECTED", "GOT_IP"},
             queue' = Append(queue, [type |-> t])
      PROVE  /\ queue' \in Seq(Events) /\ (NoGot' <=> NoGot) /\ (NoAck' <=> NoAck)
             /\ AtMostOne => AtMostOne'
  <2>1. queue' \in Seq(Events) /\ Len(queue') = Len(queue) + 1 /\ Len(queue) \in Nat
    BY <1>2, EventTypes
  <2>2. \A k \in 1 .. Len(queue) : queue'[k] = queue[k]
    BY <1>2
  <2>3. queue'[Len(queue) + 1].type = t
    BY <1>2
  <2>4. \A k \in 1 .. Len(queue') : k \in 1 .. Len(queue) \/ k = Len(queue) + 1
    BY <2>1
  <2>5. \A k \in 1 .. Len(queue) : k \in 1 .. Len(queue')
    BY <2>1
  <2> QED BY <2>1, <2>2, <2>3, <2>4, <2>5 DEF NoGot, NoAck, AtMostOne, Phone
<1>3. CASE queue # << >> /\ Head(queue).type \notin Phone /\ queue' = Tail(queue)
  <2>1. /\ queue' \in Seq(Events) /\ Len(queue') = Len(queue) - 1 /\ Len(queue) \in Nat
        /\ Head(queue) = queue[1]
    BY <1>3
  <2>2. \A k \in 1 .. Len(queue') : k + 1 \in 1 .. Len(queue) /\ queue'[k] = queue[k + 1]
    BY <1>3
  <2>3. \A k \in 1 .. Len(queue) : k = 1 \/ (k - 1 \in 1 .. Len(queue') /\ k - 1 + 1 = k)
    BY <2>1
  <2>4. \A k \in 1 .. Len(queue) : k = 1 \/ queue'[k - 1] = queue[k]
    BY <2>2, <2>3
  <2>5. NoGot' <=> NoGot
    BY <1>3, <2>1, <2>2, <2>3, <2>4 DEF NoGot, Phone
  <2>6. NoAck' <=> NoAck
    BY <1>3, <2>1, <2>2, <2>3, <2>4 DEF NoAck, Phone
  <2>7. AtMostOne => AtMostOne'
    <3>1. ASSUME AtMostOne, NEW k \in 1 .. Len(queue'), NEW l \in 1 .. Len(queue'),
                 queue'[k].type \in Phone, queue'[l].type \in Phone
          PROVE  k = l
      <4>1. k + 1 = l + 1
        BY <2>2, <3>1 DEF AtMostOne
      <4> QED BY <4>1
    <3> QED BY <3>1 DEF AtMostOne
  <2> QED BY <2>1, <2>5, <2>6, <2>7
<1> QED BY <1>1, <1>2, <1>3

\* Taking the phone's event leaves none.
LEMMA TakePhone ==
  ASSUME queue \in Seq(Events), AtMostOne, queue # << >>, Head(queue).type \in Phone,
         queue' = Tail(queue)
  PROVE  queue' \in Seq(Events) /\ NoGot' /\ NoAck' /\ AtMostOne'
<1>1. /\ queue' \in Seq(Events) /\ Len(queue') = Len(queue) - 1 /\ Len(queue) \in Nat
      /\ Head(queue) = queue[1] /\ 1 \in 1 .. Len(queue)
  OBVIOUS
<1>2. ASSUME NEW k \in 1 .. Len(queue') PROVE queue'[k].type \notin Phone
  <2>1. k + 1 \in 1 .. Len(queue) /\ queue'[k] = queue[k + 1] /\ k + 1 # 1
    BY <1>1
  <2> QED BY <1>1, <2>1 DEF AtMostOne
<1> QED BY <1>1, <1>2 DEF NoGot, NoAck, AtMostOne, Phone

\* Posting the phone's event when none is waiting.
LEMMA PostPhone ==
  ASSUME queue \in Seq(Events), NoGot, NoAck, NEW e \in Events, e.type \in Phone,
         queue' = Append(queue, e)
  PROVE  /\ queue' \in Seq(Events) /\ AtMostOne'
         /\ e.type = "ACK_DONE" => NoGot'
         /\ e.type = "GOT_SSID_PSWD" => ~NoGot' /\ NoAck'
<1>1. queue' \in Seq(Events) /\ Len(queue') = Len(queue) + 1 /\ Len(queue) \in Nat
  OBVIOUS
<1>2. \A k \in 1 .. Len(queue') :
        \/ k \in 1 .. Len(queue) /\ queue'[k] = queue[k]
        \/ k = Len(queue) + 1 /\ queue'[k] = e
  BY <1>1
<1>3. Len(queue) + 1 \in 1 .. Len(queue') /\ queue'[Len(queue) + 1] = e
  BY <1>1
<1>4. \A k \in 1 .. Len(queue) : queue[k].type \notin Phone
  BY DEF NoGot, NoAck, Phone
<1> QED BY <1>1, <1>2, <1>3, <1>4 DEF NoGot, NoAck, AtMostOne, Phone

-----------------------------------------------------------------------------
(* Types.                                                                  *)

LEMMA HeadEvent ==
  ASSUME queue \in Seq(Events), queue # << >>
  PROVE  /\ Head(queue) \in Events /\ Tail(queue) \in Seq(Events)
         /\ Head(queue).type = "GOT_SSID_PSWD" => Head(queue).cred \in Credentials
<1>1. Head(queue) \in Events /\ Tail(queue) \in Seq(Events)
  OBVIOUS
<1> QED BY <1>1 DEF Events

LEMMA PostType ==
  ASSUME queue \in Seq(Events), NEW t \in {"START", "DISCONNECTED", "GOT_IP", "ACK_DONE"},
         queue' = Append(queue, [type |-> t])
  PROVE  queue' \in Seq(Events)
BY EventTypes

LEMMA TypeInit == Init => TypeOK
<1> SUFFICES ASSUME Init PROVE TypeOK
  OBVIOUS
<1>1. nvs \in [mode : Modes, ssid : Ssids, password : Passwords]
  BY DEF Init, Modes, Ssids, Passwords
<1>2. pc \in [Procs -> {"read", "idle"}] /\ event \in [at : {"idle", "mode"}]
  BY DEF Init, Booting, Procs, Starters, Idle
<1>3. retries \in 0 .. MAXIMUM_RETRY /\ queue \in Seq(Events)
  BY ProvisioningAssumption DEF Init
<1>4. done \subseteq 0 .. group /\ waiting \in 0 .. group /\ group \in Nat /\ created \in Nat
  BY DEF Init
<1> QED BY <1>1, <1>2, <1>3, <1>4 DEF Init, TypeOK

LEMMA ResetType ==
  ASSUME TypeOK, Reset
  PROVE  TypeOK'
BY ProvisioningAssumption DEF Reset, TypeOK, Booting, Procs, Starters, Idle, flash

\* A string is written, or not.
LEMMA SaveType ==
  ASSUME TypeOK, NEW key, NEW value, Save(key, value),
         \/ key = "mode" /\ value \in Modes
         \/ key = "ssid" /\ value \in Ssids
         \/ key = "password" /\ value \in Passwords
  PROVE  nvs' \in [mode : Modes, ssid : Ssids, password : Passwords]
BY DEF TypeOK, Save

LEMMA CredentialParts ==
  ASSUME NEW c \in Credentials
  PROVE  c.ssid \in Ssids /\ c.password \in Passwords
         /\ c = [ssid |-> c.ssid, password |-> c.password]
BY ProvisioningAssumption

LEMMA MainType ==
  ASSUME TypeOK, AppMain
  PROVE  TypeOK'
<1> USE ProvisioningAssumption DEF TypeOK, flash, wifi, tasks, Goto, Procs, Starters
<1>1. CASE ReadMode
  BY <1>1 DEF ReadMode
<1>2. CASE WifiInit
  <2>1. queue' \in Seq(Events)
    BY <1>2, PostType DEF WifiInit, Post
  <2> QED BY <1>2, <2>1 DEF WifiInit, Accepted
<1>3. CASE WaitDone \/ UnregisterIp \/ UnregisterAny
  BY <1>3 DEF WaitDone, UnregisterIp, UnregisterAny, Unregister
<1> QED BY <1>1, <1>2, <1>3 DEF AppMain

LEMMA StarterType ==
  ASSUME TypeOK, NEW p \in Procs, Starter(p) \/ (p \in Starters /\ BackToSmartConfig(p))
  PROVE  TypeOK'
<1> USE ProvisioningAssumption DEF TypeOK, flash, wifi, tasks, Goto
<1>1. CASE StopWifi(p)
  <2>1. queue' \in Seq(Events)
    BY <1>1, PostType DEF StopWifi, Post
  <2> QED BY <1>1, <2>1 DEF StopWifi
<1>2. CASE CreateGroup(p)
  BY <1>2 DEF CreateGroup
<1>3. CASE StartWifi(p)
  <2>1. queue' \in Seq(Events)
    BY <1>3, PostType DEF StartWifi, Post
  <2> QED BY <1>3, <2>1 DEF StartWifi
<1>4. CASE p \in Starters /\ BackToSmartConfig(p)
  <2>1. nvs' \in [mode : Modes, ssid : Ssids, password : Passwords]
    BY <1>4, SaveType DEF BackToSmartConfig, Modes
  <2> QED BY <1>4, <2>1 DEF BackToSmartConfig
<1> QED BY <1>1, <1>2, <1>3, <1>4 DEF Starter

LEMMA ConfigType ==
  ASSUME TypeOK, ConfigPassword \/ ConfigMode
  PROVE  TypeOK'
<1> USE ProvisioningAssumption DEF TypeOK, flash, wifi, tasks, Goto, Procs, Starters
<1>1. nvs' \in [mode : Modes, ssid : Ssids, password : Passwords]
  BY SaveType DEF ConfigPassword, ConfigMode, Modes, Passwords
<1> QED BY <1>1 DEF ConfigPassword, ConfigMode

LEMMA LoopType ==
  ASSUME TypeOK, EventLoop
  PROVE  TypeOK'
<1> USE ProvisioningAssumption DEF TypeOK, flash, wifi, tasks, Idle
<1>1. CASE Started \/ Disconnected \/ GotIp
  <2>1. queue' \in Seq(Events)
    BY <1>1, HeadEvent DEF Started, Disconnected, GotIp, Dispatch
  <2>2. CASE Started
    BY <2>1, <2>2 DEF Started
  <2>3. CASE Disconnected
    <3>1. retries' \in 0 .. MAXIMUM_RETRY
      BY <2>3 DEF Disconnected
    <3>2. bits' \subseteq {"connected", "fail"}
      BY <2>3 DEF Disconnected
    <3>3. radio' \in {"off", "down", "connecting", "online"}
      BY <2>3 DEF Disconnected
    <3>4. UNCHANGED <<nvs, sta, handlers, pc, event, smart, group, done, created, waiting,
                      joined, excused>>
      BY <2>3 DEF Disconnected
    <3> QED BY <2>1, <3>1, <3>2, <3>3, <3>4
  <2>4. CASE GotIp
    <3>0. \/ retries' = 0 /\ bits' = bits \cup {"connected"}
          \/ retries' = retries /\ bits' = bits
      BY <2>4 DEF GotIp
    <3>1. bits' \subseteq {"connected", "fail"}
      BY <3>0
    <3>2. UNCHANGED <<nvs, sta, radio, handlers, pc, event, smart, group, done, created,
                      waiting, joined, excused>>
      BY <2>4 DEF GotIp
    <3>3. retries \in 0 .. MAXIMUM_RETRY /\ 0 \in 0 .. MAXIMUM_RETRY
      OBVIOUS
    <3>4. retries' \in 0 .. MAXIMUM_RETRY
      BY <3>0, <3>3, Zenon
    <3> QED BY <2>1, <3>1, <3>2, <3>4
  <2> QED BY <1>1, <2>2, <2>3, <2>4
<1>2. CASE GotCredentials
  <2>1. queue' \in Seq(Events) /\ Head(queue).cred \in Credentials
    BY <1>2, HeadEvent DEF GotCredentials, Dispatch
  <2> QED BY <1>2, <2>1 DEF GotCredentials
<1>3. CASE SaveSsid \/ SavePassword
  <2>1. event.cred \in Credentials /\ event.at \in {"ssid", "password"}
    BY <1>3 DEF SaveSsid, SavePassword
  <2>2. nvs' \in [mode : Modes, ssid : Ssids, password : Passwords]
    BY <1>3, <2>1, SaveType, CredentialParts DEF SaveSsid, SavePassword
  <2>3. event' \in [at : {"ssid", "password", "apply"}, cred : Credentials]
    BY <1>3, <2>1 DEF SaveSsid, SavePassword
  <2>4. excused' \in BOOLEAN /\ UNCHANGED <<sta, radio, queue, handlers, bits, retries, pc,
                                           smart, group, done, created, waiting, joined>>
    BY <1>3 DEF SaveSsid, SavePassword
  <2> QED BY <2>2, <2>3, <2>4
<1>4. CASE ApplyCredentials
  <2>1. queue' \in Seq(Events)
    BY <1>4, PostType DEF ApplyCredentials, Post
  <2> QED BY <1>4, <2>1 DEF ApplyCredentials, Accepted
<1>5. CASE ApplyAborts
  BY <1>5, ResetType DEF ApplyAborts
<1>6. CASE Acknowledged
  <2>1. queue' \in Seq(Events)
    BY <1>6, HeadEvent DEF Acknowledged, Dispatch
  <2>2. done' \subseteq 0 .. group'
    BY <1>6 DEF Acknowledged
  <2>3. event' \in [at : {"idle", "mode"}]
    BY <1>6 DEF Acknowledged
  <2> QED BY <1>6, <2>1, <2>2, <2>3 DEF Acknowledged
<1>7. CASE SaveMode
  <2>1. nvs' \in [mode : Modes, ssid : Ssids, password : Passwords]
    BY <1>7, SaveType DEF SaveMode, Modes
  <2> QED BY <1>7, <2>1 DEF SaveMode
<1> QED BY <1>1, <1>2, <1>3, <1>4, <1>5, <1>6, <1>7 DEF EventLoop

LEMMA OutsideType ==
  ASSUME TypeOK,
         \/ SmartTask \/ Joins \/ Refused \/ Lost \/ PhoneAcknowledged
         \/ \E cred \in Credentials : PhoneSends(cred)
  PROVE  TypeOK'
<1> USE ProvisioningAssumption DEF TypeOK, flash, wifi, tasks
<1>1. CASE SmartTask
  <2>1. CASE SmartBegin
    <3>1. created' \in Nat /\ waiting' \in 0 .. group'
      BY <2>1 DEF SmartBegin
    <3>2. smart' \in {"off", "listening", "sent", "acked"} /\ done' \subseteq 0 .. group'
      BY <2>1 DEF SmartBegin
    <3> QED BY <2>1, <3>1, <3>2 DEF SmartBegin
  <2>2. CASE SmartAborts
    BY <2>2, ResetType DEF SmartAborts
  <2>3. CASE SmartOver
    <3>1. waiting' = 0 /\ group' = group /\ done' \subseteq done
      BY <2>3 DEF SmartOver
    <3>2. 0 \in 0 .. group
      OBVIOUS
    <3>3. waiting' \in 0 .. group' /\ done' \subseteq 0 .. group'
      BY <3>1, <3>2
    <3> QED BY <2>3, <3>3 DEF SmartOver
  <2> QED BY <1>1, <2>1, <2>2, <2>3 DEF SmartTask
<1>2. CASE Joins \/ Refused \/ Lost \/ PhoneAcknowledged
  <2>1. queue' \in Seq(Events)
    BY <1>2, PostType DEF Joins, Refused, Lost, PhoneAcknowledged, Post
  <2> QED BY <1>2, <2>1 DEF Joins, Refused, Lost, PhoneAcknowledged
<1>3. ASSUME NEW cred \in Credentials, PhoneSends(cred) PROVE TypeOK'
  <2>1. queue' \in Seq(Events)
    BY <1>3, EventTypes DEF PhoneSends
  <2> QED BY <1>3, <2>1 DEF PhoneSends
<1> QED BY <1>1, <1>2, <1>3

LEMMA TypeStep == TypeOK /\ [Next]_vars => TypeOK'
<1> SUFFICES ASSUME TypeOK, [Next]_vars PROVE TypeOK'
  OBVIOUS
<1>1. CASE UNCHANGED vars
  BY <1>1 DEF vars, flash, wifi, tasks, TypeOK
<1>2. CASE Next
  BY <1>2, MainType, StarterType, ConfigType, LoopType, OutsideType, ResetType
  DEF Next, Starters, Procs
<1> QED BY <1>1, <1>2

\* Every string, flag, event and task of provisioning keeps its type, whatever is
\* held, sent, lost or reset.
THEOREM TypeCorrect == Spec => []TypeOK
<1> QED BY TypeInit, TypeStep, PTL DEF Spec

-----------------------------------------------------------------------------
(***************************************************************************)
(* The invariant behind StaModeWorks: where the credentials are, from the  *)
(* phone's event to the write of the mode, and what holds of them there.   *)
(***************************************************************************)

\* One phone is served at a time: its credentials are waiting, being handled or
\* applied while SmartConfig has sent them, its acknowledgement waits while it has.
OnePhone ==
  /\ AtMostOne
  /\ Handling => smart = "sent" /\ NoGot /\ NoAck
  /\ ~NoGot => smart = "sent"
  /\ ~NoAck => smart = "acked" /\ done = {}

\* ESPTOUCH_DONE_BIT is set for one group, after the acknowledgement.
OneDone == (smart # "acked" => done = {}) /\ \A g, h \in done : g = h

\* Until app_main has chosen, nothing else has started.
Early ==
  pc["main"] \in {"read", "wifi"} =>
    /\ radio = "off" /\ smart = "off" /\ created = 0 /\ handlers = {}
    /\ queue = << >> /\ event = Idle
    /\ \A p \in Starters : pc[p] = "idle"

\* The driver is online with a pair that has worked.
Online == radio = "online" => sta \in joined /\ sta # NULL

\* Credentials that have been handled are what the driver tries.
Tried == smart = "sent" /\ ~Handling /\ NoGot /\ ~excused => sta \in {Stored, NULL}

Applying == event.at = "apply" /\ ~excused => Stored = event.cred

\* What the phone has acknowledged has worked.
AckedWorked == (event.at = "mode" \/ ~NoAck) /\ ~excused => Stored \in joined

PInv ==
  /\ TypeOK /\ OnePhone /\ OneDone /\ Early /\ Online /\ Tried /\ Applying
  /\ AckedWorked /\ StaModeWorks

LEMMA PInvInit == Init => PInv
<1> SUFFICES ASSUME Init PROVE PInv
  OBVIOUS
<1>1. TypeOK
  BY TypeInit
<1>2. OnePhone /\ OneDone
  BY DEF Init, Idle, OnePhone, OneDone, NoGot, NoAck, AtMostOne, Handling
<1>3. Early
  BY DEF Init, Early, Booting, Procs, Starters
<1>4. Online /\ Tried /\ Applying
  BY DEF Init, Idle, Online, Tried, Applying
<1>5. AckedWorked
  BY DEF Init, Idle, AckedWorked, NoAck
<1>6. StaModeWorks
  BY ProvisioningAssumption DEF Init, StaModeWorks
<1> QED BY <1>1, <1>2, <1>3, <1>4, <1>5, <1>6 DEF PInv

\* A reset stops everything but what has been written.
LEMMA PInvReset ==
  ASSUME PInv, Reset
  PROVE  PInv'
<1>1. TypeOK'
  BY ResetType DEF PInv
<1>2. OnePhone' /\ OneDone'
  BY DEF Reset, Idle, OnePhone, OneDone, NoGot, NoAck, AtMostOne, Handling
<1>3. Early'
  BY DEF Reset, Early, Booting, Procs, Starters
<1>4. Online' /\ Tried' /\ Applying'
  BY DEF Reset, Idle, Online, Tried, Applying
<1>5. AckedWorked'
  BY DEF Reset, Idle, AckedWorked, NoAck
<1>6. StaModeWorks'
  BY DEF PInv, Reset, flash, StaModeWorks, Stored
<1> QED BY <1>1, <1>2, <1>3, <1>4, <1>5, <1>6 DEF PInv

\* A step that touches neither the credentials nor the phone's events.
LEMMA PInvQuiet ==
  ASSUME PInv, TypeOK', Early',
         UNCHANGED <<nvs, sta, event, smart, done, excused>>,
         \/ queue' = queue
         \/ \E t \in {"START", "DISCONNECTED", "GOT_IP"} : queue' = Append(queue, [type |-> t])
         \/ queue # << >> /\ Head(queue).type \notin Phone /\ queue' = Tail(queue),
         joined \subseteq joined', Online'
  PROVE  PInv'
<1>1. (NoGot' <=> NoGot) /\ (NoAck' <=> NoAck) /\ AtMostOne'
  BY OtherEvent DEF PInv, TypeOK, OnePhone
<1>2. OnePhone'
  BY <1>1 DEF PInv, OnePhone, Handling
<1>3. OneDone' /\ Tried' /\ Applying'
  BY <1>1 DEF PInv, OneDone, Tried, Applying, Stored, Handling
<1>4. AckedWorked' /\ StaModeWorks'
  BY <1>1 DEF PInv, AckedWorked, StaModeWorks, Stored
<1> QED BY <1>2, <1>3, <1>4 DEF PInv

LEMMA EarlyStep ==
  ASSUME PInv, Next
  PROVE  Early'
<1> USE DEF PInv, TypeOK, Early, flash, wifi, tasks, Goto, Procs, Starters
<1>0. pc \in [{"button", "httpd", "main"} -> {"read", "wifi", "wait", "unregisterIp",
              "unregisterAny", "up", "idle", "stop", "group", "start", "config"}]
  BY Zenon
<1>1. CASE AppMain
  BY <1>0, <1>1 DEF AppMain, ReadMode, WifiInit, WaitDone, UnregisterIp, UnregisterAny, Unregister
<1>2. ASSUME NEW p \in Procs, Starter(p) PROVE Early'
  <2>1. CASE p = "main"
    BY <1>0, <1>2, <2>1 DEF Starter, StopWifi, CreateGroup, StartWifi
  <2>2. CASE p # "main"
    BY <1>0, <1>2, <2>2 DEF Starter, StopWifi, CreateGroup, StartWifi
  <2> QED BY <2>1, <2>2
<1>3. ASSUME NEW p \in Starters, BackToSmartConfig(p) PROVE Early'
  BY <1>0, <1>3 DEF BackToSmartConfig, Booted
<1>4. CASE ConfigPassword \/ ConfigMode
  <2>1. CASE ConfigPassword
    BY <1>0, <2>1 DEF ConfigPassword, Booted
  <2>2. CASE ConfigMode
    BY <1>0, <2>2 DEF ConfigMode
  <2> QED BY <1>4, <2>1, <2>2
<1>5. CASE Reset
  BY <1>5, PInvReset
<1>6. CASE EventLoop
  <2>1. CASE Started \/ Disconnected \/ GotIp
    BY <2>1 DEF Started, Disconnected, GotIp, Dispatch
  <2>2. CASE GotCredentials \/ Acknowledged
    BY <2>2 DEF GotCredentials, Acknowledged, Dispatch
  <2>3. CASE SaveSsid \/ SavePassword \/ SaveMode
    BY <2>3 DEF SaveSsid, SavePassword, SaveMode, Idle
  <2>4. CASE ApplyCredentials
    BY <2>4 DEF ApplyCredentials
  <2>5. CASE ApplyAborts
    BY <1>5, <2>5 DEF ApplyAborts
  <2> QED BY <1>6, <2>1, <2>2, <2>3, <2>4, <2>5 DEF EventLoop
<1>7. CASE SmartTask
  <2>1. CASE SmartBegin
    BY <2>1 DEF SmartBegin
  <2>2. CASE SmartAborts
    BY <1>5, <2>2 DEF SmartAborts
  <2>3. CASE SmartOver
    <3>1. done # {} /\ pc' = pc
      BY <2>3 DEF SmartOver
    <3>2. smart = "acked"
      BY <3>1 DEF OneDone
    <3> QED BY <3>1, <3>2
  <2> QED BY <1>7, <2>1, <2>2, <2>3 DEF SmartTask
<1>8. CASE Joins \/ Refused \/ Lost \/ PhoneAcknowledged
  <2>1. pc' = pc /\ radio # "off"
    BY <1>8 DEF Joins, Refused, Lost, PhoneAcknowledged
  <2> QED BY <2>1
<1>9. ASSUME NEW cred \in Credentials, PhoneSends(cred) PROVE Early'
  BY <1>9 DEF PhoneSends
<1> QED BY <1>1, <1>2, <1>3, <1>4, <1>5, <1>6, <1>7, <1>8, <1>9 DEF Next

\* The steps of app_main, of a task that starts SmartConfig, of the driver and of
\* the handlers that leave the credentials alone.
LEMMA PInvQuietStep ==
  ASSUME PInv, TypeOK', Early',
         \/ ReadMode \/ WaitDone \/ UnregisterIp \/ UnregisterAny
         \/ \E p \in Procs : Starter(p)
         \/ Started \/ Disconnected \/ GotIp
         \/ Joins \/ Refused \/ Lost
  PROVE  PInv'
<1> USE DEF flash, wifi, tasks
<1> DEFINE QuietQueue ==
      \/ queue' = queue
      \/ \E t \in {"START", "DISCONNECTED", "GOT_IP"} : queue' = Append(queue, [type |-> t])
      \/ queue # << >> /\ Head(queue).type \notin Phone /\ queue' = Tail(queue)
<1>1. CASE ReadMode \/ WaitDone \/ UnregisterIp \/ UnregisterAny
  <2>1. UNCHANGED <<nvs, sta, event, smart, done, excused, queue, joined, radio>>
    BY <1>1 DEF ReadMode, WaitDone, UnregisterIp, UnregisterAny, Unregister
  <2>2. Online'
    BY <2>1 DEF PInv, Online
  <2> QED BY <2>1, <2>2, PInvQuiet
<1>2. ASSUME NEW p \in Procs, Starter(p) PROVE PInv'
  <2>1. UNCHANGED <<nvs, sta, event, smart, done, excused, joined>>
    BY <1>2 DEF Starter, StopWifi, CreateGroup, StartWifi
  <2>2. QuietQueue
    BY <1>2 DEF Starter, StopWifi, CreateGroup, StartWifi, Post
  <2>3. radio' = radio \/ radio' # "online"
    BY <1>2 DEF Starter, StopWifi, CreateGroup, StartWifi
  <2>4. Online'
    BY <2>1, <2>3 DEF PInv, Online
  <2> QED BY <2>1, <2>2, <2>4, PInvQuiet
<1>3. CASE Started \/ Disconnected \/ GotIp
  <2>1. UNCHANGED <<nvs, sta, event, smart, done, excused, joined>>
    BY <1>3 DEF Started, Disconnected, GotIp
  <2>2. QuietQueue
    BY <1>3 DEF Started, Disconnected, GotIp, Dispatch, Phone
  <2>3. radio' = radio \/ radio' # "online"
    BY <1>3 DEF Started, Disconnected, GotIp
  <2>4. Online'
    BY <2>1, <2>3 DEF PInv, Online
  <2> QED BY <2>1, <2>2, <2>4, PInvQuiet
<1>4. CASE Joins \/ Refused \/ Lost
  <2>1. UNCHANGED <<nvs, sta, event, smart, done, excused>> /\ joined \subseteq joined'
    BY <1>4 DEF Joins, Refused, Lost
  <2>2. QuietQueue
    BY <1>4 DEF Joins, Refused, Lost, Post
  <2>3. Online'
    BY <1>4 DEF Joins, Refused, Lost, Online
  <2> QED BY <2>1, <2>2, <2>3, PInvQuiet
<1> QED BY <1>1, <1>2, <1>3, <1>4

\* wifi_init runs before anything else does.
LEMMA PInvWifiInit ==
  ASSUME PInv, TypeOK', Early', WifiInit
  PROVE  PInv'
<1> USE DEF flash, wifi, tasks
<1>1. smart = "off" /\ event = Idle
  BY DEF PInv, Early, WifiInit
<1>2. (NoGot' <=> NoGot) /\ (NoAck' <=> NoAck) /\ AtMostOne'
  BY OtherEvent DEF PInv, TypeOK, OnePhone, WifiInit, Post
<1>3. OnePhone' /\ OneDone'
  BY <1>2 DEF PInv, OnePhone, OneDone, Handling, WifiInit
<1>4. Online' /\ Tried' /\ Applying'
  BY <1>1 DEF Online, Tried, Applying, Idle, WifiInit
<1>5. AckedWorked' /\ StaModeWorks'
  BY <1>2 DEF PInv, AckedWorked, StaModeWorks, Stored, WifiInit
<1> QED BY <1>3, <1>4, <1>5 DEF PInv

\* The mode is written alone: back to SmartConfig, or excused.
LEMMA PInvBack ==
  ASSUME PInv, TypeOK', Early',
         Save("mode", "SMART_CONFIG"), excused' = (excused \/ Failed("mode", "SMART_CONFIG")),
         UNCHANGED <<sta, radio, queue, event, smart, done, joined>>
  PROVE  PInv'
<1>1. nvs \in [mode : Modes, ssid : Ssids, password : Passwords]
  BY DEF PInv, TypeOK
<1>2. Stored' = Stored /\ (~excused' => ~excused /\ nvs'.mode = "SMART_CONFIG")
  BY <1>1 DEF Save, Failed, Stored, PInv, TypeOK
<1>3. OnePhone' /\ OneDone' /\ Online'
  BY DEF PInv, OnePhone, OneDone, Online, NoGot, NoAck, AtMostOne, Handling
<1>4. Tried' /\ Applying' /\ AckedWorked'
  BY <1>2 DEF PInv, Tried, Applying, AckedWorked, NoGot, NoAck, Handling
<1>5. StaModeWorks'
  BY <1>2 DEF StaModeWorks
<1> QED BY <1>3, <1>4, <1>5 DEF PInv

LEMMA PInvConfig ==
  ASSUME PInv, TypeOK', Early', ConfigPassword
  PROVE  PInv'
<1>1. UNCHANGED <<sta, radio, queue, event, smart, done, joined>> /\ excused' = TRUE
  BY DEF ConfigPassword, tasks
<1>2. OnePhone' /\ OneDone' /\ Online'
  BY <1>1 DEF PInv, OnePhone, OneDone, Online, NoGot, NoAck, AtMostOne, Handling
<1>3. Tried' /\ Applying' /\ AckedWorked' /\ StaModeWorks'
  BY <1>1 DEF Tried, Applying, AckedWorked, StaModeWorks
<1> QED BY <1>2, <1>3 DEF PInv

\* The three steps of the handler of the phone's credentials.
LEMMA PInvCredentials ==
  ASSUME PInv, TypeOK', Early', GotCredentials \/ SaveSsid \/ SavePassword
  PROVE  PInv'
<1> USE DEF flash, wifi, tasks
<1>1. nvs \in [mode : Modes, ssid : Ssids, password : Passwords] /\ queue \in Seq(Events)
  BY DEF PInv, TypeOK
<1>2. UNCHANGED <<sta, radio, smart, done, joined>>
  BY DEF GotCredentials, SaveSsid, SavePassword
<1>3. OneDone' /\ Online'
  BY <1>2 DEF PInv, OneDone, Online
<1>4. /\ event'.at \in {"ssid", "password", "apply"} /\ smart' = "sent"
      /\ NoGot' /\ NoAck' /\ AtMostOne'
  <2>1. CASE GotCredentials
    <3>1. /\ queue # << >> /\ Head(queue).type = "GOT_SSID_PSWD" /\ queue' = Tail(queue)
          /\ event'.at = "ssid"
      BY <2>1 DEF GotCredentials, Dispatch
    <3>2. ~NoGot
      BY <1>1, <3>1 DEF NoGot
    <3>3. NoGot' /\ NoAck' /\ AtMostOne'
      BY <1>1, <3>1, TakePhone DEF PInv, OnePhone, Phone
    <3> QED BY <1>2, <3>1, <3>2, <3>3 DEF PInv, OnePhone
  <2>2. CASE SaveSsid \/ SavePassword
    <3>1. Handling /\ queue' = queue
      BY <2>2 DEF SaveSsid, SavePassword, Handling
    <3>2. event'.at \in {"password", "apply"}
      BY <2>2 DEF SaveSsid, SavePassword, PInv, TypeOK
    <3> QED BY <1>2, <3>1, <3>2 DEF PInv, OnePhone, NoGot, NoAck, AtMostOne
  <2> QED BY <2>1, <2>2
<1>5. OnePhone'
  BY <1>2, <1>4 DEF OnePhone, Handling
<1>6. Tried' /\ AckedWorked'
  BY <1>4 DEF Tried, AckedWorked, Handling
<1>7. Applying' /\ StaModeWorks'
  <2>1. CASE GotCredentials
    BY <2>1 DEF GotCredentials, PInv, Applying, StaModeWorks, Stored
  <2>2. CASE SaveSsid
    <3>1. event'.at = "password" /\ nvs'.mode = nvs.mode
      BY <1>1, <2>2 DEF SaveSsid, Save, PInv, TypeOK
    <3>2. ~excused' => nvs'.mode # "STA"
      BY <2>2, <3>1 DEF SaveSsid
    <3> QED BY <3>1, <3>2 DEF Applying, StaModeWorks
  <2>3. CASE SavePassword
    <3>1. event.cred \in Credentials /\ event'.cred = event.cred
      BY <2>3 DEF SavePassword, PInv, TypeOK
    <3>2. nvs'.mode = nvs.mode
      BY <1>1, <2>3 DEF SavePassword, Save
    <3>3. ~excused' => /\ nvs'.mode # "STA" /\ nvs'.ssid = event.cred.ssid
                       /\ nvs'.password = event.cred.password
      BY <2>3, <3>2 DEF SavePassword, Failed
    <3>4. ~excused' => Stored' = event'.cred
      BY <3>1, <3>3, CredentialParts DEF Stored
    <3> QED BY <3>3, <3>4 DEF Applying, StaModeWorks
  <2> QED BY <2>1, <2>2, <2>3
<1> QED BY <1>3, <1>5, <1>6, <1>7 DEF PInv

\* The driver gets the credentials that are stored.
LEMMA PInvApply ==
  ASSUME PInv, TypeOK', Early', ApplyCredentials
  PROVE  PInv'
<1> USE DEF flash, wifi, tasks
<1>1. /\ UNCHANGED <<nvs, smart, done, joined, excused>> /\ event' = Idle
      /\ event.at = "apply" /\ radio' = "connecting"
  BY DEF ApplyCredentials
<1>2. smart = "sent" /\ NoGot /\ NoAck
  BY <1>1 DEF PInv, OnePhone, Handling
<1>3. (NoGot' <=> NoGot) /\ (NoAck' <=> NoAck) /\ AtMostOne'
  BY OtherEvent DEF PInv, TypeOK, OnePhone, ApplyCredentials, Post
<1>4. OnePhone' /\ OneDone' /\ Online'
  BY <1>1, <1>2, <1>3 DEF PInv, OnePhone, OneDone, Online, Handling, Idle
<1>5. ~excused => Stored = event.cred /\ sta' \in {Stored, NULL}
  BY <1>1 DEF PInv, Applying, ApplyCredentials, Accepted
<1>6. Tried' /\ Applying'
  BY <1>1, <1>5 DEF Tried, Applying, Stored, Idle
<1>7. AckedWorked' /\ StaModeWorks'
  BY <1>1, <1>2, <1>3 DEF PInv, AckedWorked, StaModeWorks, Stored, Idle
<1> QED BY <1>4, <1>6, <1>7 DEF PInv

\* The handler of the acknowledgement, and its write of the mode.
LEMMA PInvAcknowledged ==
  ASSUME PInv, TypeOK', Early', Acknowledged
  PROVE  PInv'
<1> USE DEF flash, wifi, tasks
<1>1. /\ UNCHANGED <<nvs, sta, radio, smart, joined, excused>> /\ event' = [at |-> "mode"]
      /\ done' = done \cup {group}
      /\ queue # << >> /\ Head(queue).type = "ACK_DONE" /\ queue' = Tail(queue)
  BY DEF Acknowledged, Dispatch
<1>2. queue \in Seq(Events)
  BY DEF PInv, TypeOK
<1>3. ~NoAck
  BY <1>1, <1>2 DEF NoAck
<1>4. smart = "acked" /\ done = {} /\ (~excused => Stored \in joined)
  BY <1>3 DEF PInv, OnePhone, AckedWorked
<1>5. NoGot' /\ NoAck' /\ AtMostOne'
  BY <1>1, <1>2, TakePhone DEF PInv, OnePhone, Phone
<1>6. OnePhone' /\ OneDone' /\ Online'
  BY <1>1, <1>4, <1>5 DEF PInv, OnePhone, OneDone, Online, Handling
<1>7. Tried' /\ Applying' /\ AckedWorked' /\ StaModeWorks'
  BY <1>1, <1>4 DEF PInv, Tried, Applying, AckedWorked, StaModeWorks, Stored
<1> QED BY <1>6, <1>7 DEF PInv

LEMMA PInvSaveMode ==
  ASSUME PInv, TypeOK', Early', SaveMode
  PROVE  PInv'
<1>1. /\ UNCHANGED <<sta, radio, queue, smart, done, joined, excused>> /\ event' = Idle
      /\ event.at = "mode"
  BY DEF SaveMode, tasks
<1>2. Stored' = Stored
  BY DEF PInv, TypeOK, SaveMode, Save, Stored
<1>3. OnePhone' /\ OneDone' /\ Online'
  BY <1>1 DEF PInv, OnePhone, OneDone, Online, NoGot, NoAck, AtMostOne, Handling, Idle
<1>4. Tried' /\ Applying'
  BY <1>1, <1>2 DEF PInv, Tried, Applying, NoGot, Handling, Idle
<1>5. AckedWorked' /\ StaModeWorks'
  BY <1>1, <1>2 DEF PInv, AckedWorked, StaModeWorks, NoAck
<1> QED BY <1>3, <1>4, <1>5 DEF PInv

\* SmartConfig starts when it is off, and stops after the acknowledgement.
LEMMA PInvSmart ==
  ASSUME PInv, TypeOK', Early', SmartBegin \/ SmartOver
  PROVE  PInv'
<1>1. UNCHANGED <<nvs, sta, radio, queue, event, joined, excused>> /\ smart' # "sent"
  BY DEF SmartBegin, SmartOver, flash, wifi
<1>2. NoGot /\ NoAck /\ ~Handling /\ done' = {}
  <2>1. CASE SmartBegin
    BY <2>1 DEF SmartBegin, PInv, OnePhone, OneDone
  <2>2. CASE SmartOver
    <3>1. waiting \in done /\ done' = done \ {waiting}
      BY <2>2 DEF SmartOver
    <3>2. smart = "acked" /\ done' = {}
      BY <3>1 DEF PInv, OneDone
    <3> QED BY <3>1, <3>2 DEF PInv, OnePhone
  <2> QED BY <2>1, <2>2
<1>3. OnePhone' /\ OneDone' /\ Online'
  BY <1>1, <1>2 DEF PInv, OnePhone, OneDone, Online, NoGot, NoAck, AtMostOne, Handling
<1>4. Tried' /\ Applying' /\ AckedWorked' /\ StaModeWorks'
  BY <1>1 DEF PInv, Tried, Applying, AckedWorked, StaModeWorks, Stored, NoAck
<1> QED BY <1>3, <1>4 DEF PInv

\* The phone sends while SmartConfig listens, and hears of it when the device has
\* an address.
LEMMA PInvPhone ==
  ASSUME PInv, TypeOK', Early',
         PhoneAcknowledged \/ \E cred \in Credentials : PhoneSends(cred)
  PROVE  PInv'
<1> USE DEF flash, wifi
<1>1. UNCHANGED <<nvs, sta, radio, event, done, joined, excused>> /\ queue \in Seq(Events)
  BY DEF PhoneAcknowledged, PhoneSends, PInv, TypeOK
<1>2. ASSUME NEW cred \in Credentials, PhoneSends(cred) PROVE PInv'
  <2>1. /\ smart = "listening" /\ smart' = "sent"
        /\ queue' = Append(queue, [type |-> "GOT_SSID_PSWD", cred |-> cred])
    BY <1>2 DEF PhoneSends
  <2>2. NoGot /\ NoAck /\ ~Handling /\ done = {}
    BY <2>1 DEF PInv, OnePhone, OneDone
  <2>3. AtMostOne' /\ ~NoGot' /\ NoAck'
    BY <1>1, <2>1, <2>2, EventTypes, PostPhone DEF Phone
  <2>4. OnePhone' /\ OneDone' /\ Online'
    BY <1>1, <2>1, <2>2, <2>3 DEF PInv, OnePhone, OneDone, Online, Handling
  <2>5. Tried' /\ Applying' /\ AckedWorked' /\ StaModeWorks'
    BY <1>1, <2>3 DEF PInv, Tried, Applying, AckedWorked, StaModeWorks, Stored
  <2> QED BY <2>4, <2>5 DEF PInv
<1>3. CASE PhoneAcknowledged
  <2>1. /\ smart = "sent" /\ smart' = "acked" /\ radio = "online"
        /\ queue' = Append(queue, [type |-> "ACK_DONE"])
    BY <1>3 DEF PhoneAcknowledged, Post
  <2>2. NoGot /\ ~Handling
    BY <1>1, <1>3 DEF PhoneAcknowledged, Handled, NoGot, Handling
  <2>3. NoAck /\ done = {}
    BY <2>1 DEF PInv, OnePhone, OneDone
  <2>4. AtMostOne' /\ NoGot'
    BY <1>1, <2>1, <2>2, <2>3, EventTypes, PostPhone DEF Phone
  <2>5. ~excused => Stored \in joined
    BY <2>1, <2>2 DEF PInv, Tried, Online
  <2>6. OnePhone' /\ OneDone' /\ Online'
    BY <1>1, <2>1, <2>2, <2>3, <2>4 DEF PInv, OnePhone, OneDone, Online, Handling
  <2>7. Tried' /\ Applying' /\ AckedWorked' /\ StaModeWorks'
    BY <1>1, <2>1, <2>5 DEF PInv, Tried, Applying, AckedWorked, StaModeWorks, Stored
  <2> QED BY <2>6, <2>7 DEF PInv
<1> QED BY <1>2, <1>3

LEMMA PInvStep == PInv /\ [Next]_vars => PInv'
<1> SUFFICES ASSUME PInv, [Next]_vars PROVE PInv'
  OBVIOUS
<1>1. TypeOK'
  BY TypeStep DEF PInv
<1>2. CASE UNCHANGED vars
  <2>1. UNCHANGED <<nvs, sta, radio, queue, event, smart, done, joined, excused, pc,
                    handlers, created>>
    BY <1>2 DEF vars
  <2>2. Early' /\ Online'
    BY <2>1 DEF PInv, Early, Online
  <2> QED BY <1>1, <2>1, <2>2, PInvQuiet
<1>3. CASE Next
  <2>1. Early'
    BY <1>3, EarlyStep
  <2>2. CASE AppMain
    BY <1>1, <2>1, <2>2, PInvQuietStep, PInvWifiInit DEF AppMain
  <2>3. CASE \/ \E p \in Procs : Starter(p)
             \/ Joins \/ Refused \/ Lost
    BY <1>1, <2>1, <2>3, PInvQuietStep
  <2>4. CASE ConfigMode \/ \E p \in Starters : BackToSmartConfig(p)
    <3>1. /\ Save("mode", "SMART_CONFIG")
          /\ excused' = (excused \/ Failed("mode", "SMART_CONFIG"))
          /\ UNCHANGED <<sta, radio, queue, event, smart, done, joined>>
      BY <2>4 DEF ConfigMode, BackToSmartConfig, tasks
    <3> QED BY <1>1, <2>1, <3>1, PInvBack
  <2>5. CASE ConfigPassword
    BY <1>1, <2>1, <2>5, PInvConfig
  <2>6. CASE EventLoop
    BY <1>1, <2>1, <2>6, PInvQuietStep, PInvCredentials, PInvApply, PInvReset,
       PInvAcknowledged, PInvSaveMode DEF EventLoop, ApplyAborts
  <2>7. CASE SmartTask
    BY <1>1, <2>1, <2>7, PInvSmart, PInvReset DEF SmartTask, SmartAborts
  <2>8. CASE PhoneAcknowledged \/ \E cred \in Credentials : PhoneSends(cred)
    BY <1>1, <2>1, <2>8, PInvPhone
  <2>9. CASE Reset
    BY <2>9, PInvReset
  <2> QED BY <1>3, <2>2, <2>3, <2>4, <2>5, <2>6, <2>7, <2>8, <2>9 DEF Next
<1> QED BY <1>2, <1>3

\* The device boots in mode STA only with credentials that have got it an address,
\* wherever a reset falls between the writes of smart_config.c and whoever starts
\* SmartConfig again meanwhile.
THEOREM StaModeIsTrue == Spec => []StaModeWorks
<1>1. PInv => StaModeWorks
  BY DEF PInv
<1> QED BY <1>1, PInvInit, PInvStep, PTL DEF Spec
=============================================================================
