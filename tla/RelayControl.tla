---------------------------- MODULE RelayControl ----------------------------
(***************************************************************************)
(* The relays and the tasks that drive them: the button task, the          *)
(* websocket client task (updateRelay), the AC-measure task (overcurrent)  *)
(* and the schedule tasks.  Driving a relay writes its GPIO and then its   *)
(* status (main/device/device.c), with no lock; each task then notifies    *)
(* the server through the websocket client, whose lock it waits for        *)
(* without limit (portMAX_DELAY).                                          *)
(*                                                                         *)
(* What a task still has to do in its current round is a sequence of       *)
(* operations, executed one at a time: other tasks run in between.         *)
(***************************************************************************)
EXTENDS Naturals, Sequences, Functions

CONSTANTS
  RelaySeq,   \* the indexes of device.relayModules, in order
  ActiveLow,  \* the relays that close on level 0 (index 2)
  Schedules,  \* the schedule tasks
  Plans,      \* what the schedules do: [relays, on, once], parsed from their codes
  NULL

Relays == Range(RelaySeq)
Actors == {"button", "ws", "ac"} \cup Schedules
Lost   == "lost"  \* the lock of the client is held by a deleted task

ASSUME RelayControlAssumption ==
  /\ RelaySeq \in Seq(Nat)
  /\ \A k, l \in DOMAIN RelaySeq : k # l => RelaySeq[k] # RelaySeq[l]
  /\ Schedules \cap {"button", "ws", "ac", Lost} = {}
  /\ NULL \notin Actors \cup {Lost} /\ NULL \notin BOOLEAN
  /\ Plans \subseteq [relays : SUBSET Relays, on : BOOLEAN, once : BOOLEAN]

VARIABLES
  gpio,       \* output level of each relay's pin
  status,     \* relay->status
  todo,       \* what each task still has to do in its round
  lock,       \* holder of the websocket client's lock
  view,       \* the last status the server was notified of
  torn,       \* history: the last drive of the relay was not alone, or was cut
  lastDriver  \* history: the task that wrote the status last

vars == <<gpio, status, todo, lock, view, torn, lastDriver>>

Closed(r) == gpio[r] = IF r \in ActiveLow THEN 0 ELSE 1

Op(op, r, on)  == [op |-> op, relay |-> r, on |-> on]
Drive(r, on)   == Op("gpio", r, on)          \* then "status", see WriteGpio
Notify(r, on)  == Op("notify", r, on)
Report         == Op("report", NULL, FALSE)  \* handle_update_schedule
DriveAll(on)   == [k \in DOMAIN RelaySeq |-> Drive(RelaySeq[k], on)]
NotifyAll(on)  == [k \in DOMAIN RelaySeq |-> Notify(RelaySeq[k], on)]

At(p, op)  == todo[p] # << >> /\ Head(todo[p]).op = op
Sending(p) == At(p, "notify") \/ At(p, "report")
\* The tasks between the two writes of a drive of r.
Driving(r) == {p \in Actors : At(p, "status") /\ Head(todo[p]).relay = r}

\* After device_init, every relay is open.
Init ==
  /\ gpio = [r \in Relays |-> IF r \in ActiveLow THEN 1 ELSE 0]
  /\ status = [r \in Relays |-> FALSE]
  /\ todo = [p \in Actors |-> << >>]
  /\ lock = NULL
  /\ view = [r \in Relays |-> NULL]
  /\ torn = [r \in Relays |-> FALSE]
  /\ lastDriver = [r \in Relays |-> NULL]

-----------------------------------------------------------------------------
(* What starts a round.                                                    *)

Begin(p, program) ==
  /\ todo[p] = << >>
  /\ todo' = [todo EXCEPT ![p] = program]
  /\ UNCHANGED <<gpio, status, view, torn, lastDriver>>

\* handle_button_press: all on if any is off, else all off.
ButtonPress ==
  /\ Begin("button", [k \in DOMAIN RelaySeq |-> Op("test", RelaySeq[k], FALSE)])
  /\ UNCHANGED lock

\* A sample of at least 1500 mA.
Overcurrent == Begin("ac", DriveAll(FALSE) \o NotifyAll(FALSE)) /\ UNCHANGED lock

\* One second of a schedule's minute: each relay in turn is checked, or skipped
\* because it was not chosen or, if the schedule is weekly, because by then the
\* day is not one of its days.  A schedule that fires once then reports its id.
ScheduleRound(h, plan) ==
  /\ \E now \in IF plan.once THEN {plan.relays} ELSE SUBSET plan.relays :
       Begin(h, [k \in DOMAIN RelaySeq |->
                   Op(IF RelaySeq[k] \in now THEN "check" ELSE "skip",
                      RelaySeq[k], plan.on)]
                \o (IF plan.once THEN <<Report>> ELSE << >>))
  /\ UNCHANGED lock

\* updateRelay with status s: update_relay turns the relay on when s is 0, and
\* the answer repeats s.  The client task holds its lock while it dispatches.
UpdateRelay(r, s) ==
  /\ lock = NULL /\ lock' = "ws"
  /\ Begin("ws", <<Drive(r, ~s), Notify(r, s)>>)

\* updateSchedule: the report is sent back.  The answers to createSchedule and
\* deleteSchedule are sent in the same way.
UpdateSchedule ==
  /\ lock = NULL /\ lock' = "ws"
  /\ Begin("ws", <<Report>>)

\* The server's view after a message: a report says nothing of the relays.
Delivered(o) == IF o.op = "notify" THEN [view EXCEPT ![o.relay] = o.on] ELSE view

\* todo without its head, preceded by more.
Continue(p, more) == todo' = [todo EXCEPT ![p] = more \o Tail(@)]

-----------------------------------------------------------------------------
(***************************************************************************)
(* Mutants: the bugs the properties are tested against.                    *)
(***************************************************************************)

\* turnOffRelay and turnOnRelay forget that relay index 2 is inverted.
WriteGpioDirect(p) ==
  /\ At(p, "gpio")
  /\ LET o == Head(todo[p]) IN
     /\ gpio' = [gpio EXCEPT ![o.relay] = IF o.on THEN 1 ELSE 0]
     /\ torn' = [torn EXCEPT ![o.relay] = Driving(o.relay) # {}]
     /\ Continue(p, <<Op("status", o.relay, o.on)>>)
  /\ UNCHANGED <<status, lock, view, lastDriver>>

\* The schedule always notifies that the relay is on.
CheckNotifiesOn(h) ==
  /\ At(h, "check")
  /\ LET o == Head(todo[h]) IN
     Continue(h, IF status[o.relay] = o.on THEN << >>
                 ELSE <<Drive(o.relay, o.on), Notify(o.relay, TRUE)>>)
  /\ UNCHANGED <<gpio, status, lock, view, torn, lastDriver>>

\* The send returns without giving the lock back.
SendKeepsLock(p) ==
  /\ Sending(p) /\ lock = p
  /\ view' \in {view, Delivered(Head(todo[p]))}
  /\ Continue(p, << >>)
  /\ UNCHANGED <<gpio, status, lock, torn, lastDriver>>

\* The button tests the statuses again and again until one is off.
TestForever(p) ==
  /\ At(p, "test")
  /\ IF ~status[Head(todo[p]).relay]
       THEN todo' = [todo EXCEPT ![p] = DriveAll(TRUE) \o NotifyAll(TRUE)]
       ELSE todo' = [todo EXCEPT ![p] = Append(Tail(@), Head(@))]
  /\ UNCHANGED <<gpio, status, lock, view, torn, lastDriver>>

\* The pin is set to the number of the relay.
WriteGpioIndex(p) ==
  /\ At(p, "gpio")
  /\ LET o == Head(todo[p]) IN
     /\ gpio' = [gpio EXCEPT ![o.relay] = o.relay]
     /\ torn' = [torn EXCEPT ![o.relay] = Driving(o.relay) # {}]
     /\ Continue(p, <<Op("status", o.relay, o.on)>>)
  /\ UNCHANGED <<status, lock, view, lastDriver>>

-----------------------------------------------------------------------------
(* The steps of a round.                                                   *)

\* One operand of the condition of handle_button_press.
TestStatus(p) ==
  /\ At(p, "test")
  /\ LET last == Len(todo[p]) = 1 IN
     IF ~status[Head(todo[p]).relay]
       THEN todo' = [todo EXCEPT ![p] = DriveAll(TRUE) \o NotifyAll(TRUE)]
       ELSE Continue(p, IF last THEN DriveAll(FALSE) \o NotifyAll(FALSE) ELSE << >>)
  /\ UNCHANGED <<gpio, status, lock, view, torn, lastDriver>>

\* The schedule drives a relay only when its status differs.
CheckStatus(h) ==
  /\ At(h, "check")
  /\ LET o == Head(todo[h]) IN
     Continue(h, IF status[o.relay] = o.on THEN << >>
                 ELSE <<Drive(o.relay, o.on), Notify(o.relay, o.on)>>)
  /\ UNCHANGED <<gpio, status, lock, view, torn, lastDriver>>

SkipRelay(h) ==
  /\ At(h, "skip")
  /\ Continue(h, << >>)
  /\ UNCHANGED <<gpio, status, lock, view, torn, lastDriver>>

\* gpio_set_level, with the inverted level of relay index 2; the status is next.
WriteGpio(p) ==
  /\ At(p, "gpio")
  /\ LET o == Head(todo[p]) IN
     /\ gpio' = [gpio EXCEPT ![o.relay] =
                   IF o.on = (o.relay \in ActiveLow) THEN 0 ELSE 1]
     /\ torn' = [torn EXCEPT ![o.relay] = Driving(o.relay) # {}]
     /\ Continue(p, <<Op("status", o.relay, o.on)>>)
  /\ UNCHANGED <<status, lock, view, lastDriver>>

WriteStatus(p) ==
  /\ At(p, "status")
  /\ LET o == Head(todo[p]) IN
     /\ status' = [status EXCEPT ![o.relay] = o.on]
     /\ lastDriver' = [lastDriver EXCEPT ![o.relay] = p]
  /\ Continue(p, << >>)
  /\ UNCHANGED <<gpio, lock, view, torn>>

\* esp_websocket_client_send_text returns at once when the client is not
\* connected; the error is logged and the notification is gone.
NotifyFails(p) ==
  /\ Sending(p) /\ lock # p
  /\ Continue(p, << >>)
  /\ UNCHANGED <<gpio, status, lock, view, torn, lastDriver>>

Acquire(p) ==
  /\ Sending(p) /\ lock = NULL
  /\ lock' = p
  /\ UNCHANGED <<gpio, status, todo, view, torn, lastDriver>>

\* The frame is written, or the write fails.  The client task's own lock is
\* recursive and ends with its handler.
Send(p) ==
  /\ Sending(p) /\ lock = p
  /\ view' \in {view, Delivered(Head(todo[p]))}
  /\ lock' = NULL
  /\ Continue(p, << >>)
  /\ UNCHANGED <<gpio, status, torn, lastDriver>>

\* delete_task of another task calls vTaskDelete on the schedule's task, wherever
\* it is by then (the state it checked is old); what it holds is never given back.
\* The handlers of the client task hold the lock themselves.  A task created
\* later takes the place of h.
Kill(h) ==
  /\ todo' = [todo EXCEPT ![h] = << >>]
  /\ torn' = [r \in Relays |-> torn[r] \/ h \in Driving(r)]
  /\ lock' = IF lock = h THEN Lost ELSE lock
  /\ UNCHANGED <<gpio, status, view, lastDriver>>

\* A step of a task that is in its round.
Proceed(p) ==
  \/ TestStatus(p) \/ CheckStatus(p) \/ SkipRelay(p)
  \/ WriteGpio(p) \/ WriteStatus(p)
  \/ Acquire(p) \/ Send(p)

Next ==
  \/ ButtonPress \/ Overcurrent
  \/ \E h \in Schedules, plan \in Plans : ScheduleRound(h, plan)
  \/ \E r \in Relays, s \in BOOLEAN : UpdateRelay(r, s)
  \/ UpdateSchedule
  \/ \E p \in Actors : Proceed(p) \/ NotifyFails(p)
  \/ \E h \in Schedules : Kill(h)

Spec == Init /\ [][Next]_vars

(***************************************************************************)
(* Every task runs on; a waiting task gets the lock if it is given back    *)
(* again and again, because FreeRTOS queues the waiters of a mutex and the *)
(* client task polls its socket between two takes.  Nothing is assumed of  *)
(* buttons, currents, schedules, the server or deletes.                    *)
(***************************************************************************)
FairSpec ==
  /\ Spec
  /\ WF_vars(Proceed("ws"))
  /\ \A p \in Actors \ {"ws"} : SF_vars(Proceed(p))

-----------------------------------------------------------------------------
Operations == [op : {"test", "check", "skip", "gpio", "status", "notify", "report"},
               relay : Relays \cup {NULL}, on : BOOLEAN]

\* Types of the relays, of the rounds and of the server's view.
TypeOK ==
  /\ gpio \in [Relays -> {0, 1}] /\ status \in [Relays -> BOOLEAN]
  /\ todo \in [Actors -> Seq(Operations)]
  /\ lock \in Actors \cup {NULL, Lost}
  /\ view \in [Relays -> BOOLEAN \cup {NULL}]
  /\ torn \in [Relays -> BOOLEAN]
  /\ lastDriver \in [Relays -> Actors \cup {NULL}]

\* The contact is where the status says, once the drives of the relay are over,
\* unless the last one ran into another or was cut by a delete; and one drive
\* that runs alone heals what earlier ones have left.
PinFollowsStatus ==
  \A r \in Relays : ~torn[r] /\ Driving(r) = {} => (Closed(r) <=> status[r])

\* When the task that drove a relay last has got its notification through, the
\* server shows the status: only a notification of an earlier driver that
\* arrives later, or a lost one, makes it wrong (updateRelay's answers aside).
ViewFollowsDriver ==
  [][\A p \in Actors \ {"ws"}, r \in Relays :
       lastDriver[r] = p /\ view'[r] # view[r] /\ Send(p)
         => view'[r] = status[r]]_vars

\* The lock is given back by the task that took it, unless a schedule was deleted
\* while it sent: a task that is not notifying does not keep others from it.
LockHolderSends ==
  \A p \in Actors : lock = p => todo[p] # << >> /\ (p # "ws" => Sending(p))

\* Every round ends, the overcurrent trip's among them, unless a delete has taken
\* the lock away for ever: then it waits in send_text and no sample follows.
RoundsEnd ==
  \A p \in Actors : todo[p] # << >> ~> todo[p] = << >> \/ lock = Lost

\* "Relay %d turned ON" (web_socket.c:55): the answer to updateRelay tells the
\* server what the other notifications tell it, 1 for a relay that is on.
UpdateAnswersStatus ==
  [][\A r \in Relays :
       lastDriver[r] = "ws" /\ view'[r] # view[r] /\ Send("ws")
         => view'[r] = status[r]]_vars
=============================================================================
