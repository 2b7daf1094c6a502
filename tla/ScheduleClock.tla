---------------------------- MODULE ScheduleClock ----------------------------
(***************************************************************************)
(* When a schedule acts: task_schedule (main/task/schedule/schedule.c)     *)
(* beside the clock of NtpTime and the tasks that switch the same relays.  *)
(*                                                                         *)
(* The task looks at the clock, does what its minute asks for, and sleeps  *)
(* one second.  Its flags are what parse_code read from the 13 characters; *)
(* a code of another length leaves them as the stack has them, so any plan *)
(* is possible then too.  What a drive and a notification consist of is in *)
(* RelayControl: here a drive is one step, and a notification lasts as     *)
(* long as the websocket client's lock is held by others.                  *)
(*                                                                         *)
(* Time passes while the task sleeps or waits for the lock; while it could *)
(* run it passes too, at most Slack seconds in one round.                  *)
(***************************************************************************)
EXTENDS NtpTime, Sequences

CONSTANTS
  RelaySeq,  \* the indexes of device.relayModules, in order
  Plans,     \* what codes and time_24h can say
  COUNT,     \* rounds a schedule that has fired once still lives
  Slack,     \* seconds in which a round may be kept from running
  NULL

Relays == {RelaySeq[k] : k \in DOMAIN RelaySeq}

ASSUME ScheduleClockAssumption ==
  /\ RelaySeq \in Seq(Relays)
  /\ \A k, l \in DOMAIN RelaySeq : k # l => RelaySeq[k] # RelaySeq[l]
  /\ Plans \subseteq [active : BOOLEAN, on : BOOLEAN, relays : SUBSET Relays,
                      once : BOOLEAN, days : SUBSET (0 .. Days - 1), minute : Nat]
  /\ NULL \notin Plans
  /\ COUNT \in Nat /\ Slack \in Nat
  /\ Minutes > 1
  /\ Seconds > 2 * Slack  \* a minute leaves time to look, however late two rounds are

VARIABLES
  plan,      \* is_active, is_open, relay_chosen, is_once, days_selected, time_24
  pc,        \* where the task is
  next,      \* i of the loop over the relays
  status,    \* relay->status
  complete,
  count,
  delay,     \* seconds left of vTaskDelay
  late,      \* seconds this round has been kept from running
  steady,    \* history: this round's look at the clock was right, and still is
  calm,      \* history: nothing has disturbed the task since its minute began
  toggled,   \* history: relays others have switched since it last checked them
             \* in a calm minute
  switched   \* history: relays a schedule that fires once has switched

taskVars == <<plan, pc, next, status, complete, count, delay, late>>
history  == <<steady, calm, toggled, switched>>
vars     == <<ntpVars, taskVars, history>>

Labels  == {"start", "top", "relay", "send", "report", "end", "sleep", "gone", "abort"}
Blocked == pc \in {"send", "report"}
Ready   == pc \in {"top", "relay", "end"} \/ (pc = "sleep" /\ delay = 0)

Init ==
  /\ NtpInit
  /\ plan = NULL /\ pc = "start" /\ next = 1
  /\ status = [r \in Relays |-> FALSE]
  /\ complete = FALSE /\ count = COUNT
  /\ delay = 0 /\ late = 0
  /\ steady = FALSE /\ calm = FALSE /\ toggled = {} /\ switched = {}

-----------------------------------------------------------------------------
(***************************************************************************)
(* Mutants: the bugs the properties are tested against.                    *)
(***************************************************************************)

\* vTaskDelay takes milliseconds for ticks: the task sleeps for minutes.
SleepLong ==
  /\ pc = "end" /\ ~(complete /\ count = 0)
  /\ count' = IF complete THEN count - 1 ELSE count
  /\ delay' = Seconds /\ late' = 0
  /\ pc' = "sleep"
  /\ UNCHANGED <<plan, next, status, complete, ntpVars, history>>

\* complete is not set: the schedule goes on as long as its minute lasts.
ReportOnly ==
  /\ pc = "report"
  /\ pc' = "end"
  /\ UNCHANGED <<plan, next, status, complete, count, delay, late, ntpVars, history>>

\* count-- is forgotten.
SleepUncounted ==
  /\ pc = "end" /\ ~(complete /\ count = 0)
  /\ delay' = 1 /\ late' = 0
  /\ pc' = "sleep"
  /\ UNCHANGED <<plan, next, status, complete, count, ntpVars, history>>

\* The loop is not left when count is 0.
SleepPastZero ==
  /\ pc = "end"
  /\ count' = IF complete THEN count - 1 ELSE count
  /\ delay' = 1 /\ late' = 0
  /\ pc' = "sleep"
  /\ UNCHANGED <<plan, next, status, complete, ntpVars, history>>

-----------------------------------------------------------------------------
(* task_schedule                                                           *)

\* parse_code and strcpy(time_24, ...).
ScheduleStart ==
  /\ pc = "start"
  /\ plan' \in Plans
  /\ pc' = "top"
  /\ UNCHANGED <<next, status, complete, count, delay, late, ntpVars, history>>

\* strcmp(current_time_str, time_24) == 0 && !complete && is_active
Due == MinuteOf(local) = plan.minute /\ ~complete /\ plan.active

\* The top of the loop.
ReadMinute ==
  /\ pc = "top"
  /\ pc' = IF Due THEN "relay" ELSE "end"
  /\ next' = 1
  /\ steady' = (Due /\ valid /\ zone)
  /\ UNCHANGED <<plan, status, complete, count, delay, late, calm, toggled, switched,
                 ntpVars>>

\* The day is looked up for each relay anew, when its turn comes.
Wants(r) == r \in plan.relays /\ (plan.once \/ is_today_selected(plan.days))

Drive ==
  /\ pc = "relay" /\ next <= Len(RelaySeq)
  /\ LET r == RelaySeq[next] IN
     /\ Wants(r) /\ status[r] # plan.on
     /\ status' = [status EXCEPT ![r] = plan.on]
     /\ toggled' = toggled \ {r}
     /\ switched' = IF plan.once THEN switched \cup {r} ELSE {}
  /\ pc' = "send"
  /\ UNCHANGED <<plan, next, complete, count, delay, late, steady, calm, ntpVars>>

\* handle_update_relay_from_device returns.
Notified ==
  /\ pc = "send"
  /\ pc' = "relay" /\ next' = next + 1
  /\ UNCHANGED <<plan, status, complete, count, delay, late, ntpVars, history>>

Skip ==
  /\ pc = "relay" /\ next <= Len(RelaySeq)
  /\ LET r == RelaySeq[next] IN
     /\ ~(Wants(r) /\ status[r] # plan.on)
     /\ toggled' = IF Wants(r) THEN toggled \ {r} ELSE toggled
  /\ next' = next + 1
  /\ UNCHANGED <<plan, pc, status, complete, count, delay, late, steady, calm, switched,
                 ntpVars>>

\* After the relays: a schedule that fires once allocates a copy of its id and
\* reports it.  If malloc fails the task function returns, and FreeRTOS aborts.
RelaysDone ==
  /\ pc = "relay" /\ next > Len(RelaySeq)
  /\ pc' \in IF plan.once THEN {"report", "abort"} ELSE {"end"}
  /\ steady' = FALSE
  /\ UNCHANGED <<plan, next, status, complete, count, delay, late, calm, toggled,
                 switched, ntpVars>>

\* handle_update_schedule returns.
Reported ==
  /\ pc = "report"
  /\ complete' = TRUE
  /\ pc' = "end"
  /\ UNCHANGED <<plan, next, status, count, delay, late, ntpVars, history>>

Sleep ==
  /\ pc = "end" /\ ~(complete /\ count = 0)
  /\ count' = IF complete THEN count - 1 ELSE count
  /\ delay' = 1 /\ late' = 0
  /\ pc' = "sleep"
  /\ UNCHANGED <<plan, next, status, complete, ntpVars, history>>

Wake ==
  /\ pc = "sleep" /\ delay = 0
  /\ pc' = "top"
  /\ UNCHANGED <<plan, next, status, complete, count, delay, late, ntpVars, history>>

\* delete_task of its own id and vTaskDelete(NULL), which TaskManager models.
Finish ==
  /\ pc = "end" /\ complete /\ count = 0
  /\ pc' = "gone"
  /\ UNCHANGED <<plan, next, status, complete, count, delay, late, ntpVars, history>>

-----------------------------------------------------------------------------
(* What goes on around the task.                                           *)

\* The button, the server or the overcurrent trip switches a relay.
OthersSwitch(r) ==
  /\ pc # "abort"
  /\ status' = [status EXCEPT ![r] = ~@]
  /\ toggled' = IF calm THEN toggled \cup {r} ELSE {}
  /\ UNCHANGED <<plan, pc, next, complete, count, delay, late, steady, calm, switched,
                 ntpVars>>

\* A second passes.
Tick ==
  /\ pc # "abort"
  /\ Ready => late < Slack
  /\ late' = IF Ready THEN late + 1 ELSE late
  /\ delay' = IF delay = 0 THEN 0 ELSE delay - 1
  /\ Advance
  /\ steady' = (steady /\ ~Blocked)
  /\ IF MinuteOf(local') # MinuteOf(local)
       THEN /\ calm' = (/\ valid /\ zone /\ ~Blocked /\ pc # "start"
                       /\ MinuteOf(local') = plan.minute)
            /\ toggled' = {}
       ELSE /\ calm' = (calm /\ ~Blocked)
            /\ toggled' = IF calm' THEN toggled ELSE {}
  /\ UNCHANGED <<plan, pc, next, status, complete, count, switched>>

\* What moves the clock or its zone: app_main at any time, and the time server.
ClockSet ==
  /\ pc # "abort"
  /\ BeginObtain \/ SetTime \/ SntpAnswers
  /\ steady' = FALSE /\ calm' = FALSE /\ toggled' = {}
  /\ UNCHANGED <<taskVars, switched>>

ObtainGoesOn ==
  /\ pc # "abort"
  /\ Wait \/ ReadTime \/ GiveUp
  /\ UNCHANGED <<taskVars, history>>

\* The chip is reset, and the next boot is another behaviour.
Aborted == pc = "abort" /\ UNCHANGED vars

Round ==
  \/ ReadMinute \/ Drive \/ Notified \/ Skip \/ RelaysDone \/ Reported
  \/ Sleep \/ Wake \/ Finish

Next ==
  \/ ScheduleStart \/ Round
  \/ \E r \in Relays : OthersSwitch(r)
  \/ Tick \/ ClockSet \/ ObtainGoesOn
  \/ Aborted

Spec == Init /\ [][Next]_vars

(***************************************************************************)
(* Time passes, the scheduler runs every task that can go on, and the lock *)
(* of the client is given back (RelayControl says when it is not).         *)
(* Nothing is assumed of the user, the time server or when app_main gets   *)
(* to obtain_time.                                                         *)
(***************************************************************************)
FairSpec ==
  /\ Spec
  /\ WF_vars(Tick) /\ WF_vars(Round)
  /\ WF_vars(ObtainStep /\ (ObtainGoesOn \/ ClockSet))

-----------------------------------------------------------------------------
\* Types of the clock, of the task's locals and of the relays.
TypeOK ==
  /\ NtpTypeOK
  /\ plan \in Plans \cup {NULL} /\ (plan = NULL <=> pc = "start")
  /\ pc \in Labels /\ next \in 1 .. Len(RelaySeq) + 1
  /\ status \in [Relays -> BOOLEAN]
  /\ complete \in BOOLEAN /\ count \in 0 .. COUNT
  /\ delay \in Nat /\ late \in 0 .. Slack
  /\ steady \in BOOLEAN /\ calm \in BOOLEAN
  /\ toggled \subseteq Relays /\ switched \subseteq Relays

\* The time k seconds ago.
Ago(k) == (local + Week - (k % Week)) % Week

\* A schedule drives a relay only in its minute or within Slack seconds of it, and
\* a weekly one only if one of its days has been within those seconds, unless the
\* round has waited for the lock or the clock was wrong, in UTC or moved.  (Minute
\* and day are two looks at the clock: around midnight they can disagree.)
DrivesOnTime ==
  [][steady /\ status' # status /\ Drive =>
       /\ \E k \in 0 .. Slack : MinuteOf(Ago(k)) = plan.minute
       /\ plan.once \/ \E k \in 0 .. Slack : DayOf(Ago(k)) \in plan.days]_vars

\* No minute goes by unseen: when an active schedule's minute ends that it lived
\* through without waiting for the lock, on a clock that nobody moved, one that
\* fires once has fired, and a weekly one, on its days, leaves every relay it
\* chose as it says, even those others have switched, but after its last look.
MinuteServed ==
  [][Tick /\ calm /\ ~Blocked /\ plan.active /\ MinuteOf(local') # plan.minute =>
       IF plan.once THEN complete
       ELSE DayOf(local) \in plan.days =>
              \A r \in plan.relays : status[r] = plan.on \/ r \in toggled]_vars

\* A schedule that fires once switches each relay once: when the user switches it
\* back within the minute, or the clock is moved back, it stays so.
OnceLetsGo ==
  [][plan # NULL /\ plan.once /\ Drive => RelaySeq[next] \notin switched]_vars

\* A schedule that has fired ends, and frees its place in the registry.
OnceEnds == complete ~> pc = "gone"

\* app_main gets past obtain_time, whether the time server answers or not.
ObtainReturns ==
  obtain \in {"check", "wait"} ~> obtain \in {"synced", "unsynced"} \/ pc = "abort"
=============================================================================
