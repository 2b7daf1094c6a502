------------------------------- MODULE AppMain -------------------------------
(***************************************************************************)
(* What app_main (main/main.c) does once WiFi is up, in its order: the     *)
(* websocket client (WebSocketLink, which this module extends), the local  *)
(* web server, two HTTP requests to the server, obtain_time (NtpTime), and *)
(* the AC-measure task (main/task/ac-measure), which opens the relays when *)
(* the current is too high and posts what it has measured.                 *)
(*                                                                         *)
(* A behaviour is one boot.  The relays are taken together: on says        *)
(* whether any of them is closed.  The button, the schedules and the       *)
(* server switch them from the start.                                      *)
(***************************************************************************)
EXTENDS WebSocketLink

CONSTANTS
  SAMPLES_PER_SECOND,  \* length of data_buffer
  Limit,               \* current at which the relays are opened
  Currents             \* what the line can draw, and what the stack can hold

ASSUME AppMainAssumption ==
  /\ SAMPLES_PER_SECOND \in Nat \ {0}
  /\ Limit \in Nat \ {0} /\ Currents \subseteq Nat
  /\ NULL \notin Nat

VARIABLES
  stage,       \* where app_main is
  ac,          \* where acmeasure_task is
  data_index,
  current,     \* the sample, until it has been compared
  on,          \* some relay is closed
  drawn,       \* history: what the line drew at the last sample, NULL if the
               \* sensor could not be read
  unposted,    \* history: the entries of data_buffer written since the last post
  opened       \* history: the relays have been opened since the last sample

acVars  == <<ac, data_index, current, drawn, unposted, opened>>
appVars == <<stage, acVars, on>>
allVars == <<vars, appVars>>

Stages  == {"websocket", "webserver", "device", "relays", "time", "measure", "loop"}
Rounds  == {"none", "sample", "check", "trip", "notify", "full", "post", "sleep", "abort"}
Indexes == 0 .. SAMPLES_PER_SECOND - 1

\* exit() resets the chip: nothing runs any more.
Running == ac # "abort"

AppInit ==
  /\ Init
  /\ stage = "websocket"
  /\ ac = "none" /\ data_index = 0 /\ current = 0
  /\ on = FALSE /\ drawn = NULL
  /\ unposted = {} /\ opened = FALSE

-----------------------------------------------------------------------------
(***************************************************************************)
(* Mutants: the bugs the properties are tested against.                    *)
(***************************************************************************)

\* The reset of the index is left to the posts that succeed.
PostKeepsIndex ==
  /\ ac = "post"
  /\ \/ reachable /\ data_index' = 0 /\ unposted' = {}
     \/ UNCHANGED <<data_index, unposted>>
  /\ ac' = "sleep"
  /\ UNCHANGED <<stage, current, drawn, on, opened, vars>>

\* The buffer is posted one sample too late.
FullLate ==
  /\ ac = "full"
  /\ ac' \in IF data_index > SAMPLES_PER_SECOND THEN {"post", "abort"} ELSE {"sleep"}
  /\ UNCHANGED <<stage, data_index, current, drawn, on, unposted, opened, vars>>

\* A post that fails is repeated until it succeeds.
PostRepeats ==
  /\ ac = "post" /\ reachable
  /\ data_index' = 0 /\ unposted' = {}
  /\ ac' = "sleep"
  /\ UNCHANGED <<stage, current, drawn, on, opened, vars>>

\* The current has to exceed the limit.
CheckAbove ==
  /\ ac = "check"
  /\ ac' = IF current > Limit THEN "trip" ELSE "full"
  /\ current' = 0
  /\ UNCHANGED <<stage, data_index, drawn, on, unposted, opened, vars>>

\* obtain_time waits for an answer of the time server.
TimeNeedsNetwork ==
  /\ stage = "time" /\ reachable
  /\ stage' = "measure"
  /\ UNCHANGED <<acVars, on, vars>>

-----------------------------------------------------------------------------
(* app_main                                                                *)

\* The link's own steps go on beside the program's.
Link(A) == Running /\ A /\ UNCHANGED appVars

\* websocket_app_start has returned.
WebsocketStarted ==
  /\ stage = "websocket" /\ starter[Main] = "none"
  /\ stage' = "webserver"
  /\ UNCHANGED <<acVars, on, vars>>

\* web_server_init only logs that the server could not be started.
ServerStarted ==
  /\ stage = "webserver"
  /\ stage' = "device"
  /\ UNCHANGED <<acVars, on, vars>>

\* Whatever comes of a request, only the log shows it.
Request(from, to) ==
  /\ stage = from
  /\ stage' = to
  /\ UNCHANGED <<acVars, on, vars>>

send_device_data == Request("device", "relays")

post_relay_to_api == Request("relays", "time")

\* obtain_time has returned.
TimeObtained ==
  /\ stage = "time"
  /\ stage' = "measure"
  /\ UNCHANGED <<acVars, on, vars>>

\* acmeasure_init: without the I2C driver, or without memory for the task, the
\* device runs on unprotected.
MeasureStarted ==
  /\ stage = "measure"
  /\ stage' = "loop"
  /\ ac' \in {"none", "sample"}
  /\ UNCHANGED <<data_index, current, drawn, on, unposted, opened, vars>>

AppMainStep ==
  \/ WebsocketStarted \/ ServerStarted \/ send_device_data \/ post_relay_to_api
  \/ TimeObtained \/ MeasureStarted

-----------------------------------------------------------------------------
(* acmeasure_task                                                          *)

\* What UNIT_ACMEASURE_getCurrent returns, beside what the line draws.  When a read
\* fails readBytes only logs it: the result is what the stack holds.
Readings ==
  {[line |-> c, data |-> c] : c \in IF on THEN Currents ELSE {0}}
    \cup {[line |-> NULL, data |-> c] : c \in Currents}

\* The registers are read and the sample is stored.
Sample ==
  /\ ac = "sample"
  /\ \E reading \in Readings : drawn' = reading.line /\ current' = reading.data
  /\ unposted' = unposted \cup {data_index}
  /\ data_index' = data_index + 1
  /\ opened' = FALSE
  /\ ac' = "check"
  /\ UNCHANGED <<stage, on, vars>>

Check ==
  /\ ac = "check"
  /\ ac' = IF current >= Limit THEN "trip" ELSE "full"
  /\ current' = 0
  /\ UNCHANGED <<stage, data_index, drawn, on, unposted, opened, vars>>

\* turnOffRelay of each relay.
Trip ==
  /\ ac = "trip"
  /\ on' = FALSE /\ opened' = TRUE
  /\ ac' = "notify"
  /\ UNCHANGED <<stage, data_index, current, drawn, unposted, vars>>

\* The three notifications have been sent, or were refused.
Notified ==
  /\ ac = "notify"
  /\ ac' = "full"
  /\ UNCHANGED <<stage, data_index, current, drawn, on, unposted, opened, vars>>

\* A full buffer is posted; if malloc fails the program exits.
Full ==
  /\ ac = "full"
  /\ ac' \in IF data_index >= SAMPLES_PER_SECOND THEN {"post", "abort"} ELSE {"sleep"}
  /\ UNCHANGED <<stage, data_index, current, drawn, on, unposted, opened, vars>>

\* esp_http_client_perform returns: the buffer is emptied even if the post failed.
Post ==
  /\ ac = "post"
  /\ data_index' = 0 /\ unposted' = {}
  /\ ac' = "sleep"
  /\ UNCHANGED <<stage, current, drawn, on, opened, vars>>

\* vTaskDelay(50) is over.
NextRound ==
  /\ ac = "sleep"
  /\ ac' = "sample"
  /\ UNCHANGED <<stage, data_index, current, drawn, on, unposted, opened, vars>>

Measure == Sample \/ Check \/ Trip \/ Notified \/ Full \/ Post \/ NextRound

-----------------------------------------------------------------------------
\* The button, a schedule or the server switches relays.
OthersSwitch ==
  /\ Running
  /\ on' = ~on
  /\ UNCHANGED <<stage, acVars, vars>>

Aborted == ~Running /\ UNCHANGED allVars

AppNext ==
  \/ Link(Next)
  \/ Running /\ AppMainStep
  \/ Measure
  \/ OthersSwitch
  \/ Aborted

AppSpec == AppInit /\ [][AppNext]_allVars

(***************************************************************************)
(* WebSocketLink's fairness, and the same of app_main and the AC-measure   *)
(* task: their requests end by a time-out, and the lock that the           *)
(* notifications wait for is given back (RelayControl says when it is      *)
(* not).  Nothing is assumed of the network, the server and the sensor.    *)
(***************************************************************************)
AppFairSpec ==
  /\ AppSpec
  /\ \A s \in Starters : WF_allVars(Link(Start(s)))
  /\ \A c \in ClientTasks : WF_allVars(Link(Run(c)))
  /\ WF_allVars(AppMainStep) /\ WF_allVars(Measure)

-----------------------------------------------------------------------------
\* Types of the link, of app_main's progress and of the AC-measure task.
AppTypeOK ==
  /\ TypeOK
  /\ stage \in Stages /\ ac \in Rounds
  /\ data_index \in 0 .. SAMPLES_PER_SECOND
  /\ current \in Currents \cup {0} /\ drawn \in Currents \cup {0, NULL}
  /\ on \in BOOLEAN /\ opened \in BOOLEAN
  /\ unposted \subseteq Indexes

\* Whatever becomes of the posts, a sample is stored inside data_buffer, over none
\* that has not been posted, and what is posted is a whole buffer of new samples.
SamplesKept ==
  /\ ac = "sample" => data_index \in Indexes \ unposted
  /\ ac = "post" => unposted = Indexes

\* Relays are opened by a task that samples, compares and posts in turn: when the
\* line draws Limit or more at a sample all of them are opened before the buffer is
\* posted and before the next sample, and they are opened for nothing less, unless
\* the sensor could not be read (then garbage decides, either way).
OvercurrentOpens ==
  ac \in {"full", "post", "sleep", "sample"} /\ drawn # NULL =>
    (opened <=> drawn >= Limit)

\* Once app_main has started the websocket client the socket gets its protection,
\* or has no sensor, with or without a network and a server.
ProtectionStarts == <>(stage = "loop")

\* And it goes on: neither a link that is down nor posts that fail stop it.
MeasuresOn == ac # "none" ~> ac = "sample" \/ ~Running

\* Whatever outages there have been, once the server can be reached again and
\* closes no connection, the client is connected again and again.
LinkComesBack == <>~Running \/ LinkReturns
=============================================================================
