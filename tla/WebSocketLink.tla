---------------------------- MODULE WebSocketLink ----------------------------
(***************************************************************************)
(* The websocket connection to the server (main/web-socket/web_socket.c,   *)
(* websocket_app_start, websocket_event_handler, reconnect_websocket) over *)
(* ESP-IDF's websocket client, which the handler runs inside.              *)
(*                                                                         *)
(* The client has a task of its own that reconnects by itself; on every    *)
(* DISCONNECTED event the handler adds a task that tries to start the      *)
(* client once more.  esp_websocket_client_start refuses as long as the    *)
(* state of the client is not UNKNOW, and takes no lock: it checks the     *)
(* state and then creates a task, which sets the state only when it runs.  *)
(***************************************************************************)
EXTENDS Naturals, FiniteSets

CONSTANTS
  ClientTasks,  \* tasks esp_websocket_client_start can create
  Reconnectors, \* reconnect tasks the heap has room for
  Main,         \* app_main
  NULL

ASSUME WebSocketLinkAssumption ==
  /\ IsFiniteSet(ClientTasks) /\ IsFiniteSet(Reconnectors)
  /\ Main \notin Reconnectors
  /\ NULL # "client"

Starters == Reconnectors \cup {Main}
States   == {"UNKNOW", "INIT", "CONNECTED", "WAIT_TIMEOUT", "CLOSING"}

VARIABLES
  state,      \* client->state
  client,     \* the global handle, which only the event handler assigns
  task,       \* [ClientTasks -> none | new | loop | ending]
  starter,    \* [Starters -> none | check | create | sleep]
  reachable,  \* the network and the server are there
  closed      \* history: the server has closed a connection with a close frame

vars == <<state, client, task, starter, reachable, closed>>

Init ==
  /\ state = "UNKNOW"
  /\ client = NULL
  /\ task = [c \in ClientTasks |-> "none"]
  /\ starter = [s \in Starters |-> IF s = Main THEN "check" ELSE "none"]
  /\ reachable \in BOOLEAN
  /\ closed = FALSE

\* Mutant: the handler assigns another of its arguments.
HandleEventState == client' = state

\* The first line of websocket_event_handler, for every event.
HandleEvent == client' = "client"

\* WEBSOCKET_EVENT_DISCONNECTED: xTaskCreate(&reconnect_websocket), which fails
\* when the heap has no room left.
HandleDisconnected ==
  /\ HandleEvent
  /\ IF \E r \in Reconnectors : starter[r] = "none"
       THEN \E r \in Reconnectors :
              starter[r] = "none" /\ starter' = [starter EXCEPT ![r] = "check"]
       ELSE UNCHANGED starter

-----------------------------------------------------------------------------
(***************************************************************************)
(* Mutants: the bugs the properties are tested against.                    *)
(***************************************************************************)

\* websocket_cfg disables auto reconnect: the client stays stopped.
AbortStops ==
  /\ state' = "UNKNOW"
  /\ HandleDisconnected

\* The handler forgets the reconnect task, and auto reconnect is disabled.
AbortForGood ==
  /\ state' = "UNKNOW"
  /\ HandleEvent
  /\ UNCHANGED starter

-----------------------------------------------------------------------------
\* esp_websocket_client_abort_connection, with auto reconnect left enabled by
\* websocket_cfg.  The event is handled at once, by the task that aborts.
Abort ==
  /\ state' = "WAIT_TIMEOUT"
  /\ HandleDisconnected

-----------------------------------------------------------------------------
(* esp_websocket_client_start, as websocket_app_start calls it once and    *)
(* reconnect_websocket every 5 seconds until it returns ESP_OK.            *)

StartPasses(s) ==
  /\ starter[s] = "check" /\ state = "UNKNOW"
  /\ starter' = [starter EXCEPT ![s] = "create"]
  /\ UNCHANGED <<state, client, task, reachable, closed>>

\* "The client has started": websocket_app_start logs the error and goes on.
StartRefused(s) ==
  /\ starter[s] = "check" /\ state # "UNKNOW"
  /\ starter' = [starter EXCEPT ![s] = IF s = Main THEN "none" ELSE "sleep"]
  /\ UNCHANGED <<state, client, task, reachable, closed>>

\* The client's task is created: a reconnect task deletes itself.
StartCreates(s) ==
  /\ starter[s] = "create"
  /\ \E c \in ClientTasks :
       task[c] = "none" /\ task' = [task EXCEPT ![c] = "new"]
  /\ starter' = [starter EXCEPT ![s] = "none"]
  /\ UNCHANGED <<state, client, reachable, closed>>

\* No memory for the client's task.
StartFails(s) ==
  /\ starter[s] = "create"
  /\ \A c \in ClientTasks : task[c] # "none"
  /\ starter' = [starter EXCEPT ![s] = IF s = Main THEN "none" ELSE "sleep"]
  /\ UNCHANGED <<state, client, task, reachable, closed>>

\* vTaskDelay(pdMS_TO_TICKS(5000)) is over.
TryAgain(s) ==
  /\ starter[s] = "sleep"
  /\ starter' = [starter EXCEPT ![s] = "check"]
  /\ UNCHANGED <<state, client, task, reachable, closed>>

-----------------------------------------------------------------------------
(* esp_websocket_client_task: one round of its loop at a time, under the   *)
(* client's lock.                                                          *)

Begin(c) ==
  /\ task[c] = "new"
  /\ task' = [task EXCEPT ![c] = "loop"]
  /\ state' = "INIT"
  /\ UNCHANGED <<client, starter, reachable, closed>>

\* The handler of CONNECTED sends the register message.
Connect(c) ==
  /\ task[c] = "loop" /\ state = "INIT" /\ reachable
  /\ state' = "CONNECTED"
  /\ HandleEvent
  /\ UNCHANGED <<task, starter, reachable, closed>>

ConnectFails(c) ==
  /\ task[c] = "loop" /\ state = "INIT" /\ ~reachable
  /\ Abort
  /\ UNCHANGED <<task, reachable, closed>>

\* A poll, a read or the write of any task that notifies fails.
ConnectionLost ==
  /\ state = "CONNECTED"
  /\ Abort
  /\ UNCHANGED <<task, reachable, closed>>

\* 10 seconds after the connection was lost.
Reconnect(c) ==
  /\ task[c] = "loop" /\ state = "WAIT_TIMEOUT"
  /\ state' = "INIT"
  /\ UNCHANGED <<client, task, starter, reachable, closed>>

CloseFrame(c) ==
  /\ task[c] = "loop" /\ state = "CONNECTED"
  /\ state' = "CLOSING"
  /\ closed' = TRUE
  /\ UNCHANGED <<client, task, starter, reachable>>

\* The close frame is echoed: the task leaves its loop, and the handler has no
\* case for WEBSOCKET_EVENT_CLOSED.
Closed(c) ==
  /\ task[c] = "loop" /\ state = "CLOSING"
  /\ state' = "UNKNOW"
  /\ task' = [task EXCEPT ![c] = "ending"]
  /\ HandleEvent
  /\ UNCHANGED <<starter, reachable, closed>>

\* After its loop the task sets the state once more and deletes itself.
End(c) ==
  /\ task[c] = "ending"
  /\ task' = [task EXCEPT ![c] = "none"]
  /\ state' = "UNKNOW"
  /\ UNCHANGED <<client, starter, reachable, closed>>

Network ==
  /\ reachable' = ~reachable
  /\ UNCHANGED <<state, client, task, starter, closed>>

Start(s) ==
  StartPasses(s) \/ StartRefused(s) \/ StartCreates(s) \/ StartFails(s) \/ TryAgain(s)
Run(c) ==
  Begin(c) \/ Connect(c) \/ ConnectFails(c) \/ Reconnect(c) \/ Closed(c) \/ End(c)

Next ==
  \/ \E s \in Starters : Start(s)
  \/ \E c \in ClientTasks : Run(c) \/ CloseFrame(c)
  \/ ConnectionLost
  \/ Network

Spec == Init /\ [][Next]_vars

(***************************************************************************)
(* The scheduler runs every task that can go on, delays and time-outs end. *)
(* Nothing is assumed of the network and the server.                       *)
(***************************************************************************)
FairSpec ==
  /\ Spec
  /\ \A s \in Starters : WF_vars(Start(s))
  /\ \A c \in ClientTasks : WF_vars(Run(c))

-----------------------------------------------------------------------------
\* Types of the client's state, the tasks and the connection.
TypeOK ==
  /\ state \in States /\ client \in {NULL, "client"}
  /\ task \in [ClientTasks -> {"none", "new", "loop", "ending"}]
  /\ starter \in [Starters -> {"none", "check", "create", "sleep"}]
  /\ reachable \in BOOLEAN /\ closed \in BOOLEAN

\* Although every outage adds a task that calls esp_websocket_client_start with
\* no lock, the client has one task only, as long as the server never closes a
\* connection: the state never goes back to UNKNOW.
OneClientTask ==
  ~closed => Cardinality({c \in ClientTasks : task[c] # "none"}) <= 1

\* Whatever outages there have been, once the server can be reached again and
\* closes no connection, the client is connected again and again.
LinkReturns ==
  <>[](reachable /\ ~closed) => []<>(state = "CONNECTED")

\* "Xóa task khi đã kết nối lại thành công" (web_socket.c:194, delete the task
\* once it has reconnected): no reconnect task outlives the outage it is for.
ReconnectorsEnd ==
  <>[](state = "CONNECTED") => <>[](\A r \in Reconnectors : starter[r] = "none")
=============================================================================
