---------------------------- MODULE TaskManager ----------------------------
(***************************************************************************)
(* The schedule registry of the socket (main/task-manager/task_manager.c)  *)
(* and everything that calls it: the websocket client task, the httpd      *)
(* task, the FreeRTOS tasks that run the schedules (main/task/schedule)    *)
(* and app_main at boot.                                                   *)
(*                                                                         *)
(* task_list and task_count are plain static variables: no lock guards     *)
(* them, and the ESP32 runs tasks on two cores.  The functions are         *)
(* therefore split into the steps between which another task can run: the  *)
(* comparison of one entry, the shift of one entry, the load and the store *)
(* of task_count++ and task_count--, the write to NVS, the call to the     *)
(* kernel.                                                                 *)
(*                                                                         *)
(* A schedule is reduced to its id and to what its 13-character code       *)
(* decides here: a "once" schedule (active, code[5] = '0') removes itself  *)
(* after it has fired, any other ("weekly") never does.  The moment it     *)
(* fires is left open: any time after it has started.                      *)
(***************************************************************************)
EXTENDS Integers, Sequences, FiniteSets

CONSTANTS
  Ids,        \* schedule ids the server and the HTTP clients use
  Info,       \* the schedules they create
  MAX_TASKS,  \* capacity of task_list
  Handles,    \* addresses the heap can give to a task control block
  WsTasks,    \* the websocket client task (createSchedule, deleteSchedule)
  HttpTasks,  \* the httpd task (POST /schedule, GET /schedule/delete)
  Main,       \* app_main, which runs initialize_task_manager
  NULL,       \* the null handle, and the contents of an unused field
  Garbage     \* what a stack frame that has been reused can read as

Codes == {"once", "weekly"}

Callers == WsTasks \cup HttpTasks
Procs   == Callers \cup Handles \cup {Main}
Slots   == 0 .. MAX_TASKS - 1
Entry   == [handle : Handles \cup {NULL}, info : Info \cup {NULL}]

ASSUME TaskManagerAssumption ==
  /\ MAX_TASKS \in Nat \ {0}
  /\ Info \subseteq [id : Ids, code : Codes]
  /\ WsTasks \cap HttpTasks = {} /\ Callers \cap Handles = {}
  /\ Main \notin Callers \cup Handles
  /\ NULL \notin Procs \cup Ids \cup [id : Ids \cup {NULL}, code : Codes]
  /\ Callers \cap Info = {}
  /\ Garbage \subseteq [id : Ids \cup {NULL}, code : Codes]

\* An id is a string of less than 40 characters: for the bound on the entries.
ASSUME FiniteAssumption == IsFiniteSet(Ids)

Labels == {"none", "start", "loop", "exit",            \* a schedule task
           "idle", "dead", "bootSave", "bootLoad", "bootStart", "done",
           "find", "shift", "dec", "decStore",         \* in delete_task
           "save", "kill",
           "spawn", "fill", "fillInfo",                \* in create_task
           "inc", "incStore", "saveNew"}
EState == {"eRunning", "eReady", "eBlocked", "eDeleted"}
Locals == [i : Nat, j : Nat, task_state : EState \cup {NULL},
           xHandle : Handles \cup {NULL},
           loaded : Int]  \* task_count in a register, to be stored back
Requests == [op : {"none", "create", "add", "delete"},
             info : [id : Ids, code : Codes] \cup {NULL}]

VARIABLES
  task_list,   \* static task_info_t task_list[MAX_TASKS]
  task_count,  \* static int task_count
  flash,       \* the schedules in the NVS blob "task_list"
  alive,       \* handles of tasks the kernel schedules
  zombies,     \* deleted tasks whose memory the idle task has not freed yet
  param,       \* pvParameters of each task: a creator's frame or a heap copy
  parsed,      \* the code task_schedule parsed when it started
  frame,       \* the task_info argument of the last create_task of a caller
  pc,          \* where each task is
  loc,         \* locals of the registry function each task is executing
  req,         \* the request each caller is serving
  mode,        \* "run", or "panic" once behaviour is undefined
  stale,       \* history: the last NVS access failed
  overlapped   \* history: two tasks have been inside the registry at once

ram    == <<task_list, task_count>>
kernel == <<alive, zombies, param, parsed>>
vars   == <<task_list, task_count, flash, alive, zombies, param, parsed, frame,
            pc, loc, req, mode, stale, overlapped>>

Blank    == [handle |-> NULL, info |-> NULL]
NoLocals == [i |-> 0, j |-> 0, task_state |-> NULL, xHandle |-> NULL,
             loaded |-> 0]
NoReq    == [op |-> "none", info |-> NULL]

\* The program points inside a registry function (or inside boot).
Busy(p) == pc[p] \notin {"none", "idle", "start", "loop", "exit", "dead", "done"}
Overlap == \E p, q \in Procs : p # q /\ Busy(p) /\ Busy(q)

IdOf(e) == IF e.info = NULL THEN NULL ELSE e.info.id

\* *(task_info_t *)pvParameters: create_task passes the address of its own
\* argument, so the task reads whatever its creator's frame holds by then.
ParamOf(h) == IF param[h] \in Callers THEN frame[param[h]] ELSE param[h]

\* The id delete_task compares with: the schedule task passes a pointer into
\* its parameter, the handlers a string of their own.
TargetId(p) == IF p \in Handles THEN ParamOf(p).id ELSE req[p].info.id

(***************************************************************************)
(* eTaskGetState, as the kernel answers it to task p.  A task that has not *)
(* run yet is ready; later it is blocked in its 1 s delay or ready (also   *)
(* when it runs on the other core).  A freed control block reads as        *)
(* eDeleted or as eReady, whatever its memory holds.                       *)
(***************************************************************************)
TaskStates(p, h) ==
  IF h = p THEN {"eRunning"}
  ELSE IF h \in alive
         THEN IF pc[h] = "start" THEN {"eReady"} ELSE {"eReady", "eBlocked"}
  ELSE IF h \in zombies THEN {"eDeleted"}
  ELSE {"eDeleted", "eReady"}

\* if (task_state != eDeleted && task_state != eReady) vTaskDelete(...)
MustKill(p) == loc[p].task_state \notin {"eDeleted", "eReady"}

FreeHandles == Handles \ (alive \cup zombies)

-----------------------------------------------------------------------------
Init ==
  /\ task_list = [k \in Slots |-> Blank]
  /\ task_count = 0
  /\ flash = << >>
  /\ alive = {} /\ zombies = {}
  /\ param = [h \in Handles |-> NULL]
  /\ parsed = [h \in Handles |-> NULL]
  /\ frame = [c \in Callers |-> NULL]
  /\ pc = [p \in Procs |-> IF p \in Handles THEN "none"
                           ELSE IF p \in Callers THEN "idle" ELSE "bootSave"]
  /\ loc = [p \in Procs |-> NoLocals]
  /\ req = [c \in Callers |-> NoReq]
  /\ mode = "run"
  /\ stale = FALSE
  /\ overlapped = FALSE

Goto(p, label) == pc' = [pc EXCEPT ![p] = label]

\* What follows the return of delete_task in each of its callers.
AfterDelete(p) ==
  IF p \in Handles THEN "exit"
  ELSE IF req[p].op = "create" THEN "spawn" ELSE "idle"
ReqAfterDelete(p) ==
  IF p \in Callers /\ req[p].op = "delete" THEN [req EXCEPT ![p] = NoReq] ELSE req

-----------------------------------------------------------------------------
(***************************************************************************)
(* Mutants: the bugs the properties are tested against.  No specification  *)
(* of this module uses them.                                               *)
(***************************************************************************)

\* The search runs downwards from the first entry.
FindPrevious(p) ==
  /\ pc[p] = "find" /\ loc[p].i < task_count /\ loc[p].i \in Slots
  /\ IdOf(task_list[loc[p].i]) # TargetId(p)
  /\ loc' = [loc EXCEPT ![p].i = @ - 1]
  /\ UNCHANGED <<ram, kernel, flash, frame, pc, req, mode, stale>>

\* xTaskCreate is called without &xHandle.
SpawnNoHandle(c, h) ==
  /\ pc[c] = "spawn" /\ h \in FreeHandles
  /\ frame' = [frame EXCEPT ![c] = req[c].info]
  /\ alive' = alive \cup {h}
  /\ param' = [param EXCEPT ![h] = c]
  /\ pc' = [pc EXCEPT ![c] = "fill", ![h] = "start"]
  /\ UNCHANGED <<ram, zombies, parsed, flash, loc, req, mode, stale>>

\* delete_task forgets to save.
NoSaveAfterDelete(p) ==
  /\ pc[p] = "save"
  /\ Goto(p, "kill")
  /\ UNCHANGED <<ram, kernel, flash, frame, loc, req, mode, stale>>

\* The slot the shift has freed is cleared.
ClearingDecrement(p) ==
  /\ pc[p] = "decStore"
  /\ task_list' = [task_list EXCEPT ![task_count - 1] = Blank]
  /\ task_count' = loc[p].loaded - 1
  /\ Goto(p, "save")
  /\ UNCHANGED <<kernel, flash, frame, loc, req, mode, stale>>

\* createSchedule creates without deleting, as POST /schedule does.
WsCreateOnly(c, info) ==
  /\ c \in WsTasks /\ pc[c] = "idle" /\ pc[Main] = "done"
  /\ req' = [req EXCEPT ![c] = [op |-> "create", info |-> info]]
  /\ Goto(c, "spawn")
  /\ UNCHANGED <<ram, kernel, flash, frame, loc, mode, stale>>

\* The shift is not followed by task_count--.
NoDecrement(p) ==
  /\ pc[p] = "decStore"
  /\ Goto(p, "save")
  /\ UNCHANGED <<ram, kernel, flash, frame, loc, req, mode, stale>>

\* task_count is raised although the task could not be created.
SpawnFailCounts(c) ==
  /\ pc[c] = "spawn"
  /\ frame' = [frame EXCEPT ![c] = req[c].info]
  /\ task_count' = task_count + 1
  /\ req' = [req EXCEPT ![c] = NoReq]
  /\ Goto(c, "idle")
  /\ UNCHANGED <<task_list, kernel, flash, loc, mode, stale>>

\* After the shift the search goes on for more entries, with task_count as it was.
SearchOn(p) ==
  /\ pc[p] = "shift" /\ loc[p].j >= task_count - 1
  /\ Goto(p, "find")
  /\ UNCHANGED <<ram, kernel, flash, frame, loc, req, mode, stale>>

\* The shift copies the wrong way.
ShiftUp(p) ==
  /\ pc[p] = "shift" /\ loc[p].j < task_count - 1 /\ loc[p].j + 1 \in Slots
  /\ task_list' = [task_list EXCEPT ![loc[p].j + 1] = task_list[loc[p].j]]
  /\ loc' = [loc EXCEPT ![p].j = @ + 1]
  /\ UNCHANGED <<task_count, kernel, flash, frame, pc, req, mode, stale>>

-----------------------------------------------------------------------------
(* The handlers.  They run once initialize_task_manager has returned.      *)

Request(c, op, info, label) ==
  /\ pc[c] = "idle" /\ pc[Main] = "done"
  /\ req' = [req EXCEPT ![c] = [op |-> op, info |-> info]]
  /\ Goto(c, label)
  /\ UNCHANGED <<ram, kernel, flash, frame, loc, mode, stale>>

\* createSchedule deletes the id first and creates afterwards.
WsCreate(c, info) == c \in WsTasks /\ Request(c, "create", info, "find")

\* POST /schedule creates without deleting.
HttpAdd(c, info) == c \in HttpTasks /\ Request(c, "add", info, "spawn")

\* deleteSchedule and GET /schedule/delete.
Delete(c, id) == Request(c, "delete", [id |-> id, code |-> "once"], "find")

\* Later calls of the same task reuse the frame create_task has left.
FrameReuse(c, g) ==
  /\ pc[c] = "idle" /\ frame[c] # NULL
  /\ frame' = [frame EXCEPT ![c] = g]
  /\ UNCHANGED <<ram, kernel, flash, pc, loc, req, mode, stale>>

-----------------------------------------------------------------------------
(* delete_task                                                             *)

FindNext(p) ==
  /\ pc[p] = "find" /\ loc[p].i < task_count /\ loc[p].i \in Slots
  /\ IdOf(task_list[loc[p].i]) # TargetId(p)
  /\ loc' = [loc EXCEPT ![p].i = @ + 1]
  /\ UNCHANGED <<ram, kernel, flash, frame, pc, req, mode, stale>>

FindMatch(p) ==
  /\ pc[p] = "find" /\ loc[p].i < task_count /\ loc[p].i \in Slots
  /\ LET e == task_list[loc[p].i] IN
       /\ IdOf(e) = TargetId(p) /\ e.handle # NULL
       /\ \E s \in TaskStates(p, e.handle) :
            loc' = [loc EXCEPT ![p].task_state = s, ![p].j = loc[p].i,
                               ![p].xHandle = e.handle]   \* xHandle: history
  /\ Goto(p, "shift")
  /\ UNCHANGED <<ram, kernel, flash, frame, req, mode, stale>>

FindNone(p) ==
  /\ pc[p] = "find" /\ loc[p].i >= task_count
  /\ Goto(p, AfterDelete(p))
  /\ req' = ReqAfterDelete(p)
  /\ loc' = [loc EXCEPT ![p] = NoLocals]
  /\ UNCHANGED <<ram, kernel, flash, frame, mode, stale>>

Shift(p) ==
  /\ pc[p] = "shift" /\ loc[p].j < task_count - 1 /\ loc[p].j + 1 \in Slots
  /\ task_list' = [task_list EXCEPT ![loc[p].j] = task_list[loc[p].j + 1]]
  /\ loc' = [loc EXCEPT ![p].j = @ + 1]
  /\ UNCHANGED <<task_count, kernel, flash, frame, pc, req, mode, stale>>

LeaveShift(p) ==
  /\ pc[p] = "shift" /\ loc[p].j >= task_count - 1
  /\ Goto(p, "dec")
  /\ UNCHANGED <<ram, kernel, flash, frame, loc, req, mode, stale>>

\* task_count-- and task_count++ are a load, an addition and a store, with no
\* lock: what another task has stored in between is lost.
LoadCount(p, from, to) ==
  /\ pc[p] = from
  /\ loc' = [loc EXCEPT ![p].loaded = task_count]
  /\ Goto(p, to)
  /\ UNCHANGED <<ram, kernel, flash, frame, req, mode, stale>>

StoreCount(p, count, from, to) ==
  /\ pc[p] = from
  /\ task_count' = count
  /\ loc' = [loc EXCEPT ![p].j = 0, ![p].loaded = 0]
  /\ Goto(p, to)
  /\ UNCHANGED <<task_list, kernel, flash, frame, req, mode, stale>>

DecrementLoad(p)  == LoadCount(p, "dec", "decStore")
DecrementCount(p) == StoreCount(p, loc[p].loaded - 1, "decStore", "save")

(***************************************************************************)
(* save_tasks_to_nvs: nvs_open, nvs_set_blob or nvs_commit may fail, which *)
(* is only logged.  A negative count makes the size huge, which NVS        *)
(* refuses; a count beyond MAX_TASKS stores a blob load will not accept.   *)
(***************************************************************************)
Saved == [k \in 1 .. task_count |->
            IF k <= MAX_TASKS THEN task_list[k - 1].info ELSE NULL]

Save(p, from, to) ==
  /\ pc[p] = from
  /\ \/ task_count >= 0 /\ flash' = Saved /\ stale' = FALSE
     \/ flash' = flash /\ stale' = TRUE
  /\ Goto(p, to)
  /\ UNCHANGED <<ram, kernel, frame, mode>>

SaveAfterDelete(p) == Save(p, "save", "kill") /\ UNCHANGED <<loc, req>>

KillSkip(p) ==
  /\ pc[p] = "kill" /\ ~MustKill(p)
  /\ Goto(p, AfterDelete(p))
  /\ req' = ReqAfterDelete(p)
  /\ loc' = [loc EXCEPT ![p] = NoLocals]
  /\ UNCHANGED <<ram, kernel, flash, frame, mode, stale>>

\* The kernel's part of vTaskDelete on a task that exists.
Stop(h) ==
  /\ alive' = alive \ {h}
  /\ zombies' = zombies \cup {h}
  /\ param' = [param EXCEPT ![h] = NULL]
  /\ parsed' = [parsed EXCEPT ![h] = NULL]

\* vTaskDelete(task_list[i].handle): the slot is read again, after the shift.
KillTask(p) ==
  /\ pc[p] = "kill" /\ MustKill(p)
  /\ LET h == task_list[loc[p].i].handle IN
       /\ h \in alive \ {p}
       /\ Stop(h)
       /\ pc' = [pc EXCEPT ![p] = AfterDelete(p), ![h] = "none"]
       /\ loc' = [loc EXCEPT ![p] = NoLocals, ![h] = NoLocals]
  /\ req' = ReqAfterDelete(p)
  /\ UNCHANGED <<ram, flash, frame, mode, stale>>

\* The slot holds the caller's own handle, or NULL, which means the caller.
KillSelf(p) ==
  /\ pc[p] = "kill" /\ MustKill(p)
  /\ task_list[loc[p].i].handle \in {p, NULL}
  /\ IF p \in Handles
       THEN Stop(p) /\ Goto(p, "none") /\ UNCHANGED req
       ELSE Goto(p, "dead") /\ req' = [req EXCEPT ![p] = NoReq]
            /\ UNCHANGED kernel
  /\ loc' = [loc EXCEPT ![p] = NoLocals]
  /\ UNCHANGED <<ram, flash, frame, mode, stale>>

-----------------------------------------------------------------------------
(* create_task                                                             *)

\* xTaskCreate fails for want of memory: only logged.
SpawnFail(c) ==
  /\ pc[c] = "spawn"
  /\ frame' = [frame EXCEPT ![c] = req[c].info]
  /\ req' = [req EXCEPT ![c] = NoReq]
  /\ Goto(c, "idle")
  /\ UNCHANGED <<ram, kernel, flash, loc, mode, stale>>

Spawn(c, h) ==
  /\ pc[c] = "spawn" /\ h \in FreeHandles
  /\ frame' = [frame EXCEPT ![c] = req[c].info]
  /\ alive' = alive \cup {h}
  /\ param' = [param EXCEPT ![h] = c]
  /\ pc' = [pc EXCEPT ![c] = "fill", ![h] = "start"]
  /\ loc' = [loc EXCEPT ![c].xHandle = h]
  /\ UNCHANGED <<ram, zombies, parsed, flash, req, mode, stale>>

\* The entry is written without comparing task_count with MAX_TASKS.  Each of
\* its fields reads task_count again: they may end up in different slots.
FillHandle(c) ==
  /\ pc[c] = "fill" /\ task_count \in Slots
  /\ task_list' = [task_list EXCEPT ![task_count].handle = loc[c].xHandle]
  /\ loc' = [loc EXCEPT ![c].xHandle = NULL]
  /\ Goto(c, "fillInfo")
  /\ UNCHANGED <<task_count, kernel, flash, frame, req, mode, stale>>

FillInfo(c) ==
  /\ pc[c] = "fillInfo" /\ task_count \in Slots
  /\ task_list' = [task_list EXCEPT ![task_count].info = req[c].info]
  /\ Goto(c, "inc")
  /\ UNCHANGED <<task_count, kernel, flash, frame, loc, req, mode, stale>>

IncrementLoad(c)  == LoadCount(c, "inc", "incStore")
IncrementCount(c) == StoreCount(c, loc[c].loaded + 1, "incStore", "saveNew")

SaveAfterCreate(c) ==
  /\ Save(c, "saveNew", "idle")
  /\ req' = [req EXCEPT ![c] = NoReq]
  /\ loc' = [loc EXCEPT ![c] = NoLocals]

-----------------------------------------------------------------------------
(* task_schedule                                                           *)

\* parse_code of what the parameter points to when the task first runs.
ScheduleStart(h) ==
  /\ pc[h] = "start"
  /\ parsed' = [parsed EXCEPT ![h] = ParamOf(h).code]
  /\ Goto(h, "loop")
  /\ UNCHANGED <<ram, alive, zombies, param, flash, frame, loc, req, mode, stale>>

\* A "once" schedule has fired and its countdown is over: delete_task(own id).
ScheduleComplete(h) ==
  /\ pc[h] = "loop" /\ parsed[h] = "once"
  /\ Goto(h, "find")
  /\ UNCHANGED <<ram, kernel, flash, frame, loc, req, mode, stale>>

\* vTaskDelete(NULL) at the end of task_schedule.
ScheduleExit(h) ==
  /\ pc[h] = "exit"
  /\ Stop(h)
  /\ Goto(h, "none")
  /\ UNCHANGED <<ram, flash, frame, loc, req, mode, stale>>

\* The idle task frees the memory of a deleted task.
IdleReap(h) ==
  /\ h \in zombies
  /\ zombies' = zombies \ {h}
  /\ UNCHANGED <<ram, alive, param, parsed, flash, frame, pc, loc, req, mode, stale>>

-----------------------------------------------------------------------------
(* initialize_task_manager: save, load, start.                             *)

BootSave == Save(Main, "bootSave", "bootLoad") /\ UNCHANGED <<loc, req>>

\* A blob that is missing, unreadable or too long leaves the registry empty.
\* The handles it holds are addresses of the previous boot: any by now.
BootLoad ==
  /\ pc[Main] = "bootLoad"
  /\ \/ /\ Len(flash) <= MAX_TASKS
        /\ \E old \in [Slots -> Handles] :
             task_list' = [k \in Slots |->
               IF k < Len(flash) THEN [handle |-> old[k], info |-> flash[k + 1]]
               ELSE task_list[k]]
        /\ task_count' = Len(flash)
        /\ stale' = FALSE
     \/ UNCHANGED ram /\ stale' = TRUE
  /\ Goto(Main, "bootStart")
  /\ UNCHANGED <<kernel, flash, frame, loc, req, mode>>

\* One iteration of start_loaded_tasks: the task gets a heap copy of its entry.
BootStart(h) ==
  /\ pc[Main] = "bootStart" /\ loc[Main].i < task_count /\ loc[Main].i \in Slots
  /\ h \in FreeHandles
  /\ task_list[loc[Main].i].info # NULL
  /\ alive' = alive \cup {h}
  /\ param' = [param EXCEPT ![h] = task_list[loc[Main].i].info]
  /\ pc' = [pc EXCEPT ![h] = "start"]
  /\ task_list' = [task_list EXCEPT ![loc[Main].i].handle = h]
  /\ loc' = [loc EXCEPT ![Main].i = @ + 1]
  /\ UNCHANGED <<task_count, zombies, parsed, flash, frame, req, mode, stale>>

\* malloc or xTaskCreate fails, or task_function is NULL: the entry stays, with
\* the handle of the previous boot.
BootStartFail ==
  /\ pc[Main] = "bootStart" /\ loc[Main].i < task_count
  /\ loc' = [loc EXCEPT ![Main].i = @ + 1]
  /\ UNCHANGED <<ram, kernel, flash, frame, pc, req, mode, stale>>

BootDone ==
  /\ pc[Main] = "bootStart" /\ loc[Main].i >= task_count
  /\ Goto(Main, "done")
  /\ loc' = [loc EXCEPT ![Main] = NoLocals]
  /\ UNCHANGED <<ram, kernel, flash, frame, req, mode, stale>>

-----------------------------------------------------------------------------
(***************************************************************************)
(* Steps whose behaviour is undefined or aborts: reading or writing past   *)
(* task_list, eTaskGetState(NULL) (configASSERT), vTaskDelete of a task    *)
(* that no longer exists.  The model stops there, until the reboot.        *)
(***************************************************************************)
ReadsPastList(p) ==
  \/ pc[p] = "find" /\ loc[p].i < task_count /\ loc[p].i \notin Slots
  \/ pc[p] = "shift" /\ loc[p].j < task_count - 1 /\ loc[p].j + 1 \notin Slots
WritesPastList(p) == pc[p] \in {"fill", "fillInfo"} /\ task_count \notin Slots
StateOfNull(p) ==
  /\ pc[p] = "find" /\ loc[p].i < task_count /\ loc[p].i \in Slots
  /\ IdOf(task_list[loc[p].i]) = TargetId(p)
  /\ task_list[loc[p].i].handle = NULL
DeletesDeadTask(p) ==
  /\ pc[p] = "kill" /\ MustKill(p)
  /\ task_list[loc[p].i].handle \notin alive \cup {NULL, p}

Panic(p) ==
  /\ ReadsPastList(p) \/ WritesPastList(p) \/ StateOfNull(p) \/ DeletesDeadTask(p)
  /\ mode' = "panic"
  /\ UNCHANGED <<ram, kernel, flash, frame, pc, loc, req, stale>>

\* Power loss, a panic's restart or any other reset: only flash survives.
Reboot ==
  /\ task_list' = [k \in Slots |-> Blank]
  /\ task_count' = 0
  /\ alive' = {} /\ zombies' = {}
  /\ param' = [h \in Handles |-> NULL]
  /\ parsed' = [h \in Handles |-> NULL]
  /\ frame' = [c \in Callers |-> NULL]
  /\ pc' = [p \in Procs |-> IF p \in Handles THEN "none"
                            ELSE IF p \in Callers THEN "idle" ELSE "bootSave"]
  /\ loc' = [p \in Procs |-> NoLocals]
  /\ req' = [c \in Callers |-> NoReq]
  /\ mode' = "run"
  /\ UNCHANGED <<flash, stale>>

DeleteTask(p) ==
  \/ FindNext(p) \/ FindMatch(p) \/ FindNone(p)
  \/ Shift(p) \/ LeaveShift(p) \/ DecrementLoad(p) \/ DecrementCount(p)
  \/ SaveAfterDelete(p) \/ KillSkip(p) \/ KillTask(p) \/ KillSelf(p)

CreateTask(c) ==
  \/ SpawnFail(c) \/ (\E h \in Handles : Spawn(c, h))
  \/ FillHandle(c) \/ FillInfo(c) \/ IncrementLoad(c) \/ IncrementCount(c)
  \/ SaveAfterCreate(c)

Handler(c) ==
  \/ \E info \in Info : WsCreate(c, info) \/ HttpAdd(c, info)
  \/ \E id \in Ids : Delete(c, id)
  \/ \E g \in Garbage : FrameReuse(c, g)

Schedule(h) ==
  ScheduleStart(h) \/ ScheduleComplete(h) \/ ScheduleExit(h) \/ IdleReap(h)

Boot ==
  \/ BootSave \/ BootLoad \/ BootStartFail \/ BootDone
  \/ \E h \in Handles : BootStart(h)

Step ==
  \/ /\ mode = "run"
     /\ \/ \E p \in Callers \cup Handles : DeleteTask(p) \/ Panic(p)
        \/ \E c \in Callers : CreateTask(c) \/ Handler(c)
        \/ \E h \in Handles : Schedule(h)
        \/ Boot
  \/ Reboot

Next == Step /\ overlapped' = (overlapped \/ Overlap')

Spec == Init /\ [][Next]_vars

\* The executions in which the registry functions never overlap.
SerialSpec == Init /\ [][Next /\ ~overlapped']_vars

(***************************************************************************)
(* The scheduler is preemptive, every registry function runs to its end    *)
(* without waiting for another, and a schedule task sleeps one second per  *)
(* round: no task keeps another from running.  A task inside a function    *)
(* always has a step of its own (the guards at each label cover every      *)
(* case), so weak fairness of these steps is that they do not stop while   *)
(* it is inside.  Nothing is assumed of what the clients send, of when a   *)
(* schedule fires or of reboots.                                           *)
(***************************************************************************)
Moves(p) ==
  /\ mode = "run" /\ Busy(p)
  /\ pc'[p] # pc[p] \/ loc'[p] # loc[p] \/ mode' # mode

Fairness ==
  \A p \in Callers \cup Handles :
    []<>~(mode = "run" /\ Busy(p)) \/ []<><<Moves(p)>>_vars

FairSpec == Spec /\ Fairness

-----------------------------------------------------------------------------
(***************************************************************************)
(* Properties                                                              *)
(***************************************************************************)

\* The type of every variable of the registry, of its callers and of flash.
TypeOK ==
  /\ task_list \in [Slots -> Entry]
  /\ task_count \in Int
  /\ flash \in Seq(Info \cup {NULL})
  /\ alive \subseteq Handles /\ zombies \subseteq Handles
  /\ param \in [Handles -> Callers \cup Info \cup {NULL}]
  /\ parsed \in [Handles -> Codes \cup {NULL}]
  /\ frame \in [Callers -> Info \cup Garbage \cup {NULL}]
  /\ pc \in [Procs -> Labels]
  /\ loc \in [Procs -> Locals]
  /\ req \in [Callers -> Requests]
  /\ mode \in {"run", "panic"}
  /\ stale \in BOOLEAN /\ overlapped \in BOOLEAN

LiveEntry(e) == e.handle # NULL /\ e.info # NULL

\* As long as no two tasks have been inside the registry at once, every entry
\* below task_count is complete, no function reads past the array or asks the
\* kernel about a null handle, and no delete kills the task that asked for it
\* (vTaskDelete(NULL) would end the websocket or httpd task).
RegistryConsistent ==
  ~overlapped =>
    /\ task_count \in 0 .. MAX_TASKS
    /\ \A k \in Slots : k < task_count => LiveEntry(task_list[k])
    /\ \A c \in Callers : pc[c] # "dead"
    /\ \A p \in Procs : ~ReadsPastList(p) /\ ~StateOfNull(p)

Quiescent == mode = "run" /\ \A p \in Procs : ~Busy(p)

\* Between two calls the blob in NVS lists the schedules of the registry, in
\* order, whatever reboots came before, unless the last NVS access failed.
NvsMirrors ==
  ~overlapped /\ ~stale /\ Quiescent =>
    /\ Len(flash) = task_count
    /\ \A k \in 1 .. task_count : flash[k] = task_list[k - 1].info

\* The websocket replaces a schedule by deleting its id before creating it: with
\* no HTTP client and no overlap the registry never holds an id twice, although
\* the delete of a "once" schedule may remove another entry than its own.
UniqueIds ==
  HttpTasks = {} /\ ~overlapped /\ Quiescent =>
    \A k, l \in Slots :
      k < l /\ l < task_count => IdOf(task_list[k]) # IdOf(task_list[l])

\* create_task does not compare task_count with MAX_TASKS; what keeps it inside
\* the array is that the server uses no more ids than there are slots.
NoOverflow ==
  HttpTasks = {} /\ Cardinality(Ids) <= MAX_TASKS /\ ~overlapped =>
    \A p \in Procs : ~WritesPastList(p)

\* delete_task reads the handle it deletes after the shift: when the entry was
\* the last one, the slot beyond the end still holds the handle it found.
DeleteStopsTail ==
  \A p \in Procs :
    ~overlapped /\ pc[p] = "kill" /\ loc[p].i = task_count =>
      task_list[loc[p].i].handle = loc[p].xHandle

\* When calls do overlap, updates of task_count are lost and it says less and
\* less of the list.  With a single client (the websocket task or httpd) it still
\* never passes the capacity, and no loop reads past the array, whatever schedules
\* delete themselves meanwhile: only the client adds, and what a late delete
\* stores is less than a count that was within the array.
OneClientInBounds ==
  (\A c, d \in Callers : c = d) =>
    task_count <= MAX_TASKS /\ \A p \in Procs : ~ReadsPastList(p)

\* Every call of the registry returns, or the program panics, although the
\* array and task_count change under its loops.
CallsReturn ==
  \A p \in Callers \cup Handles : Busy(p) ~> ~Busy(p) \/ mode = "panic"

(***************************************************************************)
(* The registry as a sequence: while an entry is being removed, the slot   *)
(* that holds no entry any more is skipped.  And what the call that is     *)
(* being served has still to do to the sequence.                           *)
(***************************************************************************)
Removing == {"shift", "dec", "decStore"}
Adding   == {"spawn", "fill", "fillInfo", "inc", "incStore"}

Holes == {loc[p].j : p \in {q \in Procs : pc[q] \in Removing}}

StoreView ==
  IF Holes = {} THEN [k \in 1 .. task_count |-> task_list[k - 1].info]
  ELSE LET hole == CHOOSE j \in Holes : TRUE IN
       [k \in 1 .. task_count - 1 |->
          task_list[IF k - 1 < hole THEN k - 1 ELSE k].info]

Nothing == [op |-> "none"]
Own     == [op |-> "own"]

TodoOf(p) ==
  IF p \in Handles THEN IF pc[p] = "find" THEN Own ELSE Nothing
  ELSE IF pc[p] = "find" THEN [op |-> req[p].op, info |-> req[p].info]
  ELSE IF pc[p] \in Adding \cup Removing \cup {"save", "kill"} /\ req[p].op # "delete"
    THEN [op |-> "add", info |-> req[p].info]
  ELSE Nothing

Todos    == {TodoOf(p) : p \in Callers \cup Handles} \ {Nothing}
TodoView == IF Todos = {} THEN Nothing ELSE CHOOSE t \in Todos : TRUE

Store == INSTANCE ScheduleStore
  WITH Schedules <- Info, Targets <- [id : Ids, code : {"once"}],
       Capacity <- MAX_TASKS, store <- StoreView, saved <- flash,
       todo <- TodoView,
       phase <- IF pc[Main] \in {"bootSave", "bootLoad"} THEN "boot" ELSE "up"

\* Without overlap, the steps of the code implement the store: each call does
\* what it was asked and no more, entries keep their order, the first match is
\* removed, and the copy in NVS is always a state of the registry.
ImplementsStore == Store!StoreSpec

(***************************************************************************)
(* What comments and log messages of the code say, and the code does not.  *)
(***************************************************************************)

\* "Found the task, delete it" (task_manager.c:59): the task vTaskDelete stops
\* is the task whose entry was found.
DeletesFoundTask ==
  [][\A p \in Procs : KillTask(p) => loc[p].xHandle \notin alive']_vars

\* "Xóa task nếu là lặp một lần" (schedule.c:122): a schedule that has fired
\* deletes itself, so the entry it removes is the one with its handle.
OnceRemovesItself ==
  \A h \in Handles : pc[h] = "shift" => loc[h].xHandle = h

\* "Đã khởi tạo và chạy task '%s' từ NVS" (task_manager.c:264): boot starts the
\* schedules that were saved before it, so it loads what the last boot saved.
BootLoadsSaved ==
  [][pc[Main] = "bootSave" /\ pc'[Main] = "bootLoad" => flash' = flash]_vars
=============================================================================
