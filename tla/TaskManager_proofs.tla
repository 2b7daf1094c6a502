------------------------- MODULE TaskManager_proofs -------------------------
(***************************************************************************)
(* Proofs about TaskManager, for any number of clients, handles, schedules *)
(* and slots.                                                              *)
(***************************************************************************)
EXTENDS TaskManager, TLAPS

\* A client that creates holds a schedule, and each function serves its requests.
CallerOK ==
  \A c \in Callers :
    /\ req[c].op \in {"create", "add"} => req[c].info \in Info
    /\ pc[c] \in Adding \cup {"saveNew"} => req[c].op \in {"create", "add"}
    /\ pc[c] \in Removing \cup {"find", "save", "kill"} => req[c].op \in {"create", "delete"}

\* A task that has not run yet finds a schedule at pvParameters.
ParamOK ==
  \A h \in Handles : pc[h] = "start" =>
    \/ param[h] \in Info
    \/ param[h] \in Callers /\ frame[param[h]] # NULL

TypeInv == TypeOK /\ CallerOK /\ ParamOK

\* The sets of tasks are disjoint, and no task is the null handle.
LEMMA ProcFacts ==
  /\ Callers \subseteq Procs /\ Handles \subseteq Procs /\ Main \in Procs
  /\ Callers \cap Handles = {} /\ Main \notin Callers \cup Handles
  /\ NULL \notin Procs /\ NULL \notin Info /\ NULL \notin Ids
  /\ Callers \cap Info = {}
BY TaskManagerAssumption DEF Procs, Callers

\* save_tasks_to_nvs writes a sequence of entries.
LEMMA SavedType ==
  ASSUME TypeOK, task_count >= 0
  PROVE  Saved \in Seq(Info \cup {NULL})
<1>1. \A k \in 1 .. task_count : k <= MAX_TASKS => task_list[k - 1].info \in Info \cup {NULL}
  BY TaskManagerAssumption DEF TypeOK, Slots, Entry
<1>2. Saved \in [1 .. task_count -> Info \cup {NULL}]
  BY <1>1 DEF Saved
<1>3. task_count \in Nat
  BY DEF TypeOK
<1> QED BY <1>2, <1>3

LEMMA BlankTypes == NoLocals \in Locals /\ NoReq \in Requests
BY DEF NoLocals, NoReq, Locals, Requests

\* A load and a store of task_count, by any task.
LEMMA CountType ==
  ASSUME TypeInv, overlapped' \in BOOLEAN, NEW p \in Callers \cup Handles,
         NEW from \in {"dec", "decStore", "inc", "incStore"},
         NEW to \in {"decStore", "save", "incStore", "saveNew"},
         from \in {"dec", "decStore"} <=> to \in {"decStore", "save"},
         NEW count \in Int,
         LoadCount(p, from, to) \/ StoreCount(p, count, from, to)
  PROVE  TypeInv'
<1> USE ProcFacts DEF TypeInv, ram, kernel, Goto
<1>0. p \in Procs
  OBVIOUS
<1>1. loc' \in [Procs -> Locals]
  <2>1. loc[p] \in Locals
    BY <1>0 DEF TypeOK
  <2>2. [loc[p] EXCEPT !.loaded = task_count] \in Locals
    BY <2>1 DEF Locals, TypeOK
  <2>3. [loc[p] EXCEPT !.j = 0, !.loaded = 0] \in Locals
    <3>1. ASSUME NEW x \in Locals, NEW m \in Nat, NEW n \in Int
          PROVE  [x EXCEPT !.j = m, !.loaded = n] \in Locals
      BY DEF Locals
    <3>2. 0 \in Nat /\ 0 \in Int
      OBVIOUS
    <3> QED BY <2>1, <3>1, <3>2, Zenon
  <2>4. CASE LoadCount(p, from, to)
    BY <1>0, <2>2, <2>4 DEF LoadCount, TypeOK
  <2>5. CASE StoreCount(p, count, from, to)
    BY <1>0, <2>3, <2>5 DEF StoreCount, TypeOK
  <2> QED BY <2>4, <2>5
<1>2. TypeOK'
  <2>1. pc' \in [Procs -> Labels]
    BY <1>0 DEF LoadCount, StoreCount, TypeOK, Labels
  <2> QED BY <1>1, <2>1 DEF LoadCount, StoreCount, TypeOK
<1>3. CallerOK'
  BY <1>0 DEF LoadCount, StoreCount, TypeOK, CallerOK, Adding, Removing
<1>4. ParamOK'
  BY <1>0 DEF LoadCount, StoreCount, TypeOK, ParamOK
<1> QED BY <1>2, <1>3, <1>4

LEMMA InitType == Init => TypeInv
<1> SUFFICES ASSUME Init PROVE TypeInv
  OBVIOUS
<1>1. TypeOK
  <2>1. task_list \in [Slots -> Entry] /\ task_count \in Int /\ flash \in Seq(Info \cup {NULL})
    BY DEF Init, Blank, Entry
  <2>2. pc \in [Procs -> Labels]
    BY DEF Init, Labels
  <2>3. loc \in [Procs -> Locals] /\ req \in [Callers -> Requests]
    BY BlankTypes DEF Init
  <2> QED BY <2>1, <2>2, <2>3 DEF Init, TypeOK
<1>2. CallerOK /\ ParamOK
  BY ProcFacts DEF Init, NoReq, CallerOK, ParamOK, Adding, Removing
<1> QED BY <1>1, <1>2 DEF TypeInv

LEMMA DeleteType ==
  ASSUME TypeInv, NEW p \in Callers \cup Handles, DeleteTask(p), overlapped' \in BOOLEAN
  PROVE  TypeInv'
<1> USE ProcFacts, BlankTypes DEF TypeInv, ram, kernel, Goto
<1>0. p \in Procs
  OBVIOUS
<1>1. CASE FindNext(p)
  <2>0. loc' \in [Procs -> Locals]
    <3>1. loc[p] \in Locals /\ loc' = [loc EXCEPT ![p].i = @ + 1]
      BY <1>0, <1>1 DEF TypeOK, FindNext
    <3>2. [loc[p] EXCEPT !.i = @ + 1] \in Locals
      BY <3>1 DEF Locals
    <3> QED BY <1>0, <3>1, <3>2 DEF TypeOK
  <2>1. TypeOK'
    BY <1>1, <2>0 DEF TypeOK, FindNext
  <2>2. CallerOK'
    BY <1>0, <1>1 DEF TypeOK, CallerOK, Adding, Removing, FindNext
  <2>3. ParamOK'
    BY <1>0, <1>1 DEF TypeOK, ParamOK, FindNext
  <2> QED BY <2>1, <2>2, <2>3
<1>2. CASE FindMatch(p)
  <2>0. loc' \in [Procs -> Locals]
    <3>1. PICK s \in TaskStates(p, task_list[loc[p].i].handle) :
            loc' = [loc EXCEPT ![p].task_state = s, ![p].j = loc[p].i,
                               ![p].xHandle = task_list[loc[p].i].handle]
      BY <1>2 DEF FindMatch
    <3>2. s \in EState
      BY <3>1 DEF TaskStates, EState
    <3>3. task_list[loc[p].i].handle \in Handles
      BY <1>2 DEF FindMatch, TypeOK, Entry
    <3>4. loc[p].i \in Nat
      BY <1>0 DEF TypeOK, Locals
    <3>5. loc[p] \in Locals
      BY <1>0 DEF TypeOK
    <3>6. [loc[p] EXCEPT !.task_state = s, !.j = loc[p].i,
                         !.xHandle = task_list[loc[p].i].handle] \in Locals
      BY <3>2, <3>3, <3>4, <3>5 DEF Locals
    <3> QED BY <1>0, <3>1, <3>6 DEF TypeOK
  <2>1. TypeOK'
    BY <1>0, <1>2, <2>0 DEF TypeOK, FindMatch, Labels
  <2>2. CallerOK'
    BY <1>0, <1>2 DEF TypeOK, CallerOK, Adding, Removing, FindMatch, TaskStates, EState, Entry
  <2>3. ParamOK'
    BY <1>0, <1>2 DEF TypeOK, ParamOK, FindMatch, TaskStates, EState, Entry
  <2> QED BY <2>1, <2>2, <2>3
<1>3. CASE FindNone(p)
  <2>1. TypeOK'
    BY <1>0, <1>3 DEF TypeOK, FindNone, AfterDelete, ReqAfterDelete, NoReq, Labels
  <2>2. CallerOK'
    BY <1>0, <1>3 DEF TypeOK, CallerOK, Adding, Removing, FindNone, AfterDelete, ReqAfterDelete, NoReq, Labels
  <2>3. ParamOK'
    BY <1>0, <1>3 DEF TypeOK, ParamOK, FindNone, AfterDelete, ReqAfterDelete, NoReq, Labels
  <2> QED BY <2>1, <2>2, <2>3
<1>4. CASE Shift(p)
  <2>0. loc' \in [Procs -> Locals] /\ task_list' \in [Slots -> Entry]
    <3>1. loc[p] \in Locals /\ loc' = [loc EXCEPT ![p].j = @ + 1]
      BY <1>0, <1>4 DEF TypeOK, Shift
    <3>2. [loc[p] EXCEPT !.j = @ + 1] \in Locals
      BY <3>1 DEF Locals
    <3>3. task_list[loc[p].j + 1] \in Entry
      BY <1>4 DEF TypeOK, Shift
    <3>4. loc' \in [Procs -> Locals]
      BY <1>0, <3>1, <3>2 DEF TypeOK
    <3>5. task_list' \in [Slots -> Entry]
      BY <1>4, <3>3 DEF TypeOK, Shift
    <3> QED BY <3>4, <3>5
  <2>1. TypeOK'
    BY <1>4, <2>0 DEF TypeOK, Shift
  <2>2. CallerOK'
    BY <1>0, <1>4 DEF TypeOK, CallerOK, Adding, Removing, Shift, Slots
  <2>3. ParamOK'
    BY <1>0, <1>4 DEF TypeOK, ParamOK, Shift, Slots
  <2> QED BY <2>1, <2>2, <2>3
<1>5. CASE LeaveShift(p) \/ DecrementLoad(p) \/ DecrementCount(p)
  <2>0. loc[p].loaded - 1 \in Int
    BY <1>0 DEF TypeOK, Locals
  <2>1. CASE LeaveShift(p)
    <3>1. TypeOK'
      BY <1>0, <2>1 DEF TypeOK, LeaveShift, Labels
    <3>2. CallerOK' /\ ParamOK'
      BY <1>0, <2>1 DEF TypeOK, CallerOK, ParamOK, LeaveShift, Adding, Removing
    <3> QED BY <3>1, <3>2
  <2>2. CASE DecrementLoad(p)
    BY <2>2, CountType DEF DecrementLoad
  <2>3. CASE DecrementCount(p)
    BY <2>0, <2>3, CountType DEF DecrementCount
  <2> QED BY <1>5, <2>1, <2>2, <2>3
<1>6. CASE SaveAfterDelete(p)
  <2>1. TypeOK'
    BY <1>0, <1>6, SavedType DEF TypeOK, SaveAfterDelete, Save, Labels
  <2>2. CallerOK'
    BY <1>0, <1>6, SavedType DEF TypeOK, CallerOK, Adding, Removing, SaveAfterDelete, Save, Labels
  <2>3. ParamOK'
    BY <1>0, <1>6, SavedType DEF TypeOK, ParamOK, SaveAfterDelete, Save, Labels
  <2> QED BY <2>1, <2>2, <2>3
<1>7. CASE KillSkip(p)
  <2>1. TypeOK'
    BY <1>0, <1>7 DEF TypeOK, KillSkip, AfterDelete, ReqAfterDelete, NoReq, Labels
  <2>2. CallerOK'
    BY <1>0, <1>7 DEF TypeOK, CallerOK, Adding, Removing, KillSkip, AfterDelete, ReqAfterDelete, NoReq, Labels
  <2>3. ParamOK'
    BY <1>0, <1>7 DEF TypeOK, ParamOK, KillSkip, AfterDelete, ReqAfterDelete, NoReq, Labels
  <2> QED BY <2>1, <2>2, <2>3
<1>8. CASE KillTask(p)
  <2>1. TypeOK'
    BY <1>0, <1>8 DEF TypeOK, KillTask, Stop, AfterDelete, ReqAfterDelete, NoReq, Labels
  <2>2. CallerOK'
    BY <1>0, <1>8 DEF TypeOK, CallerOK, Adding, Removing, KillTask, Stop, AfterDelete, ReqAfterDelete, NoReq, Labels
  <2>3. ParamOK'
    BY <1>0, <1>8 DEF TypeOK, ParamOK, KillTask, Stop, AfterDelete, ReqAfterDelete, NoReq, Labels
  <2> QED BY <2>1, <2>2, <2>3
<1>9. CASE KillSelf(p)
  <2>0. req' \in [Callers -> Requests] /\ pc' \in [Procs -> Labels]
    <3>1. req' \in [Callers -> Requests]
      BY <1>9 DEF TypeOK, KillSelf
    <3>2. pc' = [pc EXCEPT ![p] = "none"] \/ pc' = [pc EXCEPT ![p] = "dead"]
      BY <1>9 DEF KillSelf
    <3>3. pc' \in [Procs -> Labels]
      BY <3>2 DEF TypeOK, Labels
    <3> QED BY <3>1, <3>3
  <2>1. TypeOK'
    BY <1>0, <1>9, <2>0 DEF TypeOK, KillSelf, Stop
  <2>2. CallerOK'
    BY <1>0, <1>9 DEF TypeOK, CallerOK, Adding, Removing, KillSelf, Stop, NoReq, Labels
  <2>3. ParamOK'
    BY <1>0, <1>9 DEF TypeOK, ParamOK, KillSelf, Stop, NoReq, Labels
  <2> QED BY <2>1, <2>2, <2>3
<1> QED BY <1>1, <1>2, <1>3, <1>4, <1>5, <1>6, <1>7, <1>8, <1>9 DEF DeleteTask

LEMMA CreateType ==
  ASSUME TypeInv, NEW c \in Callers, CreateTask(c), overlapped' \in BOOLEAN
  PROVE  TypeInv'
<1> USE ProcFacts, BlankTypes DEF TypeInv, ram, kernel, Goto
<1>0. c \in Procs
  OBVIOUS
<1>1. CASE SpawnFail(c)
  <2>1. req[c].info \in Info
    BY <1>1 DEF SpawnFail, CallerOK, Adding, Removing
  <2>2. TypeOK'
    BY <1>0, <1>1, <2>1 DEF TypeOK, SpawnFail, Labels
  <2>3. CallerOK'
    BY <1>0, <1>1 DEF TypeOK, CallerOK, Adding, Removing, SpawnFail, NoReq
  <2>4. ParamOK'
    BY <1>0, <1>1, <2>1 DEF TypeOK, ParamOK, SpawnFail
  <2> QED BY <2>2, <2>3, <2>4
<1>2. ASSUME NEW h \in Handles, Spawn(c, h) PROVE TypeInv'
  <2>1. req[c].info \in Info
    BY <1>2 DEF Spawn, CallerOK, Adding, Removing
  <2>2. loc' \in [Procs -> Locals]
    <3>1. loc[c] \in Locals /\ loc' = [loc EXCEPT ![c].xHandle = h]
      BY <1>0, <1>2 DEF TypeOK, Spawn
    <3>2. [loc[c] EXCEPT !.xHandle = h] \in Locals
      BY <3>1 DEF Locals
    <3> QED BY <1>0, <3>1, <3>2 DEF TypeOK
  <2>3. pc' \in [Procs -> Labels]
    BY <1>0, <1>2 DEF TypeOK, Spawn, Labels
  <2>4. TypeOK'
    BY <1>2, <2>1, <2>2, <2>3 DEF TypeOK, Spawn
  <2>5. CallerOK'
    BY <1>0, <1>2 DEF TypeOK, CallerOK, Adding, Removing, Spawn
  <2>6. ParamOK'
    BY <1>0, <1>2, <2>1 DEF TypeOK, ParamOK, Spawn
  <2> QED BY <2>4, <2>5, <2>6
<1>3. CASE FillHandle(c)
  <2>0. task_list[task_count] \in Entry /\ loc[c].xHandle \in Handles \cup {NULL}
    BY <1>0, <1>3 DEF FillHandle, TypeOK, Locals
  <2>1. [task_list[task_count] EXCEPT !.handle = loc[c].xHandle] \in Entry
    BY <2>0 DEF Entry
  <2>2. [loc[c] EXCEPT !.xHandle = NULL] \in Locals
    BY <1>0 DEF TypeOK, Locals
  <2>3. task_list' \in [Slots -> Entry] /\ loc' \in [Procs -> Locals]
    BY <1>0, <1>3, <2>1, <2>2 DEF FillHandle, TypeOK
  <2>4. TypeOK'
    BY <1>0, <1>3, <2>3 DEF TypeOK, FillHandle, Labels
  <2>5. CallerOK' /\ ParamOK'
    BY <1>0, <1>3 DEF TypeOK, CallerOK, ParamOK, FillHandle, Adding, Removing
  <2> QED BY <2>4, <2>5
<1>4. CASE FillInfo(c)
  <2>1. req[c].info \in Info
    BY <1>4 DEF FillInfo, CallerOK, Adding
  <2>0. task_list[task_count] \in Entry
    BY <1>4 DEF FillInfo, TypeOK
  <2>2. [task_list[task_count] EXCEPT !.info = req[c].info] \in Entry
    BY <2>0, <2>1 DEF Entry
  <2>3. TypeOK'
    BY <1>0, <1>4, <2>2 DEF TypeOK, FillInfo, Labels
  <2>4. CallerOK' /\ ParamOK'
    BY <1>0, <1>4 DEF TypeOK, CallerOK, ParamOK, FillInfo, Adding, Removing
  <2> QED BY <2>3, <2>4
<1>5. CASE IncrementLoad(c) \/ IncrementCount(c)
  <2>1. loc[c].loaded + 1 \in Int
    BY <1>0 DEF TypeOK, Locals
  <2> QED BY <1>5, <2>1, CountType DEF IncrementLoad, IncrementCount
<1>6. CASE SaveAfterCreate(c)
  <2>1. TypeOK'
    BY <1>0, <1>6, SavedType DEF TypeOK, SaveAfterCreate, Save, Labels
  <2>2. CallerOK' /\ ParamOK'
    BY <1>0, <1>6 DEF TypeOK, CallerOK, ParamOK, SaveAfterCreate, Save, NoReq, Adding, Removing
  <2> QED BY <2>1, <2>2
<1> QED BY <1>1, <1>2, <1>3, <1>4, <1>5, <1>6 DEF CreateTask

LEMMA HandlerType ==
  ASSUME TypeInv, NEW c \in Callers, Handler(c), overlapped' \in BOOLEAN
  PROVE  TypeInv'
<1> USE ProcFacts, BlankTypes DEF TypeInv, ram, kernel, Goto
<1>0. c \in Procs
  OBVIOUS
<1>1. ASSUME NEW op \in {"create", "add", "delete"}, NEW info \in [id : Ids, code : Codes],
             NEW label \in {"find", "spawn"}, Request(c, op, info, label),
             op # "delete" => info \in Info, label = "spawn" => op # "delete",
             label = "find" => op # "add"
      PROVE  TypeInv'
  <2>1. TypeOK'
    <3>1. [op |-> op, info |-> info] \in Requests
      BY DEF Requests
    <3> QED BY <1>0, <1>1, <3>1 DEF TypeOK, Request, Labels
  <2>2. CallerOK'
    BY <1>0, <1>1 DEF TypeOK, CallerOK, Adding, Removing, Request
  <2>3. ParamOK'
    BY <1>0, <1>1 DEF TypeOK, ParamOK, Request
  <2> QED BY <2>1, <2>2, <2>3
<1>2. ASSUME NEW info \in Info, WsCreate(c, info) \/ HttpAdd(c, info) PROVE TypeInv'
  BY <1>1, <1>2, TaskManagerAssumption DEF WsCreate, HttpAdd
<1>3. ASSUME NEW id \in Ids, Delete(c, id) PROVE TypeInv'
  BY <1>1, <1>3 DEF Delete, Codes
<1>4. ASSUME NEW g \in Garbage, FrameReuse(c, g) PROVE TypeInv'
  <2>1. TypeOK'
    BY <1>4 DEF TypeOK, FrameReuse
  <2>2. CallerOK'
    BY <1>4 DEF CallerOK, Adding, Removing, FrameReuse
  <2>3. ParamOK'
    BY <1>4, TaskManagerAssumption DEF TypeOK, ParamOK, FrameReuse
  <2> QED BY <2>1, <2>2, <2>3
<1> QED BY <1>2, <1>3, <1>4 DEF Handler

LEMMA ScheduleType ==
  ASSUME TypeInv, NEW h \in Handles, Schedule(h), overlapped' \in BOOLEAN
  PROVE  TypeInv'
<1> USE ProcFacts, BlankTypes DEF TypeInv, ram, kernel, Goto
<1>1. CASE ScheduleStart(h)
  <2>1. ParamOf(h).code \in Codes
    BY <1>1, TaskManagerAssumption DEF ScheduleStart, TypeOK, ParamOK, ParamOf
  <2>2. TypeOK'
    BY <1>1, <2>1 DEF TypeOK, ScheduleStart, Labels
  <2>3. CallerOK' /\ ParamOK'
    BY <1>1 DEF TypeOK, CallerOK, Adding, Removing, ParamOK, ScheduleStart
  <2> QED BY <2>2, <2>3
<1>2. CASE ScheduleComplete(h)
  <2>1. TypeOK'
    BY <1>2 DEF TypeOK, ScheduleComplete, Labels
  <2>2. CallerOK' /\ ParamOK'
    BY <1>2 DEF TypeOK, CallerOK, Adding, Removing, ParamOK, ScheduleComplete
  <2> QED BY <2>1, <2>2
<1>3. CASE ScheduleExit(h)
  <2>1. TypeOK'
    BY <1>3 DEF TypeOK, ScheduleExit, Stop, Labels
  <2>2. CallerOK' /\ ParamOK'
    BY <1>3 DEF TypeOK, CallerOK, Adding, Removing, ParamOK, ScheduleExit, Stop
  <2> QED BY <2>1, <2>2
<1>4. CASE IdleReap(h)
  BY <1>4 DEF TypeOK, CallerOK, Adding, Removing, ParamOK, IdleReap
<1> QED BY <1>1, <1>2, <1>3, <1>4 DEF Schedule

LEMMA BootType ==
  ASSUME TypeInv, Boot, overlapped' \in BOOLEAN
  PROVE  TypeInv'
<1> USE ProcFacts, BlankTypes DEF TypeInv, ram, kernel, Goto
<1>1. CASE BootSave
  <2>1. TypeOK'
    BY <1>1, SavedType DEF TypeOK, BootSave, Save, Labels
  <2>2. CallerOK' /\ ParamOK'
    BY <1>1 DEF TypeOK, CallerOK, Adding, Removing, ParamOK, BootSave, Save
  <2> QED BY <2>1, <2>2
<1>2. CASE BootLoad
  <2>1. task_list' \in [Slots -> Entry] /\ task_count' \in Int
    <3>1. CASE UNCHANGED ram
      BY <3>1 DEF TypeOK
    <3>2. ASSUME Len(flash) <= MAX_TASKS, task_count' = Len(flash),
                 NEW old \in [Slots -> Handles],
                 task_list' = [k \in Slots |->
                   IF k < Len(flash) THEN [handle |-> old[k], info |-> flash[k + 1]]
                   ELSE task_list[k]]
          PROVE  task_list' \in [Slots -> Entry] /\ task_count' \in Int
      <4>1. Len(flash) \in Nat /\ \A k \in 1 .. Len(flash) : flash[k] \in Info \cup {NULL}
        BY DEF TypeOK
      <4>2. \A k \in Slots : k < Len(flash) => flash[k + 1] \in Info \cup {NULL}
        BY <4>1 DEF Slots
      <4> QED BY <3>2, <4>1, <4>2 DEF TypeOK, Entry
    <3> QED BY <1>2, <3>1, <3>2 DEF BootLoad
  <2>2. TypeOK'
    BY <1>2, <2>1 DEF TypeOK, BootLoad, Labels
  <2>3. CallerOK' /\ ParamOK'
    BY <1>2 DEF TypeOK, CallerOK, Adding, Removing, ParamOK, BootLoad
  <2> QED BY <2>2, <2>3
<1>3. ASSUME NEW h \in Handles, BootStart(h) PROVE TypeInv'
  <2>1. loc' \in [Procs -> Locals]
    <3>1. loc[Main] \in Locals /\ loc' = [loc EXCEPT ![Main].i = @ + 1]
      BY <1>3 DEF TypeOK, BootStart
    <3>2. [loc[Main] EXCEPT !.i = @ + 1] \in Locals
      BY <3>1 DEF Locals
    <3> QED BY <3>1, <3>2 DEF TypeOK
  <2>2. task_list[loc[Main].i].info \in Info
    BY <1>3 DEF TypeOK, BootStart, Entry
  <2>3. task_list' \in [Slots -> Entry]
    BY <1>3 DEF TypeOK, BootStart, Entry
  <2>4. TypeOK'
    BY <1>3, <2>1, <2>2, <2>3 DEF TypeOK, BootStart, Labels
  <2>5. CallerOK'
    BY <1>3 DEF TypeOK, CallerOK, Adding, Removing, BootStart
  <2>6. ParamOK'
    BY <1>3, <2>2 DEF TypeOK, ParamOK, BootStart
  <2> QED BY <2>4, <2>5, <2>6
<1>4. CASE BootStartFail
  <2>1. loc' \in [Procs -> Locals]
    <3>1. loc[Main] \in Locals /\ loc' = [loc EXCEPT ![Main].i = @ + 1]
      BY <1>4 DEF TypeOK, BootStartFail
    <3>2. [loc[Main] EXCEPT !.i = @ + 1] \in Locals
      BY <3>1 DEF Locals
    <3> QED BY <3>1, <3>2 DEF TypeOK
  <2> QED BY <1>4, <2>1 DEF TypeOK, CallerOK, Adding, Removing, ParamOK, BootStartFail
<1>5. CASE BootDone
  <2>1. TypeOK'
    BY <1>5 DEF TypeOK, BootDone, Labels
  <2>2. CallerOK' /\ ParamOK'
    BY <1>5 DEF TypeOK, CallerOK, Adding, Removing, ParamOK, BootDone
  <2> QED BY <2>1, <2>2
<1> QED BY <1>1, <1>2, <1>3, <1>4, <1>5 DEF Boot

LEMMA RebootType ==
  ASSUME TypeInv, Reboot, overlapped' \in BOOLEAN
  PROVE  TypeInv'
<1> USE ProcFacts, BlankTypes DEF TypeInv
<1>1. pc' \in [Procs -> Labels]
  BY DEF Reboot, Labels
<1>2. task_list' \in [Slots -> Entry]
  BY DEF Reboot, Blank, Entry
<1>3. TypeOK'
  BY <1>1, <1>2 DEF TypeOK, Reboot
<1>4. CallerOK' /\ ParamOK'
  BY DEF Reboot, CallerOK, Adding, Removing, ParamOK, NoReq
<1> QED BY <1>3, <1>4

LEMMA NextType == TypeInv /\ [Next]_vars => TypeInv'
<1> SUFFICES ASSUME TypeInv, [Next]_vars PROVE TypeInv'
  OBVIOUS
<1>1. CASE UNCHANGED vars
  BY <1>1 DEF vars, TypeInv, TypeOK, CallerOK, Adding, Removing, ParamOK
<1>2. CASE Next
  <2>1. overlapped' \in BOOLEAN
    BY <1>2 DEF Next, Overlap
  <2>2. ASSUME NEW p \in Callers \cup Handles, Panic(p) PROVE TypeInv'
    BY <2>1, <2>2 DEF Panic, TypeInv, TypeOK, CallerOK, Adding, Removing, ParamOK, ram, kernel
  <2> QED BY <1>2, <2>1, <2>2, DeleteType, CreateType, HandlerType, ScheduleType,
             BootType, RebootType DEF Next, Step
<1> QED BY <1>1, <1>2

\* Every variable keeps its type in every execution, overlapping calls, undefined
\* behaviour and reboots included.
THEOREM TypeCorrect == Spec => []TypeOK
<1>1. TypeInv => TypeOK
  BY DEF TypeInv
<1> QED BY <1>1, InitType, NextType, PTL DEF Spec

-----------------------------------------------------------------------------
(***************************************************************************)
(* The inductive invariant behind the safety properties.  LocalsOK and     *)
(* AliveOK hold always; SerialInv says where each task can be as long as   *)
(* no two calls have overlapped.                                           *)
(***************************************************************************)

LocalsOK ==
  \A p \in Procs :
    pc[p] \notin Removing \cup (Adding \ {"spawn"})
                 \cup {"find", "save", "kill", "saveNew", "bootStart"} => loc[p] = NoLocals

AliveOK == \A h \in Handles : h \notin alive => pc[h] = "none"

OverlapInv == Overlap => overlapped

\* Where the registry has changed and NVS has not been written yet.
Unsaved == Removing \cup {"save", "saveNew", "bootSave"}

Registry ==
  /\ task_count \in 0 .. MAX_TASKS
  /\ \A k \in Slots : k < task_count => LiveEntry(task_list[k])

FlashOK == Len(flash) <= MAX_TASKS /\ \A k \in 1 .. Len(flash) : flash[k] # NULL

Mirror ==
  ~stale /\ (\A p \in Procs : pc[p] \notin Unsaved) =>
    /\ Len(flash) = task_count
    /\ \A k \in 1 .. task_count : flash[k] = task_list[k - 1].info

Point(p) ==
  /\ pc[p] # "dead"
  /\ pc[p] = "find" => loc[p].i <= task_count
  /\ pc[p] \in Removing =>
       /\ loc[p].i <= loc[p].j /\ loc[p].j < task_count
       /\ loc[p].i = loc[p].j => task_list[loc[p].i].handle = loc[p].xHandle
       /\ pc[p] # "shift" => loc[p].j = task_count - 1
  /\ pc[p] \in {"save", "kill"} =>
       /\ loc[p].i \in Slots /\ loc[p].i <= task_count
       /\ LiveEntry(task_list[loc[p].i])
       /\ loc[p].i = task_count => task_list[loc[p].i].handle = loc[p].xHandle
  /\ pc[p] = "fill" => loc[p].xHandle # NULL
  /\ pc[p] \in {"fillInfo", "inc", "incStore"} =>
       task_count \in Slots /\ task_list[task_count].handle # NULL
  /\ pc[p] \in {"inc", "incStore"} => task_list[task_count].info # NULL
  /\ pc[p] \in {"decStore", "incStore"} => loc[p].loaded = task_count

SerialInv == Registry /\ FlashOK /\ Mirror /\ \A p \in Procs : Point(p)

IInv ==
  /\ TypeInv /\ LocalsOK /\ AliveOK /\ OverlapInv
  /\ ~overlapped => SerialInv

LEMMA InitIInv == Init => IInv
<1> SUFFICES ASSUME Init PROVE IInv
  OBVIOUS
<1>1. TypeInv
  BY InitType
<1>2. LocalsOK /\ AliveOK
  BY ProcFacts DEF Init, LocalsOK, AliveOK
<1>3. OverlapInv
  BY ProcFacts DEF Init, OverlapInv, Overlap, Busy, Procs
<1>4. Registry /\ FlashOK
  BY TaskManagerAssumption DEF Init, Registry, FlashOK, Slots
<1>5. Mirror
  BY ProcFacts DEF Init, Mirror, Unsaved
<1>6. \A p \in Procs : Point(p)
  BY DEF Init, Point, Removing
<1> QED BY <1>1, <1>2, <1>3, <1>4, <1>5, <1>6 DEF IInv, SerialInv

\* Another task is not inside the registry while p is.
LEMMA Alone ==
  ASSUME OverlapInv, ~overlapped, NEW p \in Procs, Busy(p), NEW q \in Procs, q # p
  PROVE  ~Busy(q)
BY DEF OverlapInv, Overlap

\* A task outside the registry claims nothing about it.
LEMMA OutsidePoint ==
  ASSUME NEW q \in Procs, ~Busy(q)', pc'[q] # "dead"
  PROVE  Point(q)'
BY DEF Busy, Point, Removing

LEMMA LocalsStep ==
  ASSUME TypeInv, LocalsOK, AliveOK, Next
  PROVE  LocalsOK' /\ AliveOK'
<1> USE ProcFacts DEF TypeInv, TypeOK, ram, kernel, Goto, LocalsOK, AliveOK, Removing, Adding
<1>1. ASSUME NEW p \in Callers \cup Handles, DeleteTask(p) PROVE LocalsOK' /\ AliveOK'
  <2>0. p \in Procs
    OBVIOUS
  <2>1. CASE FindNext(p) \/ FindMatch(p) \/ Shift(p) \/ SaveAfterDelete(p)
    BY <2>0, <2>1 DEF FindNext, FindMatch, Shift, SaveAfterDelete, Save
  <2>5. CASE LeaveShift(p) \/ DecrementLoad(p) \/ DecrementCount(p)
    BY <2>0, <2>5 DEF LeaveShift, DecrementLoad, DecrementCount, LoadCount, StoreCount
  <2>2. CASE FindNone(p) \/ KillSkip(p)
    BY <2>0, <2>2 DEF FindNone, KillSkip, AfterDelete
  <2>3. CASE KillTask(p)
    BY <2>0, <2>3 DEF KillTask, Stop, AfterDelete
  <2>4. CASE KillSelf(p)
    BY <2>0, <2>4 DEF KillSelf, Stop
  <2> QED BY <1>1, <2>1, <2>2, <2>3, <2>4, <2>5 DEF DeleteTask
<1>2. ASSUME NEW p \in Callers \cup Handles, Panic(p) PROVE LocalsOK' /\ AliveOK'
  BY <1>2 DEF Panic
<1>3. ASSUME NEW c \in Callers, CreateTask(c) PROVE LocalsOK' /\ AliveOK'
  <2>1. CASE SpawnFail(c) \/ SaveAfterCreate(c)
    BY <2>1 DEF SpawnFail, SaveAfterCreate, Save
  <2>4. CASE FillHandle(c) \/ FillInfo(c)
    BY <2>4 DEF FillHandle, FillInfo
  <2>3. CASE IncrementLoad(c) \/ IncrementCount(c)
    BY <2>3 DEF IncrementLoad, IncrementCount, LoadCount, StoreCount
  <2>2. ASSUME NEW h \in Handles, Spawn(c, h) PROVE LocalsOK' /\ AliveOK'
    BY <2>2 DEF Spawn, FreeHandles
  <2> QED BY <1>3, <2>1, <2>2, <2>3, <2>4 DEF CreateTask
<1>4. ASSUME NEW c \in Callers, Handler(c) PROVE LocalsOK' /\ AliveOK'
  BY <1>4 DEF Handler, WsCreate, HttpAdd, Delete, Request, FrameReuse
<1>5. ASSUME NEW h \in Handles, Schedule(h) PROVE LocalsOK' /\ AliveOK'
  BY <1>5 DEF Schedule, ScheduleStart, ScheduleComplete, ScheduleExit, IdleReap, Stop
<1>6. CASE Boot
  <2>1. CASE BootSave \/ BootLoad \/ BootStartFail \/ BootDone
    BY <2>1 DEF BootSave, Save, BootLoad, BootStartFail, BootDone
  <2>2. ASSUME NEW h \in Handles, BootStart(h) PROVE LocalsOK' /\ AliveOK'
    BY <2>2 DEF BootStart, FreeHandles
  <2> QED BY <1>6, <2>1, <2>2 DEF Boot
<1>7. CASE Reboot
  BY <1>7 DEF Reboot
<1> QED BY <1>1, <1>2, <1>3, <1>4, <1>5, <1>6, <1>7 DEF Next, Step

\* A step that changes neither the registry nor NVS, and completes no save.
LEMMA QuietStep ==
  ASSUME SerialInv, UNCHANGED <<task_list, task_count, flash, stale>>,
         \A q \in Procs : pc[q] \in Unsaved => pc'[q] \in Unsaved
  PROVE  Registry' /\ FlashOK' /\ Mirror'
<1>1. Registry' /\ FlashOK'
  BY DEF SerialInv, Registry, FlashOK
<1>2. Mirror'
  BY DEF SerialInv, Mirror
<1> QED BY <1>1, <1>2

\* The points of the tasks that a step does not move.
LEMMA StillPoint ==
  ASSUME NEW q \in Procs, Point(q), pc'[q] = pc[q], loc'[q] = loc[q],
         UNCHANGED <<task_list, task_count>>
  PROVE  Point(q)'
BY DEF Point

\* save_tasks_to_nvs, at the end of a call or of its search.
LEMMA SaveStep ==
  ASSUME TypeInv, OverlapInv, SerialInv, ~overlapped,
         NEW p \in Procs, NEW to \in Labels \ Unsaved, pc[p] \in Unsaved,
         Save(p, pc[p], to)
  PROVE  Registry' /\ FlashOK' /\ Mirror'
<1> USE DEF TypeInv, TypeOK, ram, kernel
<1>1. Registry'
  BY DEF SerialInv, Registry, Save
<1>2. CASE flash' = flash /\ stale' = TRUE
  BY <1>1, <1>2 DEF SerialInv, FlashOK, Mirror
<1>3. CASE flash' = Saved /\ stale' = FALSE
  <2>1. task_count \in Nat /\ task_count <= MAX_TASKS
    BY TaskManagerAssumption DEF SerialInv, Registry
  <2>2. Len(Saved) = task_count
    BY <2>1 DEF Saved
  <2>3. \A k \in 1 .. task_count : Saved[k] = task_list[k - 1].info
    <3>1. \A k \in 1 .. task_count : k <= MAX_TASKS
      BY <2>1, TaskManagerAssumption
    <3> QED BY <3>1, Zenon DEF Saved
  <2>4. \A k \in 1 .. task_count : task_list[k - 1].info # NULL
    BY <2>1, TaskManagerAssumption DEF SerialInv, Registry, LiveEntry, Slots
  <2>5. UNCHANGED <<task_list, task_count>>
    BY DEF Save
  <2> QED BY <1>1, <1>3, <2>1, <2>2, <2>3, <2>4, <2>5 DEF FlashOK, Mirror
<1> QED BY <1>1, <1>2, <1>3 DEF Save

LEMMA SerialDelete ==
  ASSUME IInv, ~overlapped, NEW p \in Callers \cup Handles, DeleteTask(p)
  PROVE  SerialInv'
<1> USE ProcFacts DEF IInv, TypeInv, TypeOK, ram, kernel, Goto, Removing
<1>0. p \in Procs /\ Point(p)
  BY DEF SerialInv
<1>1. \A q \in Procs : q # p => ~Busy(q)
  <2>1. Busy(p)
    BY DEF DeleteTask, FindNext, FindMatch, FindNone, Shift, LeaveShift, DecrementLoad,
           DecrementCount, LoadCount, StoreCount, SaveAfterDelete, Save, KillSkip,
           KillTask, KillSelf, Busy
  <2> QED BY <1>0, <2>1, Alone
<1>2. \A q \in Procs : Point(q) /\ pc[q] # "dead"
  BY DEF SerialInv, Point
<1>3. ASSUME Registry', FlashOK', Mirror', Point(p)',
             \A q \in Procs : q # p => pc'[q] \in {pc[q], "none"}
      PROVE  SerialInv'
  <2>1. ASSUME NEW q \in Procs, q # p PROVE Point(q)'
    BY <1>1, <1>2, <1>3, <2>1, OutsidePoint DEF Busy
  <2> QED BY <1>3, <2>1 DEF SerialInv
<1>4. CASE FindNext(p)
  <2>1. Registry' /\ FlashOK' /\ Mirror'
    BY <1>4, QuietStep DEF FindNext
  <2>2. Point(p)'
    BY <1>0, <1>4 DEF FindNext, Point, Locals
  <2> QED BY <1>3, <1>4, <2>1, <2>2 DEF FindNext
<1>5. CASE FindMatch(p)
  <2>1. Registry' /\ FlashOK' /\ Mirror'
    BY <1>0, <1>5, QuietStep DEF FindMatch, Unsaved
  <2>2. Point(p)'
    BY <1>0, <1>5 DEF FindMatch, Point, Locals
  <2> QED BY <1>0, <1>3, <1>5, <2>1, <2>2 DEF FindMatch
<1>6. CASE FindNone(p)
  <2>1. Registry' /\ FlashOK' /\ Mirror'
    BY <1>0, <1>6, QuietStep DEF FindNone, Unsaved
  <2>2. Point(p)'
    BY <1>0, <1>6 DEF FindNone, Point, AfterDelete
  <2> QED BY <1>0, <1>3, <1>6, <2>1, <2>2 DEF FindNone
<1>7. CASE Shift(p)
  <2>0. loc[p].i \in Nat /\ loc[p].j \in Nat /\ pc[p] = "shift"
    BY <1>0, <1>7 DEF Shift, Locals
  <2>1. Registry'
    <3>1. LiveEntry(task_list[loc[p].j + 1])
      BY <1>7, <2>0 DEF Shift, SerialInv, Registry
    <3>2. ASSUME NEW k \in Slots, k < task_count PROVE LiveEntry(task_list'[k])
      <4>1. LiveEntry(task_list[k])
        BY <3>2 DEF SerialInv, Registry
      <4> QED BY <1>7, <3>1, <3>2, <4>1 DEF Shift
    <3>3. task_count' = task_count /\ task_count \in 0 .. MAX_TASKS
      BY <1>7 DEF Shift, SerialInv, Registry
    <3> QED BY <3>2, <3>3 DEF Registry
  <2>2. FlashOK' /\ Mirror'
    BY <1>0, <1>7, <2>0 DEF Shift, SerialInv, FlashOK, Mirror, Unsaved
  <2>3. Point(p)'
    BY <1>0, <1>7, <2>0 DEF Shift, Point, Locals
  <2> QED BY <1>3, <1>7, <2>1, <2>2, <2>3 DEF Shift
<1>8. CASE LeaveShift(p) \/ DecrementLoad(p)
  <2>1. pc[p] \in {"shift", "dec"} /\ pc'[p] \in {"dec", "decStore"}
    BY <1>0, <1>8 DEF LeaveShift, DecrementLoad, LoadCount
  <2>2. Registry' /\ FlashOK' /\ Mirror'
    BY <1>0, <1>8, <2>1, QuietStep DEF LeaveShift, DecrementLoad, LoadCount, Unsaved, Removing
  <2>3. Point(p)'
    <3>0. loc[p].j \in Nat /\ task_count \in Int
      BY <1>0 DEF Locals
    <3>1. CASE LeaveShift(p)
      BY <1>0, <1>8, <3>0, <3>1 DEF LeaveShift, Point
    <3>2. CASE DecrementLoad(p)
      BY <1>0, <1>8, <3>2 DEF DecrementLoad, LoadCount, Point, Locals
    <3> QED BY <1>8, <3>1, <3>2
  <2> QED BY <1>0, <1>3, <1>8, <2>2, <2>3 DEF LeaveShift, DecrementLoad, LoadCount
<1>13. CASE DecrementCount(p)
  <2>0. /\ loc[p].i \in Nat /\ loc[p].j \in Nat /\ pc[p] = "decStore"
        /\ loc[p].i <= loc[p].j /\ loc[p].j = task_count - 1
        /\ task_count \in 1 .. MAX_TASKS /\ loc[p].loaded = task_count
    BY <1>0, <1>13, TaskManagerAssumption
    DEF DecrementCount, StoreCount, Locals, Point, Removing, SerialInv, Registry
  <2>1. Registry'
    <3>1. task_list' = task_list /\ task_count' = task_count - 1
      BY <1>13, <2>0 DEF DecrementCount, StoreCount
    <3>2. task_count - 1 \in 0 .. MAX_TASKS
      BY <2>0, TaskManagerAssumption
    <3>3. \A k \in Slots : k < task_count - 1 => LiveEntry(task_list[k])
      BY <2>0 DEF SerialInv, Registry, Slots
    <3> QED BY <3>1, <3>2, <3>3 DEF Registry
  <2>2. FlashOK' /\ Mirror'
    BY <1>0, <1>13 DEF DecrementCount, StoreCount, SerialInv, FlashOK, Mirror, Unsaved
  <2>3. Point(p)'
    <3>1. loc[p].i \in Slots /\ LiveEntry(task_list[loc[p].i])
      BY <2>0, TaskManagerAssumption DEF SerialInv, Registry, Slots
    <3>2. loc[p].i = task_count - 1 => task_list[loc[p].i].handle = loc[p].xHandle
      BY <1>0, <2>0 DEF Point, Removing
    <3>3. loc[p].i <= task_count - 1
      BY <2>0
    <3>4. loc'[p].i = loc[p].i /\ loc'[p].xHandle = loc[p].xHandle /\ pc'[p] = "save"
      BY <1>0, <1>13 DEF DecrementCount, StoreCount, Locals
    <3>5. task_count' = task_count - 1 /\ task_list' = task_list
      BY <1>13, <2>0 DEF DecrementCount, StoreCount
    <3> QED BY <3>1, <3>2, <3>3, <3>4, <3>5 DEF Point, Removing
  <2> QED BY <1>0, <1>3, <1>13, <2>1, <2>2, <2>3 DEF DecrementCount, StoreCount
<1>9. CASE SaveAfterDelete(p)
  <2>1. Registry' /\ FlashOK' /\ Mirror'
    BY <1>0, <1>9, SaveStep DEF SaveAfterDelete, Save, Unsaved, Labels
  <2>2. Point(p)'
    BY <1>0, <1>9 DEF SaveAfterDelete, Save, Point
  <2> QED BY <1>0, <1>3, <1>9, <2>1, <2>2 DEF SaveAfterDelete, Save
<1>10. CASE KillSkip(p)
  <2>1. Registry' /\ FlashOK' /\ Mirror'
    BY <1>0, <1>10, QuietStep DEF KillSkip, Unsaved
  <2>2. Point(p)'
    BY <1>0, <1>10 DEF KillSkip, Point, AfterDelete
  <2> QED BY <1>0, <1>3, <1>10, <2>1, <2>2 DEF KillSkip
<1>11. CASE KillTask(p)
  <2>1. \A q \in Procs : pc[q] \in Unsaved => pc'[q] \in Unsaved
    BY <1>0, <1>1, <1>11 DEF KillTask, Unsaved, Busy
  <2>2. Registry' /\ FlashOK' /\ Mirror'
    BY <1>11, <2>1, QuietStep DEF KillTask
  <2>3. Point(p)'
    BY <1>0, <1>11 DEF KillTask, Point, AfterDelete
  <2> QED BY <1>0, <1>3, <1>11, <2>2, <2>3 DEF KillTask
<1>12. CASE KillSelf(p)
  <2>1. p \in Handles
    BY <1>0, <1>12 DEF KillSelf, Point, LiveEntry, Entry
  <2>2. Registry' /\ FlashOK' /\ Mirror'
    BY <1>0, <1>12, <2>1, QuietStep DEF KillSelf, Unsaved
  <2>3. Point(p)'
    BY <1>0, <1>12, <2>1 DEF KillSelf, Point
  <2> QED BY <1>0, <1>3, <1>12, <2>1, <2>2, <2>3 DEF KillSelf
<1> QED BY <1>4, <1>5, <1>6, <1>7, <1>8, <1>9, <1>10, <1>11, <1>12, <1>13 DEF DeleteTask

LEMMA SerialCreate ==
  ASSUME IInv, ~overlapped, NEW c \in Callers, CreateTask(c)
  PROVE  SerialInv'
<1> USE ProcFacts DEF IInv, TypeInv, TypeOK, ram, kernel, Goto, Removing
<1>0. c \in Procs /\ Point(c)
  BY DEF SerialInv
<1>1. \A q \in Procs : q # c => ~Busy(q) /\ pc[q] # "dead"
  <2>1. Busy(c)
    BY DEF CreateTask, SpawnFail, Spawn, FillHandle, FillInfo, IncrementLoad,
           IncrementCount, LoadCount, StoreCount, SaveAfterCreate, Save, Busy
  <2> QED BY <1>0, <2>1, Alone DEF SerialInv, Point
<1>2. ASSUME Registry', FlashOK', Mirror', Point(c)',
             \A q \in Procs : q # c => pc'[q] \in {pc[q], "start"}
      PROVE  SerialInv'
  <2>1. ASSUME NEW q \in Procs, q # c PROVE Point(q)'
    BY <1>1, <1>2, <2>1, OutsidePoint DEF Busy
  <2> QED BY <1>2, <2>1 DEF SerialInv
<1>3. CASE SpawnFail(c)
  <2>1. Registry' /\ FlashOK' /\ Mirror'
    BY <1>0, <1>3, QuietStep DEF SpawnFail, Unsaved
  <2>2. Point(c)'
    BY <1>0, <1>3 DEF SpawnFail, Point
  <2> QED BY <1>0, <1>2, <1>3, <2>1, <2>2 DEF SpawnFail
<1>4. ASSUME NEW h \in Handles, Spawn(c, h) PROVE SerialInv'
  <2>0. pc[h] = "none"
    BY <1>4 DEF Spawn, FreeHandles, AliveOK
  <2>1. Registry' /\ FlashOK' /\ Mirror'
    BY <1>0, <1>4, <2>0, QuietStep DEF Spawn, Unsaved
  <2>2. Point(c)'
    BY <1>0, <1>4 DEF Spawn, Point, Locals
  <2> QED BY <1>0, <1>2, <1>4, <2>1, <2>2 DEF Spawn
<1>5. CASE FillHandle(c) \/ FillInfo(c)
  <2>0. /\ task_count \in Slots /\ pc'[c] \in {"fillInfo", "inc"}
        /\ UNCHANGED <<task_count, flash, stale>>
        /\ \A k \in Slots : k # task_count => task_list'[k] = task_list[k]
    BY <1>0, <1>5 DEF FillHandle, FillInfo
  <2>1. Registry' /\ FlashOK'
    BY <2>0 DEF SerialInv, Registry, FlashOK
  <2>2. Mirror'
    <3>1. SUFFICES ASSUME ~stale, \A q \in Procs : pc'[q] \notin Unsaved
                   PROVE  Mirror'
      BY <2>0 DEF Mirror
    <3>2. \A q \in Procs : pc[q] \notin Unsaved
      BY <1>0, <1>5, <3>1 DEF FillHandle, FillInfo, Unsaved, Removing
    <3>3. Len(flash) = task_count /\ \A k \in 1 .. task_count : flash[k] = task_list[k - 1].info
      BY <3>1, <3>2 DEF SerialInv, Mirror
    <3>4. ASSUME NEW k \in 1 .. task_count PROVE task_list'[k - 1] = task_list[k - 1]
      <4>1. k - 1 \in Slots /\ k - 1 # task_count
        BY <2>0, TaskManagerAssumption DEF Slots
      <4> QED BY <2>0, <4>1
    <3> QED BY <2>0, <3>3, <3>4 DEF Mirror
  <2>3. Point(c)'
    <3>1. CASE FillHandle(c)
      <4>1. pc'[c] = "fillInfo" /\ task_list'[task_count].handle # NULL
        BY <1>0, <2>0, <3>1 DEF FillHandle, Point, Entry
      <4> QED BY <2>0, <4>1 DEF Point, Removing
    <3>2. CASE FillInfo(c)
      <4>1. pc[c] = "fillInfo" /\ pc'[c] = "inc" /\ req[c].info # NULL
        BY <1>0, <3>2 DEF FillInfo, CallerOK, Adding
      <4>2. task_list'[task_count].handle # NULL /\ task_list'[task_count].info # NULL
        BY <1>0, <2>0, <3>2, <4>1 DEF FillInfo, Point, Entry
      <4> QED BY <2>0, <4>1, <4>2 DEF Point, Removing
    <3> QED BY <1>5, <3>1, <3>2
  <2> QED BY <1>0, <1>2, <1>5, <2>1, <2>2, <2>3 DEF FillHandle, FillInfo
<1>8. CASE IncrementLoad(c)
  <2>1. Registry' /\ FlashOK' /\ Mirror'
    BY <1>0, <1>8, QuietStep DEF IncrementLoad, LoadCount, Unsaved, Removing
  <2>2. Point(c)'
    BY <1>0, <1>8 DEF IncrementLoad, LoadCount, Point, Locals, Removing
  <2> QED BY <1>0, <1>2, <1>8, <2>1, <2>2 DEF IncrementLoad, LoadCount
<1>6. CASE IncrementCount(c)
  <2>0. /\ task_count \in Slots /\ LiveEntry(task_list[task_count])
        /\ task_list' = task_list /\ task_count' = task_count + 1
    BY <1>0, <1>6 DEF IncrementCount, StoreCount, Point, LiveEntry
  <2>1. Registry'
    <3>1. task_count + 1 \in 0 .. MAX_TASKS
      BY <2>0, TaskManagerAssumption DEF Slots
    <3>2. \A k \in Slots : k < task_count + 1 => LiveEntry(task_list[k])
      BY <2>0 DEF SerialInv, Registry, Slots
    <3> QED BY <2>0, <3>1, <3>2 DEF Registry
  <2>2. FlashOK' /\ Mirror'
    BY <1>0, <1>6 DEF IncrementCount, StoreCount, SerialInv, FlashOK, Mirror, Unsaved
  <2>3. Point(c)'
    BY <1>0, <1>6 DEF IncrementCount, StoreCount, Point, Removing
  <2> QED BY <1>0, <1>2, <1>6, <2>1, <2>2, <2>3 DEF IncrementCount, StoreCount
<1>7. CASE SaveAfterCreate(c)
  <2>1. Registry' /\ FlashOK' /\ Mirror'
    BY <1>0, <1>7, SaveStep DEF SaveAfterCreate, Save, Unsaved, Labels
  <2>2. Point(c)'
    BY <1>0, <1>7 DEF SaveAfterCreate, Save, Point
  <2> QED BY <1>0, <1>2, <1>7, <2>1, <2>2 DEF SaveAfterCreate, Save
<1> QED BY <1>3, <1>4, <1>5, <1>6, <1>7, <1>8 DEF CreateTask

\* The steps that begin a call, and those of a schedule outside the registry.
LEMMA SerialOutside ==
  ASSUME IInv, ~overlapped, NEW p \in Callers \cup Handles,
         \/ p \in Callers /\ Handler(p)
         \/ p \in Handles /\ Schedule(p)
         \/ Panic(p)
  PROVE  SerialInv'
<1> USE ProcFacts DEF IInv, TypeInv, TypeOK, ram, kernel, Goto, Removing, Adding
<1>0. p \in Procs /\ \A q \in Procs : Point(q)
  BY DEF SerialInv
<1>1. /\ UNCHANGED <<task_list, task_count, flash, loc, stale>>
      /\ \A q \in Procs : q # p => pc'[q] = pc[q]
      /\ \/ pc'[p] = pc[p]
         \/ ~Busy(p) /\ pc'[p] \in {"spawn", "loop", "none"}
         \/ ~Busy(p) /\ pc'[p] = "find" /\ loc[p] = NoLocals
  <2>1. CASE p \in Callers /\ Handler(p)
    BY <1>0, <2>1 DEF Handler, WsCreate, HttpAdd, Delete, Request, FrameReuse, Busy, LocalsOK
  <2>2. CASE p \in Handles /\ Schedule(p)
    BY <1>0, <2>2 DEF Schedule, ScheduleStart, ScheduleComplete, ScheduleExit,
                      IdleReap, Busy, LocalsOK
  <2>3. CASE Panic(p)
    BY <2>3 DEF Panic
  <2> QED BY <2>1, <2>2, <2>3
<1>2. Registry' /\ FlashOK' /\ Mirror'
  BY <1>1, QuietStep DEF Busy, Unsaved
<1>3. Point(p)'
  <2>1. CASE pc'[p] = pc[p]
    BY <1>0, <1>1, <2>1, StillPoint
  <2>2. CASE pc'[p] \in {"spawn", "loop", "none"}
    BY <2>2 DEF Point
  <2>3. CASE pc'[p] = "find" /\ loc[p] = NoLocals
    BY <1>1, <2>3 DEF Point, NoLocals, SerialInv, Registry
  <2> QED BY <1>1, <2>1, <2>2, <2>3
<1>4. \A q \in Procs : q # p => Point(q)'
  BY <1>0, <1>1, StillPoint
<1> QED BY <1>2, <1>3, <1>4 DEF SerialInv

LEMMA SerialBoot ==
  ASSUME IInv, ~overlapped, Boot
  PROVE  SerialInv'
<1> USE ProcFacts DEF IInv, TypeInv, TypeOK, ram, kernel, Goto, Removing, Adding
<1>0. \A q \in Procs : q # Main => ~Busy(q) /\ pc[q] # "dead"
  <2>1. Busy(Main)
    BY DEF Boot, BootSave, Save, BootLoad, BootStart, BootStartFail, BootDone, Busy
  <2> QED BY <2>1, Alone DEF SerialInv, Point
<1>1. ASSUME Registry', FlashOK', Mirror',
             pc'[Main] \in {"bootLoad", "bootStart", "done"},
             \A q \in Procs : q # Main => pc'[q] \in {pc[q], "start"}
      PROVE  SerialInv'
  <2>1. ASSUME NEW q \in Procs, q # Main PROVE Point(q)'
    BY <1>0, <1>1, <2>1, OutsidePoint DEF Busy
  <2>2. Point(Main)'
    BY <1>1 DEF Point
  <2> QED BY <1>1, <2>1, <2>2 DEF SerialInv
<1>2. CASE BootSave
  <2>1. Registry' /\ FlashOK' /\ Mirror'
    BY <1>2, SaveStep DEF BootSave, Save, Unsaved, Labels
  <2> QED BY <1>1, <1>2, <2>1 DEF BootSave, Save
<1>3. CASE BootLoad
  <2>1. CASE UNCHANGED ram /\ stale' = TRUE
    BY <1>1, <1>3, <2>1 DEF BootLoad, SerialInv, Registry, FlashOK, Mirror
  <2>2. ASSUME Len(flash) <= MAX_TASKS, task_count' = Len(flash),
               NEW old \in [Slots -> Handles],
               task_list' = [k \in Slots |->
                 IF k < Len(flash) THEN [handle |-> old[k], info |-> flash[k + 1]]
                 ELSE task_list[k]]
        PROVE  SerialInv'
    <3>1. Len(flash) \in 0 .. MAX_TASKS
      BY <2>2, TaskManagerAssumption
    <3>2. \A k \in Slots : k < Len(flash) => flash[k + 1] # NULL /\ old[k] # NULL
      BY <3>1 DEF SerialInv, FlashOK, Slots
    <3>3. Registry'
      BY <2>2, <3>1, <3>2 DEF Registry, LiveEntry
    <3>4. FlashOK'
      BY <1>3 DEF BootLoad, SerialInv, FlashOK
    <3>5. \A k \in 1 .. Len(flash) : task_list'[k - 1].info = flash[k]
      BY <2>2, <3>1, TaskManagerAssumption DEF Slots
    <3>6. Mirror'
      BY <1>3, <2>2, <3>5 DEF BootLoad, Mirror
    <3> QED BY <1>1, <1>3, <3>3, <3>4, <3>6 DEF BootLoad
  <2> QED BY <1>3, <2>1, <2>2 DEF BootLoad
<1>4. ASSUME NEW h \in Handles, BootStart(h) PROVE SerialInv'
  <2>0. pc[h] = "none" /\ h # NULL
    BY <1>4 DEF BootStart, FreeHandles, AliveOK
  <2>1. \A k \in Slots : task_list'[k].info = task_list[k].info
                       /\ (LiveEntry(task_list[k]) => LiveEntry(task_list'[k]))
    BY <1>4, <2>0 DEF BootStart, LiveEntry, Entry
  <2>2. Registry' /\ FlashOK'
    BY <1>4, <2>1 DEF BootStart, SerialInv, Registry, FlashOK
  <2>3. Mirror'
    <3>1. SUFFICES ASSUME ~stale, \A q \in Procs : pc'[q] \notin Unsaved
                   PROVE  Mirror'
      BY <1>4 DEF BootStart, Mirror
    <3>2. \A q \in Procs : pc[q] \notin Unsaved
      BY <1>4, <2>0, <3>1 DEF BootStart, Unsaved
    <3>3. Len(flash) = task_count /\ \A k \in 1 .. task_count : flash[k] = task_list[k - 1].info
      BY <3>1, <3>2 DEF SerialInv, Mirror
    <3>4. \A k \in 1 .. task_count : k - 1 \in Slots
      BY TaskManagerAssumption DEF SerialInv, Registry, Slots
    <3> QED BY <1>4, <2>1, <3>3, <3>4 DEF BootStart, Mirror
  <2> QED BY <1>1, <1>4, <2>0, <2>2, <2>3 DEF BootStart
<1>5. CASE BootStartFail
  <2>1. Registry' /\ FlashOK' /\ Mirror'
    BY <1>5, QuietStep DEF BootStartFail
  <2> QED BY <1>1, <1>5, <2>1 DEF BootStartFail
<1>6. CASE BootDone
  <2>1. Registry' /\ FlashOK' /\ Mirror'
    BY <1>6, QuietStep DEF BootDone, Unsaved
  <2> QED BY <1>1, <1>6, <2>1 DEF BootDone
<1> QED BY <1>2, <1>3, <1>4, <1>5, <1>6 DEF Boot

LEMMA SerialReboot ==
  ASSUME IInv, ~overlapped, Reboot
  PROVE  SerialInv'
<1> USE ProcFacts DEF IInv
<1>1. Registry'
  BY TaskManagerAssumption DEF Reboot, Registry, Slots
<1>2. FlashOK'
  BY DEF Reboot, SerialInv, FlashOK
<1>3. Mirror'
  <2>1. pc'[Main] \in Unsaved
    BY DEF Reboot, Unsaved, Removing
  <2> QED BY <2>1 DEF Mirror
<1>4. ASSUME NEW q \in Procs PROVE Point(q)'
  BY <1>4 DEF Reboot, Point, Removing
<1> QED BY <1>1, <1>2, <1>3, <1>4 DEF SerialInv

LEMMA NextIInv == IInv /\ [Next]_vars => IInv'
<1> SUFFICES ASSUME IInv, [Next]_vars PROVE IInv'
  OBVIOUS
<1>0. TypeInv'
  BY NextType DEF IInv
<1>1. CASE UNCHANGED vars
  BY <1>0, <1>1 DEF vars, IInv, LocalsOK, AliveOK, OverlapInv, Overlap, Busy, SerialInv,
                    Registry, FlashOK, Mirror, Point, Removing, Adding
<1>2. CASE Next
  <2>1. LocalsOK' /\ AliveOK'
    BY <1>2, LocalsStep DEF IInv
  <2>2. OverlapInv' /\ (~overlapped' => ~overlapped)
    BY <1>2 DEF Next, OverlapInv
  <2>3. ASSUME ~overlapped PROVE SerialInv'
    BY <1>2, <2>3, SerialDelete, SerialCreate, SerialOutside, SerialBoot, SerialReboot
    DEF Next, Step
  <2> QED BY <1>0, <2>1, <2>2, <2>3 DEF IInv
<1> QED BY <1>1, <1>2

\* What the invariant says of the registry.
LEMMA IInvImplies == IInv => RegistryConsistent /\ NvsMirrors /\ DeleteStopsTail
<1> SUFFICES ASSUME IInv, ~overlapped
             PROVE  RegistryConsistent /\ NvsMirrors /\ DeleteStopsTail
  BY DEF RegistryConsistent, NvsMirrors, DeleteStopsTail
<1> USE ProcFacts DEF IInv
<1>1. RegistryConsistent
  <2>1. ASSUME NEW p \in Procs PROVE ~ReadsPastList(p) /\ ~StateOfNull(p)
    <3>1. /\ loc[p].i \in Nat /\ loc[p].j \in Nat /\ task_count \in 0 .. MAX_TASKS
          /\ \A k \in Slots : k < task_count => task_list[k].handle # NULL
      BY DEF TypeInv, TypeOK, Locals, SerialInv, Registry, LiveEntry
    <3> QED BY <3>1, TaskManagerAssumption DEF ReadsPastList, StateOfNull, Slots
  <2>2. \A c \in Callers : pc[c] # "dead"
    BY DEF SerialInv, Point
  <2>3. task_count \in 0 .. MAX_TASKS /\ \A k \in Slots : k < task_count => LiveEntry(task_list[k])
    BY DEF SerialInv, Registry
  <2> QED BY <2>1, <2>2, <2>3 DEF RegistryConsistent
<1>2. NvsMirrors
  BY DEF NvsMirrors, Quiescent, SerialInv, Mirror, Busy, Unsaved, Removing
<1>3. DeleteStopsTail
  BY DEF DeleteStopsTail, SerialInv, Point
<1> QED BY <1>1, <1>2, <1>3

\* Without overlapping calls the registry is complete and no function leaves the
\* array, asks the kernel about a null handle or ends the client's own task.
THEOREM RegistryStaysConsistent == Spec => []RegistryConsistent
<1>1. IInv => RegistryConsistent
  BY IInvImplies
<1> QED BY <1>1, InitIInv, NextIInv, PTL DEF Spec

\* Without overlapping calls, NVS and the registry agree between two calls.
THEOREM NvsStaysMirrored == Spec => []NvsMirrors
<1>1. IInv => NvsMirrors
  BY IInvImplies
<1> QED BY <1>1, InitIInv, NextIInv, PTL DEF Spec

\* Without overlapping calls, a delete of the last entry stops the right task.
THEOREM TailDeleteStopsItsTask == Spec => []DeleteStopsTail
<1>1. IInv => DeleteStopsTail
  BY IInvImplies
<1> QED BY <1>1, InitIInv, NextIInv, PTL DEF Spec
=============================================================================
