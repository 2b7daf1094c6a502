------------------------- MODULE TaskManager_bounds -------------------------
(***************************************************************************)
(* What keeps task_count inside the array, for any number of schedule      *)
(* tasks, ids and slots.                                                   *)
(*                                                                         *)
(* When calls overlap and there is one client: a delete stores one less    *)
(* than a count it has read, so no delete can take away the room the       *)
(* client has found for its entry, and the client stores one more than a   *)
(* count it has read with that room.                                       *)
(*                                                                         *)
(* When they do not, and only the websocket creates: the list holds every  *)
(* id at most once, so it is full only when every id is in it, and then    *)
(* the id of the next schedule is too.                                     *)
(***************************************************************************)
EXTENDS TaskManager_proofs, FiniteSetTheorems

OneClient == \A c, d \in Callers : c = d

\* Room for the entry the client is adding; what a delete has read was in bounds.
Bounded ==
  /\ task_count <= MAX_TASKS
  /\ \A p \in Procs : pc[p] = "decStore" => loc[p].loaded <= MAX_TASKS
  /\ \A c \in Callers :
       /\ pc[c] \in {"fillInfo", "inc", "incStore"} => task_count < MAX_TASKS
       /\ pc[c] = "incStore" => loc[c].loaded < MAX_TASKS

\* The clients wait for initialize_task_manager, and it loads before it starts
\* the first schedule: nobody is inside the registry when BootLoad sets task_count.
BootAlone ==
  /\ pc[Main] # "done" => \A c \in Callers : pc[c] = "idle"
  /\ pc[Main] \in {"bootSave", "bootLoad"} => \A h \in Handles : pc[h] = "none"

OneInv ==
  /\ TypeInv /\ AliveOK /\ LocalsOK /\ BootAlone
  /\ OneClient => Bounded

\* A step that leaves task_count alone, and brings no task to the labels where it
\* counts on its value.
LEMMA StillBounded ==
  ASSUME Bounded, task_count' = task_count,
         \A q \in Procs : pc'[q] = "decStore" => pc[q] = "decStore" /\ loc'[q] = loc[q],
         \A c \in Callers : pc'[c] \in {"fillInfo", "inc", "incStore"} =>
                             pc[c] = pc'[c] /\ loc'[c] = loc[c]
  PROVE  Bounded'
BY DEF Bounded

LEMMA DeleteBounded ==
  ASSUME OneInv, OneClient, NEW p \in Callers \cup Handles, DeleteTask(p)
  PROVE  Bounded'
<1> USE ProcFacts DEF OneInv, TypeInv, TypeOK, ram, kernel, Goto
<1>0. p \in Procs /\ task_count \in Int /\ MAX_TASKS \in Nat
  BY TaskManagerAssumption
<1>1. CASE \/ FindNext(p) \/ FindMatch(p) \/ FindNone(p) \/ Shift(p) \/ LeaveShift(p)
           \/ SaveAfterDelete(p) \/ KillSkip(p)
  <2>1. /\ task_count' = task_count
        /\ \A q \in Procs : q # p => pc'[q] = pc[q] /\ loc'[q] = loc[q]
        /\ pc'[p] \in {"find", "shift", "dec", "kill", "exit", "spawn", "idle"}
    BY <1>0, <1>1 DEF FindNext, FindMatch, FindNone, Shift, LeaveShift, SaveAfterDelete,
                      Save, KillSkip, AfterDelete
  <2> QED BY <2>1, StillBounded
<1>2. CASE KillTask(p) \/ KillSelf(p)
  <2>1. /\ task_count' = task_count
        /\ \A q \in Procs : q # p => pc'[q] \in {pc[q], "none"} /\ loc'[q] \in {loc[q], NoLocals}
        /\ \A q \in Procs : q # p /\ pc'[q] # "none" => loc'[q] = loc[q]
        /\ pc'[p] \in {"none", "exit", "spawn", "idle", "dead"}
    BY <1>0, <1>2 DEF KillTask, KillSelf, AfterDelete
  <2> QED BY <2>1, StillBounded
<1>3. CASE DecrementLoad(p)
  <2>1. /\ task_count' = task_count /\ pc'[p] = "decStore" /\ loc'[p].loaded = task_count
        /\ \A q \in Procs : q # p => pc'[q] = pc[q] /\ loc'[q] = loc[q]
    BY <1>0, <1>3 DEF DecrementLoad, LoadCount, Locals
  <2> QED BY <1>0, <2>1 DEF Bounded
<1>4. CASE DecrementCount(p)
  <2>1. /\ task_count' = loc[p].loaded - 1 /\ pc[p] = "decStore" /\ pc'[p] = "save"
        /\ \A q \in Procs : q # p => pc'[q] = pc[q] /\ loc'[q] = loc[q]
    BY <1>0, <1>4 DEF DecrementCount, StoreCount
  <2>2. loc[p].loaded \in Int /\ loc[p].loaded <= MAX_TASKS
    BY <1>0, <2>1 DEF Bounded, Locals
  <2> QED BY <1>0, <2>1, <2>2 DEF Bounded
<1> QED BY <1>1, <1>2, <1>3, <1>4 DEF DeleteTask

LEMMA CreateBounded ==
  ASSUME OneInv, OneClient, NEW c \in Callers, CreateTask(c)
  PROVE  Bounded'
<1> USE ProcFacts DEF OneInv, TypeInv, TypeOK, ram, kernel, Goto
<1>0. /\ c \in Procs /\ task_count \in Int /\ MAX_TASKS \in Nat
      /\ \A d \in Callers : d = c
  BY TaskManagerAssumption DEF OneClient
<1>1. CASE SpawnFail(c) \/ SaveAfterCreate(c) \/ \E h \in Handles : Spawn(c, h)
  <2>1. /\ task_count' = task_count
        /\ \A q \in Procs : q # c => pc'[q] \in {pc[q], "start"} /\ loc'[q] = loc[q]
        /\ pc'[c] \in {"idle", "fill"}
    BY <1>0, <1>1 DEF SpawnFail, SaveAfterCreate, Save, Spawn
  <2> QED BY <2>1, StillBounded
<1>2. CASE FillHandle(c) \/ FillInfo(c)
  <2>1. /\ task_count' = task_count /\ task_count \in Slots /\ pc'[c] # "incStore"
        /\ \A q \in Procs : q # c => pc'[q] = pc[q] /\ loc'[q] = loc[q]
        /\ pc'[c] # "decStore"
    BY <1>0, <1>2 DEF FillHandle, FillInfo
  <2> QED BY <1>0, <2>1 DEF Bounded, Slots
<1>3. CASE IncrementLoad(c)
  <2>1. /\ task_count' = task_count /\ pc[c] = "inc" /\ pc'[c] = "incStore"
        /\ loc'[c].loaded = task_count
        /\ \A q \in Procs : q # c => pc'[q] = pc[q] /\ loc'[q] = loc[q]
    BY <1>0, <1>3 DEF IncrementLoad, LoadCount, Locals
  <2> QED BY <1>0, <2>1 DEF Bounded
<1>4. CASE IncrementCount(c)
  <2>1. /\ task_count' = loc[c].loaded + 1 /\ pc[c] = "incStore" /\ pc'[c] = "saveNew"
        /\ \A q \in Procs : q # c => pc'[q] = pc[q] /\ loc'[q] = loc[q]
    BY <1>0, <1>4 DEF IncrementCount, StoreCount
  <2>2. loc[c].loaded \in Int /\ loc[c].loaded < MAX_TASKS
    BY <1>0, <2>1 DEF Bounded, Locals
  <2> QED BY <1>0, <2>1, <2>2 DEF Bounded
<1> QED BY <1>1, <1>2, <1>3, <1>4 DEF CreateTask

\* Requests, the steps of a schedule outside the registry, and undefined ones.
LEMMA OutsideBounded ==
  ASSUME OneInv, OneClient, NEW p \in Callers \cup Handles,
         \/ p \in Callers /\ Handler(p)
         \/ p \in Handles /\ Schedule(p)
         \/ Panic(p)
  PROVE  Bounded'
<1> USE ProcFacts DEF OneInv, TypeInv, TypeOK, ram, kernel, Goto
<1>0. p \in Procs
  OBVIOUS
<1>1. task_count' = task_count /\ loc' = loc
  BY DEF Handler, WsCreate, HttpAdd, Delete, Request, FrameReuse, Schedule,
         ScheduleStart, ScheduleComplete, ScheduleExit, IdleReap, Panic
<1>2. \A q \in Procs : pc'[q] \in {pc[q], "find", "spawn", "loop", "none"}
  <2>1. CASE p \in Callers /\ Handler(p)
    BY <1>0, <2>1 DEF Handler, WsCreate, HttpAdd, Delete, Request, FrameReuse
  <2>2. CASE p \in Handles /\ Schedule(p)
    BY <1>0, <2>2 DEF Schedule, ScheduleStart, ScheduleComplete, ScheduleExit, IdleReap
  <2>3. CASE Panic(p)
    BY <2>3 DEF Panic
  <2> QED BY <2>1, <2>2, <2>3
<1> QED BY <1>1, <1>2, StillBounded

LEMMA BootBounded ==
  ASSUME OneInv, OneClient, Boot
  PROVE  Bounded'
<1> USE ProcFacts DEF OneInv, TypeInv, TypeOK, ram, kernel, Goto
<1>1. /\ \A q \in Procs : pc'[q] \in {pc[q], "bootLoad", "bootStart", "done", "start"}
      /\ \A q \in Procs : q # Main => loc'[q] = loc[q]
      /\ pc'[Main] # "decStore"
  BY DEF Boot, BootSave, Save, BootLoad, BootStart, BootStartFail, BootDone
<1>2. CASE task_count' = task_count
  BY <1>1, <1>2, StillBounded
<1>3. CASE BootLoad /\ task_count' = Len(flash) /\ Len(flash) <= MAX_TASKS
  <2>1. \A c \in Callers : pc'[c] = "idle"
    BY <1>3 DEF BootLoad, BootAlone
  <2>2. \A h \in Handles : pc'[h] = "none"
    BY <1>3 DEF BootLoad, BootAlone
  <2> QED BY <1>1, <1>3, <2>1, <2>2 DEF Bounded, Procs
<1> QED BY <1>2, <1>3 DEF Boot, BootSave, Save, BootLoad, BootStart, BootStartFail, BootDone

LEMMA RebootBounded ==
  ASSUME Reboot
  PROVE  Bounded'
BY ProcFacts, TaskManagerAssumption DEF Reboot, Bounded

LEMMA BootAloneStep ==
  ASSUME OneInv, Next
  PROVE  BootAlone'
<1> USE ProcFacts DEF OneInv, TypeInv, TypeOK, ram, kernel, Goto, BootAlone
<1>1. ASSUME NEW p \in Callers \cup Handles, DeleteTask(p) PROVE BootAlone'
  <2>1. p \in Procs /\ p # Main /\ pc[p] \in Removing \cup {"find", "save", "kill"}
    BY <1>1 DEF DeleteTask, FindNext, FindMatch, FindNone, Shift, LeaveShift, DecrementLoad,
                DecrementCount, LoadCount, StoreCount, SaveAfterDelete, Save, KillSkip,
                KillTask, KillSelf, Removing
  <2>2. /\ pc[Main] \notin {"bootSave", "bootLoad"}
        /\ p \in Callers => pc[Main] = "done"
    BY <2>1 DEF Removing
  <2>3. ASSUME NEW q \in Procs, q # p, q \notin Handles PROVE pc'[q] = pc[q]
    <3>1. CASE KillTask(p)
      BY <2>1, <2>3, <3>1 DEF KillTask, Entry
    <3>2. CASE KillSelf(p)
      BY <2>1, <2>3, <3>2 DEF KillSelf
    <3> QED BY <1>1, <2>1, <2>3, <3>1, <3>2
            DEF DeleteTask, FindNext, FindMatch, FindNone, Shift, LeaveShift, DecrementLoad,
                DecrementCount, LoadCount, StoreCount, SaveAfterDelete, Save, KillSkip
  <2> QED BY <2>1, <2>2, <2>3
<1>2. ASSUME NEW p \in Callers \cup Handles, Panic(p) PROVE BootAlone'
  BY <1>2 DEF Panic
<1>3. ASSUME NEW c \in Callers, CreateTask(c) PROVE BootAlone'
  <2>1. c \in Procs /\ c # Main /\ pc[c] # "idle"
    BY <1>3 DEF CreateTask, SpawnFail, Spawn, FillHandle, FillInfo, IncrementLoad,
                IncrementCount, LoadCount, StoreCount, SaveAfterCreate, Save
  <2>2. pc[Main] = "done"
    BY <2>1
  <2>3. pc'[Main] = pc[Main]
    BY <1>3, <2>1 DEF CreateTask, SpawnFail, Spawn, FillHandle, FillInfo, IncrementLoad,
                      IncrementCount, LoadCount, StoreCount, SaveAfterCreate, Save
  <2> QED BY <2>2, <2>3
<1>4. ASSUME NEW c \in Callers, Handler(c) PROVE BootAlone'
  BY <1>4 DEF Handler, WsCreate, HttpAdd, Delete, Request, FrameReuse
<1>5. ASSUME NEW h \in Handles, Schedule(h) PROVE BootAlone'
  BY <1>5 DEF Schedule, ScheduleStart, ScheduleComplete, ScheduleExit, IdleReap, Stop
<1>6. CASE Boot
  <2>1. ASSUME NEW h \in Handles, BootStart(h) PROVE BootAlone'
    BY <2>1 DEF BootStart
  <2>2. CASE BootSave \/ BootLoad
    BY <2>2 DEF BootSave, Save, BootLoad
  <2>3. CASE BootStartFail \/ BootDone
    BY <2>3 DEF BootStartFail, BootDone
  <2> QED BY <1>6, <2>1, <2>2, <2>3 DEF Boot
<1>7. CASE Reboot
  BY <1>7 DEF Reboot
<1> QED BY <1>1, <1>2, <1>3, <1>4, <1>5, <1>6, <1>7 DEF Next, Step

LEMMA InitOneInv == Init => OneInv
<1> SUFFICES ASSUME Init PROVE OneInv
  OBVIOUS
<1>1. TypeInv /\ AliveOK /\ LocalsOK
  BY InitIInv DEF IInv
<1>2. BootAlone
  BY ProcFacts DEF Init, BootAlone
<1>3. Bounded
  BY ProcFacts, TaskManagerAssumption DEF Init, Bounded
<1> QED BY <1>1, <1>2, <1>3 DEF OneInv

LEMMA NextOneInv == OneInv /\ [Next]_vars => OneInv'
<1> SUFFICES ASSUME OneInv, [Next]_vars PROVE OneInv'
  OBVIOUS
<1>1. TypeInv'
  BY NextType DEF OneInv
<1>2. CASE UNCHANGED vars
  <2>1. AliveOK' /\ LocalsOK' /\ BootAlone'
    BY <1>2 DEF vars, OneInv, AliveOK, LocalsOK, BootAlone
  <2>2. Bounded => Bounded'
    BY <1>2 DEF vars, Bounded
  <2> QED BY <1>1, <2>1, <2>2 DEF OneInv, OneClient
<1>3. CASE Next
  <2>1. AliveOK' /\ LocalsOK'
    BY <1>3, LocalsStep DEF OneInv
  <2>2. BootAlone'
    BY <1>3, BootAloneStep
  <2>3. ASSUME OneClient PROVE Bounded'
    BY <1>3, <2>3, DeleteBounded, CreateBounded, OutsideBounded, BootBounded, RebootBounded
    DEF Next, Step
  <2> QED BY <1>1, <2>1, <2>2, <2>3 DEF OneInv, OneClient
<1> QED BY <1>2, <1>3

\* With one client, however the calls of the client and of the schedules overlap and
\* lose each other's updates of task_count, and whatever reboots come between them,
\* task_count never passes MAX_TASKS and no loop of delete_task leaves the array.
THEOREM OneClientStaysInBounds == Spec => []OneClientInBounds
<1>1. OneInv => OneClientInBounds
  <2> SUFFICES ASSUME OneInv, OneClient
               PROVE  task_count <= MAX_TASKS /\ \A p \in Procs : ~ReadsPastList(p)
    BY DEF OneClientInBounds, OneClient
  <2>1. task_count \in Int /\ task_count <= MAX_TASKS /\ MAX_TASKS \in Nat
    BY TaskManagerAssumption DEF OneInv, TypeInv, TypeOK, Bounded
  <2>2. ASSUME NEW p \in Procs PROVE ~ReadsPastList(p)
    <3>1. loc[p].i \in Nat /\ loc[p].j \in Nat
      BY DEF OneInv, TypeInv, TypeOK, Locals
    <3> QED BY <2>1, <3>1 DEF ReadsPastList, Slots
  <2> QED BY <2>1, <2>2
<1> QED BY <1>1, InitOneInv, NextOneInv, PTL DEF Spec

-----------------------------------------------------------------------------
(***************************************************************************)
(* Ids.  Held is where the registry holds an entry: the slots below        *)
(* task_count without the one a shift has reached.                         *)
(***************************************************************************)
Held == {k \in Slots : k < task_count /\ \A q \in Procs : pc[q] \in Removing => loc[q].j # k}

Absent(id) == \A k \in Held : IdOf(task_list[k]) # id
Distinct   == \A k, l \in Held : k # l => IdOf(task_list[k]) # IdOf(task_list[l])

\* The blob that the next boot loads.
FlashDistinct == \A k, l \in 1 .. Len(flash) : k # l => flash[k].id # flash[l].id

\* What the websocket task knows of the id it deletes, and creates again.
Replaces(c) ==
  /\ pc[c] = "find" =>
       \A k \in Slots : k < loc[c].i => IdOf(task_list[k]) # req[c].info.id
  /\ pc[c] \in Removing \cup Adding \cup {"save", "kill"} => Absent(req[c].info.id)
  /\ pc[c] \in {"inc", "incStore"} => task_list[task_count].info = req[c].info

\* Only the handlers are ever inside create_task.
OnlyCallersCreate ==
  \A p \in Procs \ Callers : pc[p] \notin Adding \cup {"saveNew"}

IdsInv == Distinct /\ FlashDistinct /\ \A c \in Callers : Replaces(c)

UInv == IInv /\ OnlyCallersCreate /\ (~overlapped => IdsInv)

\* A step that leaves the list, its hole and NVS as they are.
LEMMA QuietIds ==
  ASSUME Distinct, FlashDistinct, UNCHANGED <<task_list, task_count, flash>>,
         \A q \in Procs : pc'[q] \in Removing <=> pc[q] \in Removing,
         \A q \in Procs : pc[q] \in Removing => loc'[q].j = loc[q].j
  PROVE  Held' = Held /\ Distinct' /\ FlashDistinct'
<1>1. Held' = Held
  BY DEF Held
<1> QED BY <1>1 DEF Distinct, FlashDistinct

\* save_tasks_to_nvs, outside a shift.
LEMMA SaveIds ==
  ASSUME SerialInv, TypeOK, IdsInv, NEW p \in Procs, NEW from, NEW to, Save(p, from, to),
         \A q \in Procs : pc[q] \notin Removing /\ pc'[q] \notin Removing
  PROVE  Held' = Held /\ Distinct' /\ FlashDistinct'
<1>1. Held' = Held /\ Distinct'
  BY DEF Save, ram, Held, Distinct, IdsInv
<1>2. CASE flash' = flash
  BY <1>1, <1>2 DEF IdsInv, FlashDistinct
<1>3. CASE flash' = Saved
  <2>1. task_count \in Nat /\ task_count <= MAX_TASKS /\ MAX_TASKS \in Nat
    BY TaskManagerAssumption DEF SerialInv, Registry
  <2>2. Len(Saved) = task_count
    BY <2>1 DEF Saved
  <2>3. \A k \in 1 .. task_count : Saved[k] = task_list[k - 1].info
    <3>1. \A k \in 1 .. task_count : k <= MAX_TASKS
      BY <2>1
    <3> QED BY <3>1, Zenon DEF Saved
  <2>4. ASSUME NEW k \in 1 .. task_count
        PROVE  k - 1 \in Held /\ IdOf(task_list[k - 1]) = Saved[k].id
    <3>1. k - 1 \in Slots /\ k - 1 < task_count
      BY <2>1 DEF Slots
    <3>2. task_list[k - 1].info # NULL
      BY <3>1 DEF SerialInv, Registry, LiveEntry
    <3> QED BY <2>3, <3>1, <3>2 DEF Held, IdOf
  <2>5. ASSUME NEW k \in 1 .. task_count, NEW l \in 1 .. task_count, k # l
        PROVE  Saved[k].id # Saved[l].id
    BY <2>4, <2>5 DEF IdsInv, Distinct
  <2> QED BY <1>1, <1>3, <2>2, <2>5 DEF FlashDistinct
<1> QED BY <1>2, <1>3 DEF Save

\* A client that is not inside the registry claims nothing about it.
LEMMA OutsideReplaces ==
  ASSUME NEW c \in Callers, ~Busy(c)'
  PROVE  Replaces(c)'
BY DEF Busy, Replaces, Removing, Adding

\* A client whose step changes neither the list nor the hole.
LEMMA AbsentStep ==
  ASSUME NEW c \in Callers, Absent(req[c].info.id), Held' = Held,
         \A k \in Held : task_list'[k] = task_list[k], req'[c] = req[c]
  PROVE  Absent(req[c].info.id)'
BY DEF Absent, IdOf

LEMMA DeleteIds ==
  ASSUME IInv, ~overlapped, IdsInv, NEW p \in Callers \cup Handles, DeleteTask(p)
  PROVE  IdsInv'
<1> USE ProcFacts DEF IInv, TypeInv, TypeOK, ram, kernel, Goto, Removing, Adding
<1>0. p \in Procs /\ Point(p)
  BY DEF SerialInv
<1>1. \A q \in Procs : q # p => ~Busy(q) /\ pc[q] \notin Removing
  <2>1. Busy(p)
    BY DEF DeleteTask, FindNext, FindMatch, FindNone, Shift, LeaveShift, DecrementLoad,
           DecrementCount, LoadCount, StoreCount, SaveAfterDelete, Save, KillSkip,
           KillTask, KillSelf, Busy
  <2> QED BY <1>0, <2>1, Alone DEF Busy, Removing
<1>2. ASSUME Distinct', FlashDistinct', p \in Callers => Replaces(p)',
             \A q \in Procs : q # p => pc'[q] \in {pc[q], "none"}
      PROVE  IdsInv'
  <2>1. ASSUME NEW c \in Callers, c # p PROVE Replaces(c)'
    BY <1>1, <1>2, <2>1, OutsideReplaces DEF Busy
  <2> QED BY <1>2, <2>1 DEF IdsInv
<1>3. p \in Callers => TargetId(p) = req[p].info.id
  BY DEF TargetId
<1>4. CASE FindNext(p)
  <2>0. loc[p].i \in Nat /\ loc'[p].i = loc[p].i + 1 /\ pc' = pc /\ pc[p] = "find"
    BY <1>0, <1>4 DEF FindNext, Locals
  <2>1. Distinct' /\ FlashDistinct'
    BY <1>0, <1>1, <1>4, QuietIds DEF FindNext, IdsInv
  <2>2. ASSUME p \in Callers PROVE Replaces(p)'
    <3>1. ASSUME NEW k \in Slots, k < loc[p].i + 1
          PROVE  IdOf(task_list[k]) # req[p].info.id
      <4>1. k < loc[p].i \/ k = loc[p].i
        BY <2>0, <3>1 DEF Slots
      <4> QED BY <1>3, <1>4, <2>0, <2>2, <4>1 DEF FindNext, IdsInv, Replaces
    <3> QED BY <1>4, <2>0, <3>1 DEF FindNext, Replaces, IdOf
  <2> QED BY <1>2, <2>0, <2>1, <2>2
<1>5. CASE FindMatch(p)
  <2>0. /\ pc' = [pc EXCEPT ![p] = "shift"] /\ pc[p] = "find" /\ loc'[p].j = loc[p].i
        /\ loc[p].i \in Slots /\ loc[p].i < task_count
        /\ IdOf(task_list[loc[p].i]) = TargetId(p)
        /\ UNCHANGED <<task_list, task_count, flash, req>>
    BY <1>0, <1>5 DEF FindMatch, Locals
  <2>1. Held' \subseteq Held \ {loc[p].i} /\ loc[p].i \in Held
    BY <1>0, <1>1, <2>0 DEF Held
  <2>2. Distinct' /\ FlashDistinct'
    BY <2>0, <2>1 DEF IdsInv, Distinct, FlashDistinct, IdOf
  <2>3. ASSUME p \in Callers PROVE Replaces(p)'
    <3>1. \A k \in Held' : IdOf(task_list[k]) # req[p].info.id
      BY <1>3, <2>0, <2>1, <2>3 DEF IdsInv, Distinct
    <3> QED BY <1>0, <2>0, <3>1 DEF Replaces, Absent, IdOf
  <2> QED BY <1>0, <1>2, <2>0, <2>2, <2>3
<1>6. CASE FindNone(p)
  <2>1. Held' = Held /\ Distinct' /\ FlashDistinct'
    BY <1>0, <1>1, <1>6, QuietIds DEF FindNone, AfterDelete, IdsInv
  <2>2. ASSUME p \in Callers, pc'[p] = "spawn" PROVE Replaces(p)'
    <3>1. req'[p] = req[p]
      BY <1>0, <1>6, <2>2 DEF FindNone, AfterDelete, ReqAfterDelete
    <3>2. Absent(req[p].info.id)
      <4>1. \A k \in Held : k < loc[p].i
        BY <1>0, <1>6 DEF FindNone, Held, Locals, Slots
      <4> QED BY <1>6, <2>2, <4>1 DEF FindNone, IdsInv, Replaces, Absent, Held
    <3>3. Absent(req[p].info.id)'
      BY <1>6, <2>1, <2>2, <3>1, <3>2, AbsentStep DEF FindNone
    <3> QED BY <2>2, <3>3 DEF Replaces
  <2>3. pc'[p] \in {"spawn", "idle", "exit"} /\ \A q \in Procs : q # p => pc'[q] = pc[q]
    BY <1>0, <1>6 DEF FindNone, AfterDelete
  <2>4. p \in Callers => Replaces(p)'
    BY <2>2, <2>3, OutsideReplaces DEF Busy
  <2> QED BY <1>2, <2>1, <2>3, <2>4
<1>7. CASE Shift(p)
  <2>0. /\ loc[p].j \in Nat /\ loc'[p].j = loc[p].j + 1 /\ pc' = pc /\ pc[p] = "shift"
        /\ loc[p].j + 1 \in Slots /\ loc[p].j + 1 < task_count /\ task_count \in Nat
        /\ task_list' = [task_list EXCEPT ![loc[p].j] = task_list[loc[p].j + 1]]
        /\ UNCHANGED <<task_count, flash, req>>
    BY <1>0, <1>7 DEF Shift, Locals, SerialInv, Registry
  <2> DEFINE From(k) == IF k = loc[p].j THEN k + 1 ELSE k
  <2>1. ASSUME NEW k \in Held' PROVE From(k) \in Held /\ task_list'[k] = task_list[From(k)]
    <3>1. k \in Slots /\ k < task_count /\ k # loc[p].j + 1
      BY <1>0, <2>0 DEF Held
    <3> QED BY <1>0, <1>1, <2>0, <3>1 DEF Held, Slots
  <2>2. ASSUME NEW k \in Held', NEW l \in Held', k # l PROVE From(k) # From(l)
    <3>1. k # loc[p].j + 1 /\ l # loc[p].j + 1
      BY <1>0, <2>0 DEF Held
    <3> QED BY <2>0, <2>2, <3>1
  <2>3. Distinct'
    BY <2>1, <2>2 DEF IdsInv, Distinct, IdOf
  <2>4. FlashDistinct'
    BY <2>0 DEF IdsInv, FlashDistinct
  <2>5. ASSUME p \in Callers PROVE Replaces(p)'
    <3>1. Absent(req[p].info.id)
      BY <2>0, <2>5 DEF IdsInv, Replaces
    <3>2. Absent(req[p].info.id)'
      BY <2>0, <2>1, <3>1 DEF Absent, IdOf
    <3> QED BY <2>0, <3>2 DEF Replaces
  <2> QED BY <1>2, <2>0, <2>3, <2>4, <2>5
<1>8. CASE LeaveShift(p) \/ DecrementLoad(p)
  <2>0. /\ pc[p] \in Removing /\ pc'[p] \in Removing /\ loc'[p].j = loc[p].j
        /\ \A q \in Procs : q # p => pc'[q] = pc[q] /\ loc'[q] = loc[q]
        /\ UNCHANGED <<task_list, task_count, flash, req>>
    BY <1>0, <1>8 DEF LeaveShift, DecrementLoad, LoadCount, Locals, Removing
  <2>1. Held' = Held /\ Distinct' /\ FlashDistinct'
    BY <2>0, QuietIds DEF IdsInv
  <2>2. ASSUME p \in Callers PROVE Replaces(p)'
    <3>1. Absent(req[p].info.id)'
      BY <2>0, <2>1, <2>2, AbsentStep DEF IdsInv, Replaces
    <3> QED BY <2>0, <3>1 DEF Replaces, Removing
  <2> QED BY <1>2, <2>0, <2>1, <2>2
<1>12. CASE DecrementCount(p)
  <2>0. /\ loc[p].j = task_count - 1 /\ task_count \in Nat
        /\ pc' = [pc EXCEPT ![p] = "save"] /\ pc[p] = "decStore" /\ task_count' = task_count - 1
        /\ UNCHANGED <<task_list, flash, req>>
    BY <1>0, <1>12 DEF DecrementCount, StoreCount, Locals, Point, Removing, SerialInv, Registry
  <2>1. Held' = Held
    BY <1>0, <1>1, <2>0 DEF Held, Slots, Removing
  <2>2. Distinct' /\ FlashDistinct'
    BY <2>0, <2>1 DEF IdsInv, Distinct, FlashDistinct
  <2>3. ASSUME p \in Callers PROVE Replaces(p)'
    <3>1. Absent(req[p].info.id)'
      BY <2>0, <2>1, <2>3, AbsentStep DEF IdsInv, Replaces, Removing
    <3> QED BY <1>0, <2>0, <3>1 DEF Replaces
  <2> QED BY <1>0, <1>2, <2>0, <2>2, <2>3
<1>9. CASE SaveAfterDelete(p)
  <2>0. pc' = [pc EXCEPT ![p] = "kill"] /\ pc[p] = "save" /\ UNCHANGED <<task_list, task_count, req>>
    BY <1>9 DEF SaveAfterDelete, Save
  <2>1. Held' = Held /\ Distinct' /\ FlashDistinct'
    BY <1>0, <1>1, <1>9, <2>0, SaveIds DEF SaveAfterDelete
  <2>2. ASSUME p \in Callers PROVE Replaces(p)'
    <3>1. Absent(req[p].info.id)'
      BY <2>0, <2>1, <2>2, AbsentStep DEF IdsInv, Replaces
    <3> QED BY <1>0, <2>0, <3>1 DEF Replaces
  <2> QED BY <1>0, <1>2, <2>0, <2>1, <2>2
<1>10. CASE KillSkip(p) \/ KillTask(p)
  <2>0. /\ pc[p] = "kill" /\ pc'[p] \in {"spawn", "idle", "exit"}
        /\ UNCHANGED <<task_list, task_count, flash>> /\ req' = ReqAfterDelete(p)
        /\ \A q \in Procs : q # p => pc'[q] \in {pc[q], "none"}
    BY <1>0, <1>10 DEF KillSkip, KillTask, AfterDelete
  <2>1. Held' = Held /\ Distinct' /\ FlashDistinct'
    BY <1>1, <2>0, QuietIds DEF IdsInv
  <2>2. ASSUME p \in Callers, pc'[p] = "spawn" PROVE Replaces(p)'
    <3>1. req'[p] = req[p]
      BY <1>0, <1>10, <2>0, <2>2 DEF KillSkip, KillTask, AfterDelete, ReqAfterDelete
    <3>2. Absent(req[p].info.id)'
      BY <2>0, <2>1, <2>2, <3>1, AbsentStep DEF IdsInv, Replaces
    <3> QED BY <2>2, <3>2 DEF Replaces
  <2>3. p \in Callers => Replaces(p)'
    BY <2>0, <2>2, OutsideReplaces DEF Busy
  <2> QED BY <1>2, <2>0, <2>1, <2>3
<1>11. CASE KillSelf(p)
  <2>0. /\ pc[p] = "kill" /\ pc'[p] \in {"dead", "none"}
        /\ UNCHANGED <<task_list, task_count, flash>>
        /\ \A q \in Procs : q # p => pc'[q] = pc[q]
    BY <1>0, <1>11 DEF KillSelf
  <2>1. Distinct' /\ FlashDistinct'
    BY <1>1, <2>0, QuietIds DEF IdsInv
  <2>2. p \in Callers => Replaces(p)'
    BY <2>0, OutsideReplaces DEF Busy
  <2> QED BY <1>2, <2>0, <2>1, <2>2
<1> QED BY <1>4, <1>5, <1>6, <1>7, <1>8, <1>9, <1>10, <1>11, <1>12 DEF DeleteTask

LEMMA CreateIds ==
  ASSUME IInv, ~overlapped, IdsInv, NEW c \in Callers, CreateTask(c)
  PROVE  IdsInv'
<1> USE ProcFacts DEF IInv, TypeInv, TypeOK, ram, kernel, Goto, Removing, Adding
<1>0. c \in Procs /\ Point(c)
  BY DEF SerialInv
<1>1. /\ \A q \in Procs : q # c => ~Busy(q)
      /\ \A q \in Procs : pc[q] \notin Removing
  <2>1. Busy(c) /\ pc[c] \notin Removing
    BY DEF CreateTask, SpawnFail, Spawn, FillHandle, FillInfo, IncrementLoad,
           IncrementCount, LoadCount, StoreCount, SaveAfterCreate, Save, Busy
  <2> QED BY <1>0, <2>1, Alone DEF Busy
<1>2. ASSUME Distinct', FlashDistinct', Replaces(c)',
             \A q \in Procs : q # c => pc'[q] \in {pc[q], "start"}
      PROVE  IdsInv'
  <2>1. ASSUME NEW d \in Callers, d # c PROVE Replaces(d)'
    BY <1>1, <1>2, <2>1, OutsideReplaces DEF Busy
  <2> QED BY <1>2, <2>1 DEF IdsInv
<1>3. CASE SpawnFail(c)
  <2>1. Distinct' /\ FlashDistinct'
    BY <1>0, <1>3, QuietIds DEF SpawnFail, IdsInv
  <2>2. Replaces(c)'
    BY <1>0, <1>3, OutsideReplaces DEF SpawnFail, Busy
  <2> QED BY <1>0, <1>2, <1>3, <2>1, <2>2 DEF SpawnFail
<1>4. ASSUME NEW h \in Handles, Spawn(c, h) PROVE IdsInv'
  <2>0. pc'[c] = "fill" /\ \A q \in Procs : q # c => pc'[q] \in {pc[q], "start"}
    BY <1>0, <1>4 DEF Spawn
  <2>1. \A q \in Procs : pc'[q] \in Removing <=> pc[q] \in Removing
    BY <1>1, <2>0
  <2>2. Held' = Held /\ Distinct' /\ FlashDistinct'
    BY <1>1, <1>4, <2>1, QuietIds DEF Spawn, IdsInv
  <2>3. Absent(req[c].info.id)'
    BY <1>4, <2>2, AbsentStep DEF Spawn, IdsInv, Replaces
  <2> QED BY <1>2, <2>0, <2>2, <2>3 DEF Replaces
<1>5. CASE FillHandle(c) \/ FillInfo(c)
  <2>0. /\ task_count \in Slots /\ UNCHANGED <<task_count, flash, req>>
        /\ pc'[c] = "inc" => task_list'[task_count].info = req[c].info
        /\ \A k \in Slots : k # task_count => task_list'[k] = task_list[k]
        /\ pc'[c] \in {"fillInfo", "inc"} /\ pc[c] \in {"fill", "fillInfo"}
        /\ \A q \in Procs : q # c => pc'[q] = pc[q]
    <3>1. CASE FillHandle(c)
      BY <1>0, <3>1 DEF FillHandle
    <3>2. CASE FillInfo(c)
      <4>1. task_list[task_count] \in Entry
        BY <3>2 DEF FillInfo
      <4> QED BY <1>0, <3>2, <4>1 DEF FillInfo, Entry
    <3> QED BY <1>5, <3>1, <3>2
  <2>1. Held' = Held /\ \A k \in Held : task_list'[k] = task_list[k]
    BY <1>0, <1>1, <2>0 DEF Held
  <2>2. Distinct' /\ FlashDistinct'
    <3>1. \A k \in Held' : IdOf(task_list'[k]) = IdOf(task_list[k])
      BY <2>1
    <3>2. Distinct'
      BY <2>1, <3>1 DEF IdsInv, Distinct, IdOf
    <3> QED BY <2>0, <3>2 DEF IdsInv, FlashDistinct
  <2>3. Absent(req[c].info.id)'
    BY <2>0, <2>1, AbsentStep DEF IdsInv, Replaces
  <2>4. Replaces(c)'
    BY <1>0, <2>0, <2>3 DEF Replaces
  <2> QED BY <1>0, <1>2, <2>0, <2>2, <2>4
<1>8. CASE IncrementLoad(c)
  <2>0. /\ pc' = [pc EXCEPT ![c] = "incStore"] /\ pc[c] = "inc"
        /\ UNCHANGED <<task_list, task_count, flash, req>>
    BY <1>8 DEF IncrementLoad, LoadCount
  <2>1. Held' = Held /\ Distinct' /\ FlashDistinct'
    BY <1>1, <2>0, QuietIds DEF IdsInv
  <2>2. Absent(req[c].info.id)'
    BY <2>0, <2>1, AbsentStep DEF IdsInv, Replaces
  <2>3. Replaces(c)'
    BY <1>0, <2>0, <2>2 DEF IdsInv, Replaces
  <2> QED BY <1>0, <1>2, <2>0, <2>1, <2>3
<1>6. CASE IncrementCount(c)
  <2>0. /\ task_count \in Slots /\ LiveEntry(task_list[task_count])
        /\ task_count' = task_count + 1 /\ UNCHANGED <<task_list, flash, req>>
        /\ pc' = [pc EXCEPT ![c] = "saveNew"] /\ pc[c] = "incStore"
    BY <1>0, <1>6 DEF IncrementCount, StoreCount, Point, LiveEntry
  <2>1. Held' = Held \cup {task_count}
    BY <1>0, <1>1, <2>0, TaskManagerAssumption DEF Held, Slots
  <2>2. /\ IdOf(task_list[task_count]) = req[c].info.id
        /\ Absent(req[c].info.id)
    BY <2>0 DEF IdsInv, Replaces, IdOf, LiveEntry
  <2>3. Distinct' /\ FlashDistinct'
    <3>1. ASSUME NEW k \in Held', NEW l \in Held', k # l
          PROVE  IdOf(task_list[k]) # IdOf(task_list[l])
      <4>1. CASE k \in Held /\ l \in Held
        BY <3>1, <4>1 DEF IdsInv, Distinct
      <4>2. CASE k = task_count /\ l \in Held
        BY <2>2, <4>2 DEF Absent
      <4>3. CASE l = task_count /\ k \in Held
        BY <2>2, <4>3 DEF Absent
      <4> QED BY <2>1, <3>1, <4>1, <4>2, <4>3
    <3>2. Distinct'
      BY <2>0, <3>1 DEF Distinct, IdOf
    <3> QED BY <2>0, <3>2 DEF IdsInv, FlashDistinct
  <2>4. Replaces(c)'
    BY <1>0, <2>0 DEF Replaces
  <2> QED BY <1>0, <1>2, <2>0, <2>3, <2>4
<1>7. CASE SaveAfterCreate(c)
  <2>0. pc' = [pc EXCEPT ![c] = "idle"] /\ Save(c, "saveNew", "idle")
    BY <1>7 DEF SaveAfterCreate, Save
  <2>1. Distinct' /\ FlashDistinct'
    BY <1>0, <1>1, <2>0, SaveIds
  <2>2. Replaces(c)'
    BY <1>0, <2>0, OutsideReplaces DEF Busy
  <2> QED BY <1>0, <1>2, <2>0, <2>1, <2>2
<1> QED BY <1>3, <1>4, <1>5, <1>6, <1>7, <1>8 DEF CreateTask

\* The steps that begin a call, and those of a schedule outside the registry.
\* The only client that creates without a search is the one there is not.
LEMMA OutsideIds ==
  ASSUME IInv, ~overlapped, IdsInv, HttpTasks = {}, NEW p \in Callers \cup Handles,
         \/ p \in Callers /\ Handler(p)
         \/ p \in Handles /\ Schedule(p)
         \/ Panic(p)
  PROVE  IdsInv'
<1> USE ProcFacts DEF IInv, TypeInv, TypeOK, ram, kernel, Goto, Removing, Adding
<1>0. p \in Procs
  OBVIOUS
<1>1. /\ UNCHANGED <<task_list, task_count, flash, loc>>
      /\ \A c \in Callers : c # p => req'[c] = req[c]
      /\ \A q \in Procs : q # p => pc'[q] = pc[q]
      /\ \/ pc'[p] = pc[p] /\ UNCHANGED req
         \/ ~Busy(p) /\ pc'[p] \in {"loop", "none"}
         \/ ~Busy(p) /\ pc'[p] = "find" /\ loc[p] = NoLocals
  <2>1. CASE p \in Callers /\ Handler(p)
    BY <1>0, <2>1 DEF Handler, WsCreate, HttpAdd, Delete, Request, FrameReuse, Busy, LocalsOK
  <2>2. CASE p \in Handles /\ Schedule(p)
    BY <1>0, <2>2 DEF Schedule, ScheduleStart, ScheduleComplete, ScheduleExit,
                      IdleReap, Busy, LocalsOK
  <2>3. CASE Panic(p)
    BY <2>3 DEF Panic
  <2> QED BY <2>1, <2>2, <2>3
<1>2. Held' = Held /\ Distinct' /\ FlashDistinct'
  BY <1>1, QuietIds DEF Busy, IdsInv
<1>3. ASSUME NEW c \in Callers, pc'[c] = pc[c], req'[c] = req[c] PROVE Replaces(c)'
  <2>1. Replaces(c)
    BY DEF IdsInv
  <2> QED BY <1>1, <1>2, <1>3, <2>1 DEF Replaces, Absent, IdOf
<1>4. p \in Callers => Replaces(p)'
  <2>1. CASE pc'[p] = pc[p] /\ UNCHANGED req
    BY <1>3, <2>1
  <2>2. CASE pc'[p] \in {"loop", "none"}
    BY <2>2 DEF Replaces
  <2>3. CASE pc'[p] = "find" /\ loc[p] = NoLocals
    BY <1>1, <2>3 DEF Replaces, NoLocals, Slots
  <2> QED BY <1>1, <2>1, <2>2, <2>3
<1>5. \A c \in Callers : c # p => Replaces(c)'
  BY <1>1, <1>3
<1> QED BY <1>2, <1>4, <1>5 DEF IdsInv

LEMMA BootIds ==
  ASSUME IInv, ~overlapped, IdsInv, Boot
  PROVE  IdsInv'
<1> USE ProcFacts DEF IInv, TypeInv, TypeOK, ram, kernel, Goto, Removing, Adding
<1>0. /\ \A q \in Procs : q # Main => ~Busy(q)
      /\ \A q \in Procs : pc[q] \notin Removing
  <2>1. Busy(Main) /\ pc[Main] \notin Removing
    BY DEF Boot, BootSave, Save, BootLoad, BootStart, BootStartFail, BootDone, Busy
  <2> QED BY <2>1, Alone DEF Busy
<1>1. /\ \A q \in Procs : pc'[q] \notin Removing
      /\ \A c \in Callers : pc'[c] = pc[c] \/ pc'[c] = "start"
  <2>1. \A q \in Procs : pc'[q] \in {pc[q], "bootLoad", "bootStart", "done", "start"}
    BY DEF Boot, BootSave, Save, BootLoad, BootStart, BootStartFail, BootDone
  <2>2. \A q \in Procs : q # Main => pc'[q] \in {pc[q], "start"}
    BY DEF Boot, BootSave, Save, BootLoad, BootStart, BootStartFail, BootDone
  <2> QED BY <1>0, <2>1, <2>2
<1>2. \A c \in Callers : Replaces(c)'
  BY <1>0, <1>1, OutsideReplaces DEF Busy
<1>3. CASE BootSave
  BY <1>0, <1>1, <1>2, <1>3, SaveIds DEF BootSave, IdsInv
<1>4. CASE BootLoad
  <2>1. CASE UNCHANGED ram
    BY <1>0, <1>1, <1>2, <1>4, <2>1, QuietIds DEF BootLoad, IdsInv
  <2>2. ASSUME Len(flash) <= MAX_TASKS, task_count' = Len(flash),
               NEW old \in [Slots -> Handles],
               task_list' = [k \in Slots |->
                 IF k < Len(flash) THEN [handle |-> old[k], info |-> flash[k + 1]]
                 ELSE task_list[k]]
        PROVE  Distinct'
    <3>1. \A k \in Held' : k \in Nat /\ k < Len(flash) /\ k + 1 \in 1 .. Len(flash)
      BY <2>2 DEF Held, Slots
    <3>2. \A k \in Held' : task_list'[k].info = flash[k + 1]
      BY <2>2, <3>1 DEF Held
    <3>3. \A k \in Held' : IdOf(task_list'[k]) = flash[k + 1].id
      BY <3>1, <3>2 DEF IdOf, SerialInv, FlashOK
    <3>4. ASSUME NEW k \in Held', NEW l \in Held', k # l
          PROVE  IdOf(task_list'[k]) # IdOf(task_list'[l])
      BY <3>1, <3>3, <3>4 DEF IdsInv, FlashDistinct
    <3> QED BY <3>4 DEF Distinct, IdOf
  <2>3. FlashDistinct'
    BY <1>4 DEF BootLoad, IdsInv, FlashDistinct
  <2> QED BY <1>2, <1>4, <2>1, <2>2, <2>3 DEF BootLoad, IdsInv
<1>5. ASSUME NEW h \in Handles, BootStart(h) PROVE IdsInv'
  <2>1. \A k \in Slots : task_list'[k].info = task_list[k].info
    BY <1>5 DEF BootStart, Entry
  <2>2. Held' = Held
    BY <1>0, <1>1, <1>5 DEF BootStart, Held
  <2>3. \A k \in Held : IdOf(task_list[k])' = IdOf(task_list[k])
    BY <2>1 DEF Held, IdOf
  <2>4. Distinct' /\ FlashDistinct'
    BY <1>5, <2>2, <2>3 DEF BootStart, IdsInv, Distinct, FlashDistinct, IdOf
  <2> QED BY <1>2, <2>4 DEF IdsInv
<1>6. CASE BootStartFail \/ BootDone
  <2>1. UNCHANGED <<task_list, task_count, flash>>
    BY <1>6 DEF BootStartFail, BootDone
  <2> QED BY <1>0, <1>1, <1>2, <2>1, QuietIds DEF IdsInv
<1> QED BY <1>3, <1>4, <1>5, <1>6 DEF Boot

LEMMA RebootIds ==
  ASSUME IInv, IdsInv, Reboot
  PROVE  IdsInv'
<1>1. Held' = {}
  BY DEF Reboot, Held, Slots
<1>2. Distinct' /\ FlashDistinct'
  BY <1>1 DEF Distinct, FlashDistinct, Reboot, IdsInv
<1>3. \A c \in Callers : Replaces(c)'
  BY ProcFacts DEF Reboot, Replaces, Removing, Adding
<1> QED BY <1>2, <1>3 DEF IdsInv

LEMMA OnlyCallersStep ==
  ASSUME TypeOK, OnlyCallersCreate, Next
  PROVE  OnlyCallersCreate'
<1> USE ProcFacts DEF TypeOK, OnlyCallersCreate, ram, kernel, Goto, Adding
<1>1. ASSUME NEW p \in Callers \cup Handles, DeleteTask(p) PROVE OnlyCallersCreate'
  <2>1. CASE FindNone(p) \/ KillSkip(p) \/ KillTask(p)
    BY <2>1 DEF FindNone, KillSkip, KillTask, AfterDelete
  <2>2. CASE FindNext(p) \/ FindMatch(p) \/ Shift(p) \/ LeaveShift(p)
    BY <2>2 DEF FindNext, FindMatch, Shift, LeaveShift
  <2>5. CASE DecrementLoad(p) \/ DecrementCount(p)
    BY <2>5 DEF DecrementLoad, DecrementCount, LoadCount, StoreCount
  <2>3. CASE SaveAfterDelete(p)
    BY <2>3 DEF SaveAfterDelete, Save
  <2>4. CASE KillSelf(p)
    BY <2>4 DEF KillSelf
  <2> QED BY <1>1, <2>1, <2>2, <2>3, <2>4, <2>5 DEF DeleteTask
<1>2. ASSUME NEW p \in Callers \cup Handles, Panic(p) PROVE OnlyCallersCreate'
  BY <1>2 DEF Panic
<1>3. ASSUME NEW c \in Callers, CreateTask(c) PROVE OnlyCallersCreate'
  <2>1. \A q \in Procs \ Callers : pc'[q] \in {pc[q], "start"}
    <3>1. CASE SpawnFail(c) \/ FillHandle(c) \/ FillInfo(c)
      BY <3>1 DEF SpawnFail, FillHandle, FillInfo
    <3>4. CASE IncrementLoad(c) \/ IncrementCount(c)
      BY <3>4 DEF IncrementLoad, IncrementCount, LoadCount, StoreCount
    <3>2. CASE SaveAfterCreate(c)
      BY <3>2 DEF SaveAfterCreate, Save
    <3>3. ASSUME NEW h \in Handles, Spawn(c, h)
          PROVE  \A q \in Procs \ Callers : pc'[q] \in {pc[q], "start"}
      BY <3>3 DEF Spawn
    <3> QED BY <1>3, <3>1, <3>2, <3>3, <3>4 DEF CreateTask
  <2> QED BY <2>1
<1>4. ASSUME NEW c \in Callers, Handler(c) PROVE OnlyCallersCreate'
  BY <1>4 DEF Handler, WsCreate, HttpAdd, Delete, Request, FrameReuse
<1>5. ASSUME NEW h \in Handles, Schedule(h) PROVE OnlyCallersCreate'
  BY <1>5 DEF Schedule, ScheduleStart, ScheduleComplete, ScheduleExit, IdleReap
<1>6. CASE Boot
  <2>1. \A q \in Procs : pc'[q] \in {pc[q], "bootLoad", "bootStart", "done", "start"}
    BY <1>6 DEF Boot, BootSave, Save, BootLoad, BootStart, BootStartFail, BootDone
  <2> QED BY <2>1
<1>7. CASE Reboot
  BY <1>7 DEF Reboot
<1> QED BY <1>1, <1>2, <1>3, <1>4, <1>5, <1>6, <1>7 DEF Next, Step

LEMMA InitUInv == Init => UInv
<1> SUFFICES ASSUME Init PROVE UInv
  OBVIOUS
<1>1. IInv
  BY InitIInv
<1>2. OnlyCallersCreate
  BY ProcFacts DEF Init, OnlyCallersCreate, Adding
<1>3. Held = {}
  BY DEF Init, Held, Slots
<1>4. Distinct /\ FlashDistinct
  BY <1>3 DEF Init, Distinct, FlashDistinct
<1>5. \A c \in Callers : Replaces(c)
  BY ProcFacts DEF Init, Replaces, Removing, Adding
<1> QED BY <1>1, <1>2, <1>4, <1>5 DEF UInv, IdsInv

LEMMA NextUInv == HttpTasks = {} /\ UInv /\ [Next]_vars => UInv'
<1> SUFFICES ASSUME HttpTasks = {}, UInv, [Next]_vars PROVE UInv'
  OBVIOUS
<1>1. IInv'
  BY NextIInv DEF UInv
<1>2. CASE UNCHANGED vars
  BY <1>1, <1>2 DEF vars, UInv, OnlyCallersCreate, IdsInv, Distinct, FlashDistinct,
                    Replaces, Absent, Held, IdOf
<1>3. CASE Next
  <2>1. OnlyCallersCreate'
    BY <1>3, OnlyCallersStep DEF UInv, IInv, TypeInv
  <2>2. ~overlapped' => ~overlapped
    BY <1>3 DEF Next
  <2>3. ASSUME ~overlapped PROVE IdsInv'
    BY <1>3, <2>3, DeleteIds, CreateIds, OutsideIds, BootIds, RebootIds
    DEF Next, Step, UInv
  <2> QED BY <1>1, <2>1, <2>2, <2>3 DEF UInv
<1> QED BY <1>2, <1>3

LEMMA UInvAlways == ASSUME HttpTasks = {} PROVE Spec => []UInv
BY InitUInv, NextUInv, PTL DEF Spec

\* Between two calls every slot below task_count is held.
LEMMA IdsUnique == UInv => UniqueIds
<1> SUFFICES ASSUME UInv, ~overlapped, Quiescent, NEW k \in Slots, NEW l \in Slots,
                    k < l, l < task_count
             PROVE  IdOf(task_list[k]) # IdOf(task_list[l])
  BY DEF UniqueIds
<1>1. \A q \in Procs : pc[q] \notin Removing
  BY DEF Quiescent, Busy, Removing
<1>2. k < task_count /\ k # l
  BY DEF UInv, IInv, SerialInv, Registry, Slots
<1> QED BY <1>1, <1>2 DEF UInv, IdsInv, Distinct, Held

\* A schedule created when the list is full would bring the number of different
\* ids to MAX_TASKS + 1.
LEMMA RoomForEveryId == UInv => NoOverflow
<1> SUFFICES ASSUME UInv, Cardinality(Ids) <= MAX_TASKS, ~overlapped,
                    NEW p \in Procs, pc[p] \in {"fill", "fillInfo"}, task_count \notin Slots
             PROVE  FALSE
  BY DEF NoOverflow, WritesPastList
<1> USE DEF UInv, IInv, TypeInv, TypeOK
<1>0. p \in Callers /\ req[p].info \in Info /\ MAX_TASKS \in Nat \ {0}
  BY TaskManagerAssumption DEF OnlyCallersCreate, CallerOK, Labels, Adding
<1>1. task_count = MAX_TASKS
  BY <1>0 DEF SerialInv, Registry, Slots
<1>2. \A q \in Procs : pc[q] \notin Removing
  <2>1. Busy(p)
    BY DEF Busy
  <2> QED BY <2>1, Alone DEF Busy, Removing
<1>3. Held = Slots
  BY <1>0, <1>1, <1>2 DEF Held, Slots
<1>4. \A k \in Slots : IdOf(task_list[k]) = task_list[k].info.id /\ task_list[k].info.id \in Ids
  <2>1. \A k \in Slots : task_list[k].info \in Info
    BY <1>1 DEF SerialInv, Registry, LiveEntry, Entry, Slots
  <2> QED BY <2>1, ProcFacts, TaskManagerAssumption DEF IdOf
<1>5. req[p].info.id \in Ids
  BY <1>0, TaskManagerAssumption
<1> DEFINE S == 0 .. MAX_TASKS
           f == [k \in S |-> IF k = MAX_TASKS THEN req[p].info.id ELSE task_list[k].info.id]
<1>6. f \in [S -> Ids]
  BY <1>0, <1>4, <1>5 DEF Slots
<1>7. IsFiniteSet(S) /\ Cardinality(S) = MAX_TASKS + 1
  BY <1>0, FS_Interval
<1>8. IsFiniteSet(Ids) /\ Cardinality(Ids) < Cardinality(S)
  BY <1>0, <1>7, FiniteAssumption, FS_CardinalityType
<1>9. PICK x, y \in S : x # y /\ f[x] = f[y]
  <2> HIDE DEF f, S
  <2> QED BY <1>6, <1>7, <1>8, FS_PigeonHole
<1>10. ASSUME NEW k \in Slots PROVE f[k] = IdOf(task_list[k]) /\ f[k] # req[p].info.id
  <2>1. k \in S /\ k # MAX_TASKS
    BY <1>0 DEF Slots
  <2>2. Absent(req[p].info.id)
    BY <1>0 DEF IdsInv, Replaces, Adding
  <2> QED BY <1>3, <1>4, <2>1, <2>2 DEF Absent
<1>11. f[MAX_TASKS] = req[p].info.id
  BY <1>0
<1>12. \A k \in S : k = MAX_TASKS \/ k \in Slots
  BY <1>0 DEF Slots
<1>13. ASSUME NEW k \in Slots, NEW l \in Slots, k # l PROVE f[k] # f[l]
  <2>1. IdOf(task_list[k]) # IdOf(task_list[l])
    BY <1>3, <1>13 DEF IdsInv, Distinct
  <2> HIDE DEF f
  <2> QED BY <1>10, <2>1
<1> HIDE DEF f, S
<1> QED BY <1>9, <1>10, <1>11, <1>12, <1>13

\* With no HTTP client and no overlapping calls, the registry never holds two
\* schedules with one id, whatever "once" schedules remove and wherever resets fall.
THEOREM IdsStayUnique == Spec => []UniqueIds
<1>1. CASE HttpTasks = {}
  BY <1>1, IdsUnique, UInvAlways, PTL
<1>2. CASE HttpTasks # {}
  <2>1. UniqueIds
    BY <1>2 DEF UniqueIds
  <2> QED BY <2>1, PTL
<1> QED BY <1>1, <1>2

\* create_task has no check of the capacity; with no HTTP client, no overlapping
\* calls and no more ids than slots it never writes past the array.
THEOREM ArrayNeverOverflows == Spec => []NoOverflow
<1>1. CASE HttpTasks = {}
  BY <1>1, RoomForEveryId, UInvAlways, PTL
<1>2. CASE HttpTasks # {}
  <2>1. NoOverflow
    BY <1>2 DEF NoOverflow
  <2> QED BY <2>1, PTL
<1> QED BY <1>1, <1>2
=============================================================================
