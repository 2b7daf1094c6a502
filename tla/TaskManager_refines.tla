------------------------ MODULE TaskManager_refines ------------------------
(***************************************************************************)
(* As long as calls do not overlap, task_manager.c implements the sequence *)
(* of ScheduleStore, for any number of clients, handles, schedules and     *)
(* slots, whatever the creators' stack frames are overwritten with.  A     *)
(* client searches for an id of its own, so what it removes is the first   *)
(* match; a schedule task reads the id from such a frame again for every   *)
(* comparison, so of what it removes only that it is one entry is promised. *)
(***************************************************************************)
EXTENDS TaskManager_proofs, SequenceTheorems

\* The entries of a list of n, and those of one being shifted out of it at h.
Rows(list, n) == [k \in 1 .. n |-> list[k - 1].info]
RowsBut(list, n, h) ==
  [k \in 1 .. n - 1 |-> list[IF k - 1 < h THEN k - 1 ELSE k].info]

\* What a client's search has passed does not have the id it is looking for, and
\* what it has written beyond the end is the schedule it was asked to create.
Knows(c) ==
  /\ pc[c] = "find" =>
       \A k \in Slots : k < loc[c].i => IdOf(task_list[k]) # req[c].info.id
  /\ pc[c] \in {"inc", "incStore"} => task_list[task_count].info = req[c].info

MainPoint == pc[Main] \in {"bootSave", "bootLoad", "bootStart", "done"}

SInv == IInv /\ ~overlapped /\ MainPoint /\ \A c \in Callers : Knows(c)

\* app_main has loaded the registry: the store takes calls.
Up == pc[Main] \notin {"bootSave", "bootLoad"}

-----------------------------------------------------------------------------
(* The view of the entries.                                                *)

LEMMA ViewWhole ==
  ASSUME \A p \in Procs : pc[p] \notin Removing
  PROVE  StoreView = Rows(task_list, task_count)
<1>1. Holes = {}
  BY DEF Holes
<1> QED BY <1>1 DEF StoreView, Rows

LEMMA ViewWholeNext ==
  ASSUME \A p \in Procs : pc'[p] \notin Removing
  PROVE  StoreView' = Rows(task_list', task_count')
<1>1. Holes' = {}
  BY DEF Holes
<1> QED BY <1>1 DEF StoreView, Rows

LEMMA ViewHole ==
  ASSUME NEW p \in Procs, pc[p] \in Removing,
         \A q \in Procs : q # p => pc[q] \notin Removing
  PROVE  StoreView = RowsBut(task_list, task_count, loc[p].j)
<1>1. Holes = {loc[p].j}
  BY DEF Holes
<1> QED BY <1>1 DEF StoreView, RowsBut

LEMMA ViewHoleNext ==
  ASSUME NEW p \in Procs, pc'[p] \in Removing,
         \A q \in Procs : q # p => pc'[q] \notin Removing
  PROVE  StoreView' = RowsBut(task_list', task_count', loc'[p].j)
<1>1. Holes' = {loc'[p].j}
  BY DEF Holes
<1> QED BY <1>1 DEF StoreView, RowsBut

\* Below task_count every entry is a schedule.
LEMMA RowsType ==
  ASSUME SInv
  PROVE  /\ task_count \in Nat /\ task_count <= MAX_TASKS
         /\ \A k \in 0 .. task_count - 1 : k \in Slots /\ task_list[k].info \in Info
         /\ Rows(task_list, task_count) \in Seq(Info)
         /\ Len(Rows(task_list, task_count)) = task_count
<1>1. task_count \in Nat /\ task_count <= MAX_TASKS /\ MAX_TASKS \in Nat
  BY TaskManagerAssumption DEF SInv, IInv, SerialInv, Registry
<1>2. ASSUME NEW k \in 0 .. task_count - 1
      PROVE  k \in Slots /\ task_list[k].info \in Info
  <2>1. k \in Slots /\ k < task_count
    BY <1>1 DEF Slots
  <2>2. LiveEntry(task_list[k]) /\ task_list[k] \in Entry
    BY <2>1 DEF SInv, IInv, SerialInv, Registry, TypeInv, TypeOK
  <2> QED BY <2>1, <2>2 DEF LiveEntry, Entry
<1>3. Rows(task_list, task_count) \in [1 .. task_count -> Info]
  <2>1. \A k \in 1 .. task_count : task_list[k - 1].info \in Info
    BY <1>1, <1>2
  <2> QED BY <2>1 DEF Rows
<1> QED BY <1>1, <1>2, <1>3

\* Shifting one entry moves the hole and nothing else.
LEMMA HoleMoves ==
  ASSUME NEW list \in [Slots -> Entry], NEW n \in Nat, n <= MAX_TASKS,
         NEW h \in Nat, h < n - 1
  PROVE  RowsBut([list EXCEPT ![h] = list[h + 1]], n, h + 1) = RowsBut(list, n, h)
<1> DEFINE list2 == [list EXCEPT ![h] = list[h + 1]]
<1>1. MAX_TASKS \in Nat
  BY TaskManagerAssumption
<1>2. ASSUME NEW k \in 1 .. n - 1
      PROVE  list2[IF k - 1 < h + 1 THEN k - 1 ELSE k] = list[IF k - 1 < h THEN k - 1 ELSE k]
  <2>1. CASE k - 1 < h
    BY <1>1, <2>1 DEF Slots
  <2>2. CASE k - 1 = h
    BY <1>1, <2>2 DEF Slots
  <2>3. CASE k - 1 > h
    BY <1>1, <2>3 DEF Slots
  <2> QED BY <2>1, <2>2, <2>3
<1> QED BY <1>2 DEF RowsBut

\* A hole at the end is no hole.
LEMMA HoleAtEnd ==
  ASSUME NEW list, NEW n \in Nat
  PROVE  RowsBut(list, n, n - 1) = Rows(list, n - 1)
BY DEF RowsBut, Rows

LEMMA RemovalIsHole ==
  ASSUME NEW s \in Seq(Info), NEW i \in 1 .. Len(s)
  PROVE  Store!RemoveAt(s, i) =
           [k \in 1 .. Len(s) - 1 |-> IF k < i THEN s[k] ELSE s[k + 1]]
<1> DEFINE front == SubSeq(s, 1, i - 1)
           back  == SubSeq(s, i + 1, Len(s))
           kept  == [k \in 1 .. Len(s) - 1 |-> IF k < i THEN s[k] ELSE s[k + 1]]
<1>1. Len(s) \in Nat /\ i \in Nat /\ \A k \in 1 .. Len(s) : s[k] \in Info
  OBVIOUS
<1>2. front \in Seq(Info) /\ Len(front) = i - 1 /\ \A k \in 1 .. i - 1 : front[k] = s[k]
  <2>1. \A k \in 1 .. i - 1 : s[k] \in Info
    BY <1>1
  <2> QED BY <1>1, <2>1, SubSeqProperties
<1>3. /\ back \in Seq(Info) /\ Len(back) = Len(s) - i
      /\ \A k \in 1 .. Len(s) - i : back[k] = s[k + i]
  <2>1. \A k \in i + 1 .. Len(s) : s[k] \in Info
    BY <1>1
  <2>2. /\ back \in Seq(Info)
        /\ Len(back) = IF i + 1 <= Len(s) THEN Len(s) - (i + 1) + 1 ELSE 0
        /\ \A k \in 1 .. Len(s) - (i + 1) + 1 : back[k] = s[(i + 1) + k - 1]
    BY <1>1, <2>1, SubSeqProperties
  <2> QED BY <1>1, <2>2
<1>4. Store!RemoveAt(s, i) = front \o back
  BY SMT DEF Store!RemoveAt
<1> HIDE DEF front, back
<1>5. /\ front \o back \in Seq(Info) /\ Len(front \o back) = Len(s) - 1
      /\ \A k \in 1 .. Len(s) - 1 :
           (front \o back)[k] = IF k < i THEN front[k] ELSE back[k - i + 1]
  <2>1. /\ front \o back \in Seq(Info)
        /\ Len(front \o back) = Len(front) + Len(back)
        /\ \A k \in 1 .. Len(front) + Len(back) :
             (front \o back)[k] = IF k <= Len(front) THEN front[k] ELSE back[k - Len(front)]
    <3>1. front \in Seq(Info) /\ back \in Seq(Info)
      BY <1>2, <1>3
    <3> QED BY <3>1, ConcatProperties, Zenon
  <2>2. Len(front) + Len(back) = Len(s) - 1
    BY <1>1, <1>2, <1>3
  <2>3. \A k \in 1 .. Len(s) - 1 : (k <= i - 1 <=> k < i) /\ k - (i - 1) = k - i + 1
    BY <1>1
  <2> QED BY <1>2, <2>1, <2>2, <2>3
<1>6. kept \in Seq(Info) /\ Len(kept) = Len(s) - 1
  <2>1. Len(s) - 1 \in Nat
    BY <1>1
  <2>2. \A k \in 1 .. Len(s) - 1 : (IF k < i THEN s[k] ELSE s[k + 1]) \in Info
    BY <1>1
  <2>3. kept \in [1 .. Len(s) - 1 -> Info]
    BY <2>2
  <2> QED BY <2>1, <2>3
<1>7. ASSUME NEW k \in 1 .. Len(s) - 1 PROVE (front \o back)[k] = kept[k]
  <2>1. CASE k < i
    BY <1>1, <1>2, <1>5, <2>1
  <2>2. CASE ~(k < i)
    <3>1. \E m \in 1 .. Len(s) - i : m = k - i + 1 /\ m + i = k + 1
      BY <1>1, <2>2
    <3>2. PICK m \in 1 .. Len(s) - i : m = k - i + 1 /\ m + i = k + 1
      BY <3>1
    <3>3. back[m] = s[m + i]
      BY <1>3
    <3> QED BY <1>1, <1>5, <2>2, <3>2, <3>3
  <2> QED BY <2>1, <2>2, Zenon
<1>8. front \o back = kept
  BY <1>5, <1>6, <1>7, SeqEqual
<1> QED BY <1>4, <1>8, Zenon

-----------------------------------------------------------------------------
(* The view of what the call being served has still to do.                 *)

\* A task outside the registry has nothing to do.
LEMMA IdleTodo ==
  ASSUME NEW p \in Callers \cup Handles
  PROVE  /\ ~Busy(p) => TodoOf(p) = Nothing
         /\ ~Busy(p)' => TodoOf(p)' = Nothing
BY DEF Busy, TodoOf, Adding, Removing

LEMMA TodoAlone ==
  ASSUME NEW p \in Callers \cup Handles,
         \A q \in Callers \cup Handles : q # p => ~Busy(q)
  PROVE  TodoView = TodoOf(p)
<1>1. \A q \in Callers \cup Handles : q # p => TodoOf(q) = Nothing
  BY IdleTodo
<1>2. Todos = {TodoOf(p)} \ {Nothing}
  BY <1>1 DEF Todos
<1>3. CASE TodoOf(p) = Nothing
  BY <1>2, <1>3 DEF TodoView
<1>4. CASE TodoOf(p) # Nothing
  <2>1. Todos = {TodoOf(p)}
    BY <1>2, <1>4
  <2> QED BY <2>1 DEF TodoView
<1> QED BY <1>3, <1>4

LEMMA TodoAloneNext ==
  ASSUME NEW p \in Callers \cup Handles,
         \A q \in Callers \cup Handles : q # p => ~Busy(q)'
  PROVE  TodoView' = TodoOf(p)'
<1>1. \A q \in Callers \cup Handles : q # p => TodoOf(q)' = Nothing
  BY IdleTodo
<1>2. Todos' = {TodoOf(p)'} \ {Nothing}
  BY <1>1 DEF Todos
<1>3. CASE TodoOf(p)' = Nothing
  BY <1>2, <1>3 DEF TodoView
<1>4. CASE TodoOf(p)' # Nothing
  <2>1. Todos' = {TodoOf(p)'}
    BY <1>2, <1>4
  <2> QED BY <2>1 DEF TodoView
<1> QED BY <1>3, <1>4

LEMMA TodoNone ==
  ASSUME \A q \in Callers \cup Handles : ~Busy(q)
  PROVE  TodoView = Nothing
<1>1. \A q \in Callers \cup Handles : TodoOf(q) = Nothing
  BY IdleTodo
<1>2. Todos = {}
  BY <1>1 DEF Todos
<1> QED BY <1>2 DEF TodoView

LEMMA TodoNoneNext ==
  ASSUME \A q \in Callers \cup Handles : ~Busy(q)'
  PROVE  TodoView' = Nothing
<1>1. \A q \in Callers \cup Handles : TodoOf(q)' = Nothing
  BY IdleTodo
<1>2. Todos' = {}
  BY <1>1 DEF Todos
<1> QED BY <1>2 DEF TodoView

\* A step of the task inside the registry that does not end its search or its
\* creation: what the call has to do stays.
LEMMA TodoKept ==
  ASSUME NEW p \in Callers \cup Handles,
         \A q \in Callers \cup Handles : q # p => ~Busy(q) /\ ~Busy(q)',
         p \in Callers => req'[p] = req[p],
         \/ pc'[p] = pc[p]
         \/ /\ pc[p] \in Adding \cup Removing \cup {"save", "kill"}
            /\ pc'[p] \in Adding \cup Removing \cup {"save", "kill"}
         \/ p \in Handles /\ pc[p] # "find" /\ pc'[p] # "find"
  PROVE  TodoView' = TodoView
<1>1. TodoView = TodoOf(p) /\ TodoView' = TodoOf(p)'
  BY TodoAlone, TodoAloneNext
<1>2. TodoOf(p)' = TodoOf(p)
  BY ProcFacts DEF TodoOf, Adding, Removing
<1> QED BY <1>1, <1>2

\* A step that ends a search, with a match or without: what is left of a create
\* is the addition, and of a delete nothing.
LEMMA TodoSearched ==
  ASSUME TypeInv, NEW p \in Callers \cup Handles, FindMatch(p) \/ FindNone(p),
         \A q \in Callers \cup Handles : q # p => ~Busy(q) /\ ~Busy(q)'
  PROVE  /\ Store!Removed
         /\ TodoView.op # "own" => p \in Callers /\ TodoView.info.id = req[p].info.id
<1> USE ProcFacts DEF TypeInv, TypeOK, Goto
<1>1. p \in Procs /\ pc[p] = "find" /\ TodoView = TodoOf(p) /\ TodoView' = TodoOf(p)'
  BY TodoAlone, TodoAloneNext DEF FindMatch, FindNone
<1>2. CASE p \in Handles
  <2>1. pc'[p] \in {"shift", "exit"}
    BY <1>1, <1>2 DEF FindMatch, FindNone, AfterDelete
  <2>2. TodoView = Own /\ TodoView' = Nothing
    BY <1>1, <1>2, <2>1 DEF TodoOf
  <2> QED BY <2>2 DEF Store!Removed, Store!Nothing, Nothing, Own
<1>3. CASE p \in Callers /\ req[p].op = "create"
  <2>1. pc'[p] \in {"shift", "spawn"} /\ req'[p] = req[p]
    BY <1>1, <1>3 DEF FindMatch, FindNone, AfterDelete, ReqAfterDelete
  <2>2. TodoView = [op |-> "create", info |-> req[p].info]
    BY <1>1, <1>3 DEF TodoOf
  <2>3. TodoView' = [op |-> "add", info |-> req[p].info]
    BY <1>1, <1>3, <2>1 DEF TodoOf, Adding, Removing
  <2> QED BY <1>3, <2>2, <2>3 DEF Store!Removed
<1>4. CASE p \in Callers /\ req[p].op = "delete"
  <2>1. \/ pc'[p] = "shift" /\ req'[p] = req[p]
        \/ pc'[p] = "idle"
    BY <1>1, <1>4 DEF FindMatch, FindNone, AfterDelete
  <2>2. TodoView = [op |-> "delete", info |-> req[p].info]
    BY <1>1, <1>4 DEF TodoOf
  <2>3. TodoView' = Nothing
    BY <1>1, <1>4, <2>1 DEF TodoOf, Adding, Removing
  <2> QED BY <1>4, <2>2, <2>3 DEF Store!Removed, Store!Nothing, Nothing
<1>5. p \in Callers => req[p].op \in {"create", "delete"}
  BY <1>1 DEF CallerOK
<1> QED BY <1>2, <1>3, <1>4, <1>5

-----------------------------------------------------------------------------
(* MainPoint and what the clients know are invariants.                     *)

\* Only the steps of boot, and a reboot, move app_main.
LEMMA MainStays ==
  ASSUME TypeInv, NEW p \in Callers \cup Handles,
         \/ DeleteTask(p) \/ Panic(p)
         \/ p \in Callers /\ (CreateTask(p) \/ Handler(p))
         \/ p \in Handles /\ Schedule(p)
  PROVE  pc'[Main] = pc[Main]
<1> USE ProcFacts DEF TypeInv, TypeOK, Goto
<1>1. p \in Procs /\ p # Main /\ \A h \in Handles : h # Main
  OBVIOUS
<1>2. CASE DeleteTask(p)
  <2>1. CASE KillTask(p)
    BY <1>1, <2>1 DEF KillTask, Entry
  <2>2. CASE KillSelf(p)
    BY <1>1, <2>2 DEF KillSelf
  <2> QED BY <1>1, <1>2, <2>1, <2>2 DEF DeleteTask, FindNext, FindMatch, FindNone, Shift,
             LeaveShift, DecrementLoad, DecrementCount, LoadCount, StoreCount,
             SaveAfterDelete, Save, KillSkip
<1>3. CASE Panic(p)
  BY <1>3 DEF Panic
<1>4. CASE p \in Callers /\ CreateTask(p)
  BY <1>1, <1>4 DEF CreateTask, SpawnFail, Spawn, FillHandle, FillInfo,
                    IncrementLoad, IncrementCount, LoadCount, StoreCount,
                    SaveAfterCreate, Save
<1>5. CASE p \in Callers /\ Handler(p)
  BY <1>1, <1>5 DEF Handler, WsCreate, HttpAdd, Delete, Request, FrameReuse
<1>6. CASE p \in Handles /\ Schedule(p)
  BY <1>1, <1>6 DEF Schedule, ScheduleStart, ScheduleComplete, ScheduleExit, IdleReap
<1> QED BY <1>2, <1>3, <1>4, <1>5, <1>6

LEMMA MainStep ==
  ASSUME TypeInv, MainPoint, Next
  PROVE  MainPoint'
<1>1. CASE Boot
  BY <1>1, ProcFacts DEF Boot, BootSave, Save, BootLoad, BootStart, BootStartFail, BootDone,
       Goto, MainPoint, TypeInv, TypeOK
<1>2. CASE Reboot
  BY <1>2, ProcFacts DEF Reboot, MainPoint
<1> QED BY <1>1, <1>2, MainStays DEF Next, Step, MainPoint

\* A client whose step, if it makes one, is outside the registry.
LEMMA KnowsKept ==
  ASSUME NEW c \in Callers, Knows(c), pc'[c] = pc[c], loc'[c] = loc[c], req'[c] = req[c],
         UNCHANGED <<task_list, task_count>>
  PROVE  Knows(c)'
BY DEF Knows, IdOf

LEMMA OutsideKnows ==
  ASSUME NEW c \in Callers, pc'[c] \notin {"find", "inc", "incStore"}
  PROVE  Knows(c)'
BY DEF Knows

\* Who is inside the registry, and who is not.
LEMMA DeleteAlone ==
  ASSUME SInv, NEW p \in Callers \cup Handles, DeleteTask(p)
  PROVE  /\ p \in Procs /\ Busy(p)
         /\ \A q \in Procs : q # p => ~Busy(q) /\ ~Busy(q)'
         /\ \A q \in Procs : q # p => pc'[q] \in {pc[q], "none"}
<1> USE ProcFacts DEF ram, kernel, Goto
<1>0. p \in Procs /\ Busy(p) /\ TypeInv /\ TypeOK
  BY DEF DeleteTask, FindNext, FindMatch, FindNone, Shift, LeaveShift, DecrementLoad,
         DecrementCount, LoadCount, StoreCount, SaveAfterDelete, Save, KillSkip, KillTask,
         KillSelf, Busy, SInv, IInv, TypeInv
<1>1. \A q \in Procs : q # p => ~Busy(q)
  BY <1>0, Alone DEF SInv, IInv
<1>2. \A q \in Procs : q # p => pc'[q] \in {pc[q], "none"}
  <2>1. CASE KillTask(p)
    BY <1>0, <2>1 DEF KillTask, TypeOK
  <2>2. CASE KillSelf(p)
    BY <1>0, <2>2 DEF KillSelf, TypeOK
  <2> QED BY <1>0, <2>1, <2>2 DEF DeleteTask, FindNext, FindMatch, FindNone, Shift, LeaveShift,
             DecrementLoad, DecrementCount, LoadCount, StoreCount, SaveAfterDelete, Save,
             KillSkip, TypeOK
<1> QED BY <1>0, <1>1, <1>2 DEF Busy

LEMMA CreateAlone ==
  ASSUME SInv, NEW c \in Callers, CreateTask(c)
  PROVE  /\ c \in Procs /\ Busy(c)
         /\ \A q \in Procs : q # c => ~Busy(q) /\ ~Busy(q)'
         /\ \A q \in Procs : q # c => pc'[q] \in {pc[q], "start"}
<1> USE ProcFacts DEF ram, kernel, Goto
<1>0. c \in Procs /\ Busy(c) /\ TypeInv /\ TypeOK
  BY DEF CreateTask, SpawnFail, Spawn, FillHandle, FillInfo, IncrementLoad, IncrementCount,
         LoadCount, StoreCount, SaveAfterCreate, Save, Busy, SInv, IInv, TypeInv
<1>1. \A q \in Procs : q # c => ~Busy(q)
  BY <1>0, Alone DEF SInv, IInv
<1>2. \A q \in Procs : q # c => pc'[q] \in {pc[q], "start"}
  BY <1>0 DEF CreateTask, SpawnFail, Spawn, FillHandle, FillInfo, IncrementLoad,
         IncrementCount, LoadCount, StoreCount, SaveAfterCreate, Save, TypeOK
<1> QED BY <1>0, <1>1, <1>2 DEF Busy

LEMMA BootIsAlone ==
  ASSUME SInv, Boot
  PROVE  /\ \A q \in Procs : q # Main => ~Busy(q) /\ ~Busy(q)'
         /\ \A q \in Procs : q # Main => pc'[q] \in {pc[q], "start"}
         /\ pc'[Main] \in {"bootLoad", "bootStart", "done"}
<1> USE ProcFacts DEF ram, kernel, Goto
<1>0. Busy(Main) /\ TypeInv /\ TypeOK
  BY DEF Boot, BootSave, Save, BootLoad, BootStart, BootStartFail, BootDone, Busy,
         SInv, IInv, TypeInv
<1>1. \A q \in Procs : q # Main => ~Busy(q)
  BY <1>0, Alone DEF SInv, IInv
<1>2. /\ \A q \in Procs : q # Main => pc'[q] \in {pc[q], "start"}
      /\ pc'[Main] \in {"bootLoad", "bootStart", "done"}
  <2>1. ASSUME NEW h \in Handles, BootStart(h)
        PROVE  /\ \A q \in Procs : q # Main => pc'[q] \in {pc[q], "start"}
               /\ pc'[Main] \in {"bootLoad", "bootStart", "done"}
    BY <1>0, <2>1 DEF BootStart, TypeOK
  <2> QED BY <1>0, <2>1 DEF Boot, BootSave, Save, BootLoad, BootStartFail, BootDone, TypeOK
<1> QED BY <1>1, <1>2 DEF Busy

LEMMA KnowsStep ==
  ASSUME SInv, Next, NEW c \in Callers
  PROVE  Knows(c)'
<1> USE ProcFacts DEF ram, kernel, Goto
<1>0. /\ TypeInv /\ TypeOK /\ LocalsOK /\ Knows(c) /\ c \in Procs
      /\ \A q \in Procs : ~Busy(q)' => pc'[q] \notin {"find", "inc", "incStore"}
  BY DEF SInv, IInv, TypeInv, Busy
<1>1. ASSUME NEW p \in Callers \cup Handles, DeleteTask(p) PROVE Knows(c)'
  <2>1. CASE p # c
    BY <1>0, <1>1, <2>1, DeleteAlone, OutsideKnows
  <2>2. CASE p = c /\ FindNext(c)
    <3>1. /\ loc'[c].i = loc[c].i + 1 /\ loc[c].i \in Nat /\ UNCHANGED <<task_list, req, pc>>
          /\ IdOf(task_list[loc[c].i]) # req[c].info.id /\ pc[c] = "find"
      BY <1>0, <2>2 DEF FindNext, TypeOK, Locals, TargetId
    <3>2. ASSUME NEW k \in Slots, k < loc[c].i + 1
          PROVE  IdOf(task_list[k]) # req[c].info.id
      <4>1. k < loc[c].i \/ k = loc[c].i
        BY <3>1, <3>2 DEF Slots
      <4> QED BY <1>0, <3>1, <4>1 DEF Knows
    <3> QED BY <3>1, <3>2 DEF Knows, IdOf
  <2>3. CASE p = c /\ ~FindNext(c)
    <3>1. pc'[c] \notin {"find", "inc", "incStore"}
      <4>1. CASE KillTask(c)
        BY <1>0, <4>1 DEF KillTask, TypeOK, AfterDelete
      <4>2. CASE KillSelf(c)
        BY <1>0, <4>2 DEF KillSelf, TypeOK
      <4> QED BY <1>0, <1>1, <2>3, <4>1, <4>2 DEF DeleteTask, FindMatch, FindNone, Shift,
                 LeaveShift, DecrementLoad, DecrementCount, LoadCount, StoreCount,
                 SaveAfterDelete, Save, KillSkip, AfterDelete, TypeOK
    <3> QED BY <3>1, OutsideKnows
  <2> QED BY <1>1, <2>1, <2>2, <2>3
<1>2. ASSUME NEW d \in Callers, CreateTask(d) PROVE Knows(c)'
  <2>1. CASE d # c
    BY <1>0, <1>2, <2>1, CreateAlone, OutsideKnows
  <2>2. CASE d = c /\ FillInfo(c)
    <3>1. pc'[c] = "inc" /\ UNCHANGED <<task_count, req>>
      BY <1>0, <2>2 DEF FillInfo, TypeOK
    <3>2. task_list'[task_count].info = req[c].info
      <4>1. task_count \in Slots /\ task_list[task_count] \in Entry
        BY <1>0, <2>2 DEF FillInfo, TypeOK
      <4> QED BY <1>0, <2>2, <4>1 DEF FillInfo, TypeOK, Entry
    <3> QED BY <3>1, <3>2 DEF Knows
  <2>3. CASE d = c /\ IncrementLoad(c)
    BY <1>0, <2>3 DEF IncrementLoad, LoadCount, TypeOK, Knows
  <2>4. CASE d = c /\ ~FillInfo(c) /\ ~IncrementLoad(c)
    <3>1. pc'[c] \notin {"find", "inc", "incStore"}
      BY <1>0, <1>2, <2>4 DEF CreateTask, SpawnFail, Spawn, FillHandle, IncrementCount,
         StoreCount, SaveAfterCreate, Save, TypeOK
    <3> QED BY <3>1, OutsideKnows
  <2> QED BY <1>2, <2>1, <2>2, <2>3, <2>4
<1>3. ASSUME NEW d \in Callers, Handler(d) PROVE Knows(c)'
  <2>1. UNCHANGED <<task_list, task_count, loc>> /\ pc[d] = "idle"
    BY <1>3 DEF Handler, WsCreate, HttpAdd, Delete, Request, FrameReuse
  <2>2. CASE pc'[c] = pc[c] /\ req'[c] = req[c]
    BY <1>0, <2>1, <2>2, KnowsKept
  <2>3. CASE c = d /\ pc'[c] \in {"find", "spawn"}
    <3>1. loc'[c].i = 0
      BY <1>0, <2>1, <2>3 DEF LocalsOK, NoLocals, Adding, Removing
    <3> QED BY <2>3, <3>1 DEF Knows, Slots
  <2> QED BY <1>0, <1>3, <2>2, <2>3
          DEF Handler, WsCreate, HttpAdd, Delete, Request, FrameReuse, TypeOK
<1>4. ASSUME NEW h \in Handles, Schedule(h) PROVE Knows(c)'
  <2>1. /\ UNCHANGED <<task_list, task_count, loc, req>> /\ pc'[c] = pc[c]
    BY <1>0, <1>4 DEF Schedule, ScheduleStart, ScheduleComplete, ScheduleExit, IdleReap, TypeOK
  <2> QED BY <1>0, <2>1, KnowsKept
<1>5. CASE Boot
  BY <1>0, <1>5, BootIsAlone, OutsideKnows
<1>6. CASE Reboot
  BY <1>0, <1>6, OutsideKnows DEF Reboot
<1>7. ASSUME NEW p \in Callers \cup Handles, Panic(p) PROVE Knows(c)'
  BY <1>0, <1>7, KnowsKept DEF Panic
<1> QED BY <1>1, <1>2, <1>3, <1>4, <1>5, <1>6, <1>7 DEF Next, Step

-----------------------------------------------------------------------------
(* The steps of the store.                                                 *)

\* A step that leaves the entries, NVS, the call and the phase of boot as they are.
LEMMA SameStore ==
  ASSUME StoreView' = StoreView, TodoView' = TodoView, flash' = flash, Up' <=> Up
  PROVE  UNCHANGED Store!storeVars
BY DEF Store!storeVars, Up

\* A step outside the loop that shifts.
LEMMA QuietView ==
  ASSUME UNCHANGED <<task_list, task_count>>,
         \A q \in Procs : pc[q] \notin Removing /\ pc'[q] \notin Removing
  PROVE  StoreView' = StoreView
BY ViewWhole, ViewWholeNext

\* save_tasks_to_nvs makes the copy equal to the entries, or leaves it alone.
LEMMA SaveStore ==
  ASSUME SInv, UNCHANGED <<task_list, task_count>>, TodoView' = TodoView,
         flash' = flash \/ flash' = Saved,
         \A q \in Procs : pc[q] \notin Removing /\ pc'[q] \notin Removing, Up' <=> Up
  PROVE  [Store!StoreNext]_(Store!storeVars)
<1>1. StoreView' = StoreView
  BY QuietView
<1>2. CASE flash' = flash
  BY <1>1, <1>2, SameStore
<1>3. CASE flash' = Saved
  <2>1. Saved = Rows(task_list, task_count)
    <3>0. task_count \in Nat /\ task_count <= MAX_TASKS
      BY RowsType
    <3>1. \A k \in 1 .. task_count : k <= MAX_TASKS
      BY <3>0, TaskManagerAssumption
    <3> QED BY <3>1, Zenon DEF Saved, Rows
  <2>2. flash' = StoreView
    BY <1>3, <2>1, ViewWhole
  <2>3. Store!Persist
    BY <1>1, <2>2 DEF Store!Persist, Up
  <2> QED BY <2>3 DEF Store!StoreNext
<1> QED BY <1>2, <1>3

\* The deletion of the schedule the search has found.
LEMMA MatchIsDrop ==
  ASSUME SInv, NEW p \in Callers \cup Handles, FindMatch(p), Up' <=> Up,
         \A q \in Procs : q # p => ~Busy(q) /\ ~Busy(q)'
  PROVE  Store!StoreNext
<1> DEFINE i == loc[p].i
           n == task_count
           s == Rows(task_list, n)
<1> USE ProcFacts
<1>0. \A q \in Procs : q # p => pc[q] \notin Removing /\ pc'[q] \notin Removing
  BY DEF Busy, Removing
<1>1. /\ p \in Procs /\ i \in Nat /\ i < n /\ pc[p] = "find" /\ pc'[p] = "shift"
      /\ loc'[p].j = i /\ UNCHANGED <<task_list, task_count, flash>>
      /\ p \in Callers => IdOf(task_list[i]) = req[p].info.id
  BY DEF FindMatch, Goto, ram, SInv, IInv, TypeInv, TypeOK, Locals, TargetId
<1>2. /\ n \in Nat /\ n <= MAX_TASKS /\ s \in Seq(Info) /\ Len(s) = n
      /\ \A k \in 0 .. n - 1 : k \in Slots /\ task_list[k].info \in Info
  BY RowsType
<1>3. StoreView = s
  BY <1>0, <1>1, ViewWhole DEF Removing
<1>4. StoreView' = RowsBut(task_list, n, i)
  <2>1. pc'[p] \in Removing
    BY <1>1 DEF Removing
  <2> QED BY <1>0, <1>1, <2>1, ViewHoleNext
<1>5. i + 1 \in 1 .. n /\ MAX_TASKS \in Nat
  BY <1>1, <1>2, TaskManagerAssumption
<1>6. PICK k \in 1 .. n : k = i + 1
  BY <1>5
<1>7. \A l \in 1 .. n : IdOf(task_list[l - 1]) = s[l].id
  BY <1>2 DEF IdOf, Rows
<1>8. ASSUME p \in Callers
      PROVE  s[k].id = req[p].info.id /\ \A l \in 1 .. k - 1 : s[l].id # req[p].info.id
  <2>1. k - 1 = i
    <3>1. i \in Nat /\ k = i + 1
      BY <1>1, <1>6
    <3> HIDE DEF i, n
    <3> QED BY <3>1
  <2>2. s[k].id = req[p].info.id
    BY <1>1, <1>7, <1>8, <2>1
  <2>3. ASSUME NEW l \in 1 .. k - 1 PROVE s[l].id # req[p].info.id
    <3>1. l - 1 \in 0 .. n - 1 /\ l - 1 < i /\ l \in 1 .. n
      <4>1. i \in Nat /\ n \in Nat /\ i < n /\ k = i + 1 /\ l \in Int /\ 1 <= l /\ l <= k - 1
        BY <1>1, <1>2, <1>6
      <4> HIDE DEF i, n
      <4> QED BY <4>1
    <3>2. l - 1 \in Slots
      BY <1>2, <3>1
    <3>3. IdOf(task_list[l - 1]) # req[p].info.id
      BY <1>1, <1>8, <3>1, <3>2 DEF SInv, Knows
    <3> QED BY <1>7, <3>1, <3>3
  <2> QED BY <2>2, <2>3
<1>9. StoreView' = Store!RemoveAt(s, k)
  <2>1. Store!RemoveAt(s, k) = [m \in 1 .. n - 1 |-> IF m < k THEN s[m] ELSE s[m + 1]]
    BY <1>2, RemovalIsHole
  <2>2. ASSUME NEW m \in 1 .. n - 1
        PROVE  (IF m < k THEN s[m] ELSE s[m + 1])
                 = task_list[IF m - 1 < i THEN m - 1 ELSE m].info
    <3>1. s[m] = task_list[m - 1].info /\ s[m + 1] = task_list[m].info
      BY <1>2 DEF Rows
    <3> QED BY <1>1, <1>2, <1>6, <3>1
  <2> HIDE DEF i, n, s
  <2> QED BY <1>4, <2>1, <2>2, Zenon DEF RowsBut
<1>10. /\ Store!Removed
       /\ TodoView.op # "own" => p \in Callers /\ TodoView.info.id = req[p].info.id
  BY TodoSearched DEF SInv, IInv
<1>11. Store!Drop(k)
  <2>1. TodoView.op # "own" => /\ s[k].id = TodoView.info.id
                               /\ \A l \in 1 .. k - 1 : s[l].id # TodoView.info.id
    BY <1>8, <1>10
  <2>2. k \in 1 .. Len(s)
    BY <1>2
  <2> HIDE DEF i, n, s
  <2> QED BY <1>1, <1>3, <1>9, <1>10, <2>1, <2>2 DEF Store!Drop, Up
<1>12. k \in 1 .. MAX_TASKS
  BY <1>2, <1>5
<1> QED BY <1>11, <1>12 DEF Store!StoreNext

\* A search that has passed every entry.
LEMMA NoneIsNotFound ==
  ASSUME SInv, NEW p \in Callers \cup Handles, FindNone(p), Up' <=> Up,
         \A q \in Procs : q # p => ~Busy(q) /\ ~Busy(q)'
  PROVE  Store!NotFound
<1> USE ProcFacts
<1>1. /\ p \in Procs /\ pc[p] = "find" /\ loc[p].i \in Nat /\ loc[p].i >= task_count
      /\ UNCHANGED <<task_list, task_count, flash>> /\ pc'[p] \in {"exit", "spawn", "idle"}
  BY DEF FindNone, AfterDelete, Goto, ram, SInv, IInv, TypeInv, TypeOK, Locals
<1>2. StoreView' = StoreView
  BY <1>1, QuietView DEF Busy, Removing
<1>3. StoreView = Rows(task_list, task_count)
  BY <1>1, ViewWhole DEF Busy, Removing
<1>4. /\ Store!Removed
      /\ TodoView.op # "own" => p \in Callers /\ TodoView.info.id = req[p].info.id
  BY TodoSearched DEF SInv, IInv
<1>5. ASSUME p \in Callers, NEW k \in 1 .. task_count
      PROVE  Rows(task_list, task_count)[k].id # req[p].info.id
  <2>1. k - 1 \in 0 .. task_count - 1 /\ task_count \in Nat
    BY RowsType
  <2>2. k - 1 \in Slots /\ task_list[k - 1].info \in Info
    BY <2>1, RowsType
  <2>3. IdOf(task_list[k - 1]) # req[p].info.id
    BY <1>1, <1>5, <2>1, <2>2 DEF SInv, Knows
  <2> QED BY <2>2, <2>3 DEF IdOf, Rows
<1>6. Len(Rows(task_list, task_count)) = task_count
  BY RowsType
<1> QED BY <1>1, <1>2, <1>3, <1>4, <1>5, <1>6 DEF Store!NotFound, Up

LEMMA DeleteStore ==
  ASSUME SInv, NEW p \in Callers \cup Handles, DeleteTask(p)
  PROVE  [Store!StoreNext]_(Store!storeVars)
<1> USE ProcFacts DEF ram, kernel, Goto
<1>0. p \in Procs /\ Busy(p) /\ TypeInv /\ TypeOK
  BY DeleteAlone DEF SInv, IInv, TypeInv
<1>1. \A q \in Procs : q # p => ~Busy(q) /\ ~Busy(q)'
  BY DeleteAlone
<1>2. Up' <=> Up
  BY <1>0, MainStays DEF Up
<1>3. \A q \in Procs : q # p => pc[q] \notin Removing /\ pc'[q] \notin Removing
  BY <1>1 DEF Busy, Removing
<1>4. CASE FindNext(p)
  <2>1. UNCHANGED <<task_list, task_count, flash, req>> /\ pc[p] = "find" /\ pc'[p] = "find"
    BY <1>4 DEF FindNext
  <2>2. StoreView' = StoreView
    BY <1>3, <2>1, QuietView DEF Removing
  <2>3. TodoView' = TodoView
    BY <1>1, <2>1, TodoKept
  <2> QED BY <1>2, <2>1, <2>2, <2>3, SameStore
<1>5. CASE FindMatch(p)
  BY <1>1, <1>2, <1>5, MatchIsDrop
<1>6. CASE FindNone(p)
  BY <1>1, <1>2, <1>6, NoneIsNotFound DEF Store!StoreNext
<1>7. CASE Shift(p)
  <2>1. pc[p] = "shift" /\ pc'[p] = "shift" /\ req' = req
    BY <1>7 DEF Shift
  <2>2. /\ task_list' = [task_list EXCEPT ![loc[p].j] = task_list[loc[p].j + 1]]
        /\ task_count' = task_count /\ flash' = flash /\ loc'[p].j = loc[p].j + 1
        /\ loc[p].j \in Nat /\ loc[p].j < task_count - 1
    BY <1>0, <1>7 DEF Shift, TypeOK, Locals
  <2>3. StoreView = RowsBut(task_list, task_count, loc[p].j)
    BY <1>0, <1>3, <2>1, ViewHole DEF Removing
  <2>4. StoreView' = RowsBut(task_list', task_count', loc'[p].j)
    BY <1>0, <1>3, <2>1, ViewHoleNext DEF Removing
  <2>5. task_count \in Nat /\ task_count <= MAX_TASKS
    BY RowsType
  <2>6. StoreView' = StoreView
    <3>1. RowsBut([task_list EXCEPT ![loc[p].j] = task_list[loc[p].j + 1]],
                  task_count, loc[p].j + 1) = RowsBut(task_list, task_count, loc[p].j)
      <4>1. task_list \in [Slots -> Entry]
        BY <1>0 DEF TypeOK
      <4> QED BY <2>2, <2>5, <4>1, HoleMoves
    <3> QED BY <2>2, <2>3, <2>4, <3>1
  <2>7. TodoView' = TodoView
    BY <1>1, <2>1, TodoKept
  <2> QED BY <1>2, <2>2, <2>6, <2>7, SameStore
<1>8. CASE LeaveShift(p) \/ DecrementLoad(p)
  <2>1. /\ pc[p] \in Removing /\ pc'[p] \in Removing /\ loc'[p].j = loc[p].j
        /\ UNCHANGED <<task_list, task_count, flash, req>>
    BY <1>0, <1>8 DEF LeaveShift, DecrementLoad, LoadCount, TypeOK, Locals, Removing
  <2>2. StoreView' = StoreView
    BY <1>0, <1>3, <2>1, ViewHole, ViewHoleNext
  <2>3. TodoView' = TodoView
    BY <1>1, <2>1, TodoKept
  <2> QED BY <1>2, <2>1, <2>2, <2>3, SameStore
<1>9. CASE DecrementCount(p)
  <2>1. /\ pc[p] = "decStore" /\ pc'[p] = "save" /\ UNCHANGED <<task_list, flash, req>>
        /\ task_count' = loc[p].loaded - 1
    BY <1>0, <1>9 DEF DecrementCount, StoreCount, TypeOK
  <2>2. task_count \in Nat /\ loc[p].j = task_count - 1 /\ task_count' = task_count - 1
    BY <1>0, <2>1, RowsType DEF SInv, IInv, SerialInv, Point, TypeOK, Locals, Removing
  <2>3. StoreView = RowsBut(task_list, task_count, task_count - 1)
    BY <1>0, <1>3, <2>1, <2>2, ViewHole DEF Removing
  <2>4. StoreView' = Rows(task_list, task_count - 1)
    BY <1>3, <2>1, <2>2, ViewWholeNext DEF Removing
  <2>5. StoreView' = StoreView
    <3>1. RowsBut(task_list, task_count, task_count - 1) = Rows(task_list, task_count - 1)
      BY <2>2, HoleAtEnd
    <3> QED BY <2>3, <2>4, <3>1
  <2>6. TodoView' = TodoView
    BY <1>1, <2>1, TodoKept DEF Removing
  <2> QED BY <1>2, <2>1, <2>5, <2>6, SameStore
<1>10. CASE SaveAfterDelete(p)
  <2>1. /\ pc[p] = "save" /\ pc'[p] = "kill" /\ req' = req
        /\ UNCHANGED <<task_list, task_count>> /\ (flash' = flash \/ flash' = Saved)
    BY <1>0, <1>10 DEF SaveAfterDelete, Save, TypeOK
  <2>2. TodoView' = TodoView
    BY <1>1, <2>1, TodoKept
  <2> QED BY <1>2, <1>3, <2>1, <2>2, SaveStore DEF Removing
<1>11. CASE KillSkip(p) \/ KillTask(p) \/ KillSelf(p)
  <2>1. UNCHANGED <<task_list, task_count, flash>> /\ pc[p] = "kill"
    BY <1>11 DEF KillSkip, KillTask, KillSelf
  <2>2. /\ p \in Handles => pc'[p] \in {"exit", "none"}
        /\ p \in Callers => pc'[p] = AfterDelete(p) /\ req' = ReqAfterDelete(p)
    <3>1. CASE KillSkip(p)
      BY <1>0, <3>1 DEF KillSkip, AfterDelete, TypeOK
    <3>2. CASE KillTask(p)
      BY <1>0, <3>2 DEF KillTask, AfterDelete, TypeOK
    <3>3. CASE KillSelf(p)
      <4>1. p \in Handles
        BY <1>0, <2>1, <3>3 DEF KillSelf, SInv, IInv, SerialInv, Point, LiveEntry, TypeOK, Entry
      <4> QED BY <1>0, <3>3, <4>1 DEF KillSelf, TypeOK
    <3> QED BY <1>11, <3>1, <3>2, <3>3
  <2>3. StoreView' = StoreView
    BY <1>3, <2>1, <2>2, QuietView DEF Removing, AfterDelete
  <2>4. TodoView' = TodoView
    <3>1. CASE p \in Callers /\ req[p].op = "delete"
      <4>1. TodoView = TodoOf(p) /\ TodoView' = TodoOf(p)'
        BY <1>0, <1>1, TodoAlone, TodoAloneNext
      <4>2. pc'[p] = "idle" /\ pc[p] = "kill"
        BY <2>1, <2>2, <3>1 DEF AfterDelete
      <4> QED BY <3>1, <4>1, <4>2 DEF TodoOf, Adding, Removing
    <3>2. CASE p \in Callers /\ req[p].op = "create"
      <4>1. pc'[p] = "spawn" /\ req'[p] = req[p]
        BY <2>2, <3>2 DEF AfterDelete, ReqAfterDelete
      <4> QED BY <1>1, <2>1, <4>1, TodoKept DEF Adding
    <3>3. CASE p \in Handles
      BY <1>1, <2>1, <2>2, <3>3, TodoKept
    <3> QED BY <1>0, <2>1, <3>1, <3>2, <3>3 DEF TypeInv, CallerOK
  <2> QED BY <1>2, <2>1, <2>3, <2>4, SameStore
<1> QED BY <1>4, <1>5, <1>6, <1>7, <1>8, <1>9, <1>10, <1>11 DEF DeleteTask

LEMMA CreateStore ==
  ASSUME SInv, NEW c \in Callers, CreateTask(c)
  PROVE  [Store!StoreNext]_(Store!storeVars)
<1> USE ProcFacts DEF ram, kernel, Goto
<1>0. /\ c \in Procs /\ TypeInv /\ TypeOK /\ Knows(c)
      /\ pc[c] \in Adding \cup {"saveNew"}
  BY DEF CreateTask, SpawnFail, Spawn, FillHandle, FillInfo, IncrementLoad, IncrementCount,
         LoadCount, StoreCount, SaveAfterCreate, Save, Adding, SInv, IInv, TypeInv
<1>1. \A q \in Procs : q # c => ~Busy(q) /\ ~Busy(q)'
  BY CreateAlone
<1>2. Up' <=> Up
  BY <1>0, MainStays DEF Up
<1>3. \A q \in Procs : pc[q] \notin Removing /\ pc'[q] \notin Removing
  <2>1. pc'[c] \in Adding \cup {"saveNew", "idle"}
    BY <1>0 DEF CreateTask, SpawnFail, Spawn, FillHandle, FillInfo, IncrementLoad,
         IncrementCount, LoadCount, StoreCount, SaveAfterCreate, Save, Adding, TypeOK
  <2>2. \A q \in Procs : q # c => pc[q] \notin Removing /\ pc'[q] \notin Removing
    BY <1>1 DEF Busy, Removing
  <2> QED BY <1>0, <2>1, <2>2 DEF Adding, Removing
<1>4. TodoView = TodoOf(c) /\ TodoView' = TodoOf(c)'
  BY <1>1, TodoAlone, TodoAloneNext
<1>5. pc[c] \in Adding => TodoView = [op |-> "add", info |-> req[c].info]
  BY <1>0, <1>4 DEF TypeInv, CallerOK, TodoOf, Adding
<1>6. CASE SpawnFail(c)
  <2>1. UNCHANGED <<task_list, task_count, flash>> /\ pc[c] = "spawn" /\ pc'[c] = "idle"
    BY <1>0, <1>6 DEF SpawnFail, TypeOK
  <2>2. StoreView' = StoreView
    BY <1>3, <2>1, QuietView
  <2>3. TodoView' = Nothing
    BY <1>4, <2>1 DEF TodoOf, Adding, Removing
  <2>4. Store!AddSchedule
    BY <1>2, <1>5, <2>1, <2>2, <2>3
    DEF Store!AddSchedule, Store!Nothing, Nothing, Up, Adding
  <2> QED BY <2>4 DEF Store!StoreNext
<1>7. CASE IncrementLoad(c) \/ \E h \in Handles : Spawn(c, h)
  <2>1. /\ UNCHANGED <<task_list, task_count, flash, req>>
        /\ pc[c] \in Adding /\ pc'[c] \in Adding
    BY <1>0, <1>7 DEF IncrementLoad, LoadCount, Spawn, Adding, TypeOK
  <2>2. StoreView' = StoreView
    BY <1>3, <2>1, QuietView
  <2>3. TodoView' = TodoView
    BY <1>1, <2>1, TodoKept
  <2> QED BY <1>2, <2>1, <2>2, <2>3, SameStore
<1>8. CASE FillHandle(c) \/ FillInfo(c)
  <2>1. /\ task_count \in Slots /\ UNCHANGED <<task_count, flash, req>>
        /\ \A k \in Slots : k # task_count => task_list'[k] = task_list[k]
        /\ pc[c] \in Adding /\ pc'[c] \in Adding
    BY <1>0, <1>8 DEF FillHandle, FillInfo, Adding, TypeOK
  <2>2. \A k \in 1 .. task_count : task_list'[k - 1] = task_list[k - 1]
    <3>1. task_count \in Nat /\ \A k \in 0 .. task_count - 1 : k \in Slots
      BY RowsType
    <3> QED BY <2>1, <3>1
  <2>3. Rows(task_list', task_count') = Rows(task_list, task_count)
    BY <2>1, <2>2 DEF Rows
  <2>4. StoreView' = StoreView
    BY <1>3, <2>3, ViewWhole, ViewWholeNext
  <2>5. TodoView' = TodoView
    BY <1>1, <2>1, TodoKept
  <2> QED BY <1>2, <2>1, <2>4, <2>5, SameStore
<1>9. CASE IncrementCount(c)
  <2>0. /\ pc[c] = "incStore" /\ pc'[c] = "saveNew" /\ UNCHANGED <<task_list, flash>>
        /\ task_count' = loc[c].loaded + 1
    BY <1>0, <1>9 DEF IncrementCount, StoreCount, TypeOK
  <2>1. task_count' = task_count + 1
    BY <1>0, <2>0 DEF SInv, IInv, SerialInv, Point
  <2>2. task_count \in Slots /\ LiveEntry(task_list[task_count])
    BY <1>0, <2>0 DEF SInv, IInv, SerialInv, Point, LiveEntry
  <2>3. task_list[task_count].info \in Info
    BY <1>0, <2>2 DEF TypeOK, Entry, LiveEntry
  <2>4. /\ Rows(task_list, task_count) \in Seq(Info) /\ task_count \in Nat
        /\ Len(Rows(task_list, task_count)) = task_count /\ task_count < MAX_TASKS
    BY <2>2, RowsType, TaskManagerAssumption DEF Slots
  <2>5. Rows(task_list, task_count + 1)
          = Append(Rows(task_list, task_count), task_list[task_count].info)
    <3> DEFINE new == Rows(task_list, task_count + 1)
               app == Append(Rows(task_list, task_count), task_list[task_count].info)
    <3>1. /\ app \in Seq(Info) /\ Len(app) = task_count + 1
          /\ \A k \in 1 .. task_count : app[k] = task_list[k - 1].info
          /\ app[task_count + 1] = task_list[task_count].info
      <4>1. /\ app \in Seq(Info) /\ Len(app) = Len(Rows(task_list, task_count)) + 1
            /\ \A k \in 1 .. Len(Rows(task_list, task_count)) :
                 app[k] = Rows(task_list, task_count)[k]
            /\ app[Len(Rows(task_list, task_count)) + 1] = task_list[task_count].info
        BY <2>3, <2>4, AppendProperties
      <4>2. \A k \in 1 .. task_count : Rows(task_list, task_count)[k] = task_list[k - 1].info
        BY DEF Rows
      <4> HIDE DEF app
      <4> QED BY <2>4, <4>1, <4>2
    <3>2. \A k \in 1 .. task_count + 1 : task_list[k - 1].info \in Info
      <4>1. \A k \in 0 .. task_count - 1 : task_list[k].info \in Info
        BY RowsType
      <4> QED BY <2>3, <2>4, <4>1
    <3>3. new \in Seq(Info) /\ Len(new) = task_count + 1
      <4>1. new \in [1 .. task_count + 1 -> Info]
        BY <3>2 DEF Rows
      <4>2. task_count + 1 \in Nat
        BY <2>4
      <4> QED BY <4>1, <4>2
    <3>4. ASSUME NEW k \in 1 .. task_count + 1 PROVE new[k] = app[k]
      <4>1. new[k] = task_list[k - 1].info
        BY DEF Rows
      <4>2. k \in 1 .. task_count \/ k = task_count + 1
        BY <2>4
      <4> HIDE DEF app, new
      <4> QED BY <2>4, <3>1, <4>1, <4>2
    <3> HIDE DEF app, new
    <3>5. new = app
      BY <3>1, <3>3, <3>4, SeqEqual
    <3> QED BY <3>5 DEF app, new
  <2>6. TodoView' = Nothing
    BY <1>4, <2>0 DEF TodoOf, Adding, Removing
  <2>7. task_list[task_count].info = req[c].info
    BY <1>0, <2>0 DEF Knows
  <2>8. TodoView = [op |-> "add", info |-> req[c].info]
    BY <1>5, <2>0 DEF Adding
  <2>9. StoreView = Rows(task_list, task_count)
    BY <1>3, ViewWhole
  <2>10. StoreView' = Rows(task_list, task_count + 1)
    BY <1>3, <2>0, <2>1, ViewWholeNext
  <2>11. Store!AddSchedule
    BY <1>2, <2>0, <2>4, <2>5, <2>6, <2>7, <2>8, <2>9, <2>10
    DEF Store!AddSchedule, Store!Nothing, Nothing, Up
  <2> QED BY <2>11 DEF Store!StoreNext
<1>10. CASE SaveAfterCreate(c)
  <2>1. /\ pc[c] = "saveNew" /\ pc'[c] = "idle"
        /\ UNCHANGED <<task_list, task_count>> /\ (flash' = flash \/ flash' = Saved)
    BY <1>0, <1>10 DEF SaveAfterCreate, Save, TypeOK
  <2>2. TodoView' = TodoView
    BY <1>4, <2>1 DEF TodoOf, Adding, Removing
  <2> QED BY <1>2, <1>3, <2>1, <2>2, SaveStore
<1> QED BY <1>6, <1>7, <1>8, <1>9, <1>10 DEF CreateTask

\* A step of tasks outside the registry that stay outside.
LEMMA StillStore ==
  ASSUME NEW p \in Callers \cup Handles, UNCHANGED <<task_list, task_count, flash, loc>>,
         \A q \in Procs : q # p => pc'[q] = pc[q],
         \A c \in Callers : c # p => req'[c] = req[c],
         \/ pc'[p] = pc[p] /\ (p \in Callers => req'[p] = req[p])
         \/ p \in Handles /\ ~Busy(p) /\ ~Busy(p)'
  PROVE  UNCHANGED Store!storeVars
<1> USE ProcFacts
<1>1. \A q \in Procs : (pc[q] \in Removing <=> pc'[q] \in Removing)
  BY DEF Busy, Removing
<1>2. StoreView' = StoreView
  <2>1. Holes' = Holes
    BY <1>1 DEF Holes
  <2> QED BY <2>1 DEF StoreView
<1>3. \A q \in Callers \cup Handles : TodoOf(q)' = TodoOf(q)
  <2>1. ASSUME NEW q \in Callers \cup Handles, pc'[q] = pc[q], q \in Callers => req'[q] = req[q]
        PROVE  TodoOf(q)' = TodoOf(q)
    BY <2>1 DEF TodoOf
  <2>2. CASE ~Busy(p) /\ ~Busy(p)'
    BY <2>1, <2>2, IdleTodo
  <2> QED BY <2>1, <2>2
<1>4. TodoView' = TodoView
  <2>1. Todos' = Todos
    BY <1>3 DEF Todos
  <2> QED BY <2>1 DEF TodoView
<1>5. Up' <=> Up
  BY DEF Up
<1> QED BY <1>2, <1>4, <1>5, SameStore

\* A task enters the registry, where nobody is, then or before.
LEMMA BeginStore ==
  ASSUME SInv, Next, ~overlapped', NEW p \in Callers \cup Handles, ~Busy(p), Busy(p)',
         pc'[p] \in {"find", "spawn"}, \A q \in Procs : q # p => pc'[q] = pc[q],
         UNCHANGED <<task_list, task_count, flash>>, TodoOf(p)' \in Store!Calls
  PROVE  Store!Begin
<1> USE ProcFacts
<1>1. \A q \in Procs : q # p => ~Busy(q) /\ ~Busy(q)'
  <2>1. \A q \in Procs : q # p => ~Busy(q)'
    BY DEF Next, Overlap
  <2> QED BY <2>1 DEF Busy
<1>2. StoreView' = StoreView
  BY <1>1, QuietView DEF Busy, Removing
<1>3. TodoView = Nothing /\ TodoView' = TodoOf(p)'
  BY <1>1, TodoNone, TodoAloneNext
<1>4. Up /\ Up'
  <2>1. ~Busy(Main) /\ pc'[Main] = pc[Main]
    BY <1>1
  <2> QED BY <2>1 DEF Busy, Up
<1> QED BY <1>2, <1>3, <1>4 DEF Store!Begin, Store!Nothing, Nothing, Up

\* Requests, and the steps of a schedule outside the registry.
LEMMA OutsideStore ==
  ASSUME SInv, Next, ~overlapped', NEW p \in Callers \cup Handles,
         \/ p \in Callers /\ Handler(p)
         \/ p \in Handles /\ Schedule(p)
         \/ Panic(p)
  PROVE  [Store!StoreNext]_(Store!storeVars)
<1> USE ProcFacts DEF ram, kernel, Goto
<1>0. TypeInv /\ TypeOK /\ p \in Procs
  BY DEF SInv, IInv, TypeInv
<1>1. ASSUME p \in Callers, NEW op \in {"create", "add", "delete"}, NEW info,
             NEW label \in {"find", "spawn"}, Request(p, op, info, label),
             label = "spawn" => op = "add",
             [op |-> op, info |-> info] \in Store!Calls
      PROVE  Store!StoreNext
  <2>1. /\ UNCHANGED <<task_list, task_count, flash>>
        /\ pc[p] = "idle" /\ pc'[p] = label /\ \A q \in Procs : q # p => pc'[q] = pc[q]
        /\ req'[p] = [op |-> op, info |-> info]
    BY <1>0, <1>1 DEF Request, TypeOK
  <2>2. TodoOf(p)' = [op |-> op, info |-> info]
    BY <1>1, <2>1 DEF TodoOf, Adding, Removing
  <2>3. ~Busy(p) /\ Busy(p)'
    BY <1>1, <2>1 DEF Busy
  <2>4. Store!Begin
    BY <1>1, <2>1, <2>2, <2>3, BeginStore
  <2> QED BY <2>4 DEF Store!StoreNext
<1>2. ASSUME p \in Callers, NEW info \in Info, WsCreate(p, info) PROVE Store!StoreNext
  BY <1>1, <1>2 DEF WsCreate, Store!Calls
<1>3. ASSUME p \in Callers, NEW info \in Info, HttpAdd(p, info) PROVE Store!StoreNext
  BY <1>1, <1>3 DEF HttpAdd, Store!Calls
<1>4. ASSUME p \in Callers, NEW id \in Ids, Delete(p, id) PROVE Store!StoreNext
  BY <1>1, <1>4 DEF Delete, Store!Calls
<1>5. ASSUME p \in Callers, NEW g \in Garbage, FrameReuse(p, g)
      PROVE  UNCHANGED Store!storeVars
  BY <1>5, StillStore DEF FrameReuse
<1>6. CASE p \in Handles /\ ScheduleComplete(p)
  <2>1. /\ UNCHANGED <<task_list, task_count, flash>>
        /\ pc[p] = "loop" /\ pc'[p] = "find" /\ \A q \in Procs : q # p => pc'[q] = pc[q]
    BY <1>0, <1>6 DEF ScheduleComplete, TypeOK
  <2>2. TodoOf(p)' = Own
    BY <1>6, <2>1 DEF TodoOf
  <2>3. ~Busy(p) /\ Busy(p)'
    BY <2>1 DEF Busy
  <2>4. Store!Begin
    BY <2>1, <2>2, <2>3, BeginStore DEF Store!Calls, Store!Own, Own
  <2> QED BY <2>4 DEF Store!StoreNext
<1>7. CASE p \in Handles /\ (ScheduleStart(p) \/ ScheduleExit(p) \/ IdleReap(p))
  <2>1. /\ UNCHANGED <<task_list, task_count, flash, loc, req>>
        /\ \A q \in Procs : q # p => pc'[q] = pc[q]
        /\ pc'[p] = pc[p] \/ (~Busy(p) /\ ~Busy(p)')
    BY <1>0, <1>7 DEF ScheduleStart, ScheduleExit, IdleReap, Busy, TypeOK
  <2> QED BY <1>7, <2>1, StillStore
<1>8. CASE Panic(p)
  BY <1>8, StillStore DEF Panic
<1> QED BY <1>2, <1>3, <1>4, <1>5, <1>6, <1>7, <1>8 DEF Handler, Schedule

\* Boot saves the empty registry, reads the copy and fills in the handles.
LEMMA BootStore ==
  ASSUME SInv, Boot
  PROVE  [Store!StoreNext]_(Store!storeVars)
<1> USE ProcFacts DEF ram, kernel, Goto
<1>0. TypeInv /\ TypeOK
  BY DEF SInv, IInv, TypeInv
<1>1. \A q \in Procs : pc[q] \notin Removing /\ pc'[q] \notin Removing
  BY BootIsAlone DEF Busy, Removing, SInv, MainPoint
<1>6. TodoView' = TodoView
  BY BootIsAlone, TodoNone, TodoNoneNext
<1>2. CASE BootSave
  <2>1. /\ UNCHANGED <<task_list, task_count>> /\ (flash' = flash \/ flash' = Saved)
        /\ (Up' <=> Up)
    BY <1>0, <1>2 DEF BootSave, Save, TypeOK, Up
  <2> QED BY <1>1, <1>6, <2>1, SaveStore
<1>3. CASE BootLoad
  <2>1. ~Up /\ Up' /\ flash' = flash
    BY <1>0, <1>3 DEF BootLoad, TypeOK, Up
  <2>2. StoreView' \in {StoreView, flash}
    <3>1. CASE UNCHANGED <<task_list, task_count>>
      BY <1>1, <3>1, ViewWhole, ViewWholeNext
    <3>2. ASSUME Len(flash) <= MAX_TASKS, task_count' = Len(flash),
                 NEW old \in [Slots -> Handles],
                 task_list' = [k \in Slots |->
                   IF k < Len(flash) THEN [handle |-> old[k], info |-> flash[k + 1]]
                   ELSE task_list[k]]
          PROVE  StoreView' = flash
      <4>1. Len(flash) \in 0 .. MAX_TASKS /\ flash \in Seq(Info \cup {NULL})
        BY <1>0, <3>2, TaskManagerAssumption DEF TypeOK
      <4>2. \A k \in 1 .. Len(flash) : task_list'[k - 1].info = flash[k]
        BY <3>2, <4>1, TaskManagerAssumption DEF Slots
      <4>3. flash = [k \in 1 .. Len(flash) |-> flash[k]]
        BY <4>1
      <4>4. Rows(task_list', Len(flash)) = flash
        BY <4>2, <4>3 DEF Rows
      <4> QED BY <1>1, <3>2, <4>4, ViewWholeNext
    <3> QED BY <1>3, <3>1, <3>2 DEF BootLoad
  <2>3. Store!Load
    BY <1>6, <2>1, <2>2 DEF Store!Load, Up
  <2> QED BY <2>3 DEF Store!StoreNext
<1>4. ASSUME NEW h \in Handles, BootStart(h)
      PROVE  UNCHANGED Store!storeVars
  <2>1. /\ task_count' = task_count /\ flash' = flash /\ (Up' <=> Up)
        /\ \A k \in Slots : task_list'[k].info = task_list[k].info
    BY <1>0, <1>4 DEF BootStart, TypeOK, Entry, Up
  <2>2. \A k \in 1 .. task_count : task_list'[k - 1].info = task_list[k - 1].info
    <3>1. task_count \in Nat /\ \A k \in 0 .. task_count - 1 : k \in Slots
      BY RowsType
    <3> QED BY <2>1, <3>1
  <2>3. Rows(task_list', task_count') = Rows(task_list, task_count)
    BY <2>1, <2>2 DEF Rows
  <2>4. StoreView' = StoreView
    BY <1>1, <2>3, ViewWhole, ViewWholeNext
  <2> QED BY <1>6, <2>1, <2>4, SameStore
<1>5. CASE BootStartFail \/ BootDone
  <2>1. UNCHANGED <<task_list, task_count, flash>> /\ (Up' <=> Up)
    BY <1>0, <1>5 DEF BootStartFail, BootDone, TypeOK, Up
  <2>2. StoreView' = StoreView
    BY <1>1, <2>1, QuietView
  <2> QED BY <1>6, <2>1, <2>2, SameStore
<1> QED BY <1>2, <1>3, <1>4, <1>5 DEF Boot

LEMMA RebootStore ==
  ASSUME Reboot
  PROVE  Store!Crash
<1>1. /\ \A q \in Procs : pc'[q] \notin Removing
      /\ \A q \in Callers \cup Handles : ~Busy(q)'
      /\ ~Up' /\ task_count' = 0 /\ flash' = flash
  BY ProcFacts DEF Reboot, Up, Removing, Busy
<1>2. StoreView' = << >>
  <2>1. StoreView' = Rows(task_list', 0)
    BY <1>1, ViewWholeNext
  <2>2. Rows(task_list', 0) = << >>
    BY DEF Rows
  <2> QED BY <2>1, <2>2
<1>3. TodoView' = Nothing
  BY <1>1, TodoNoneNext
<1> QED BY <1>1, <1>2, <1>3 DEF Store!Crash, Store!Nothing, Nothing, Up

LEMMA SInvInit == Init => SInv /\ Store!StoreInit
<1> SUFFICES ASSUME Init PROVE SInv /\ Store!StoreInit
  OBVIOUS
<1>1. IInv /\ ~overlapped
  BY InitIInv DEF Init
<1>2. MainPoint /\ \A c \in Callers : Knows(c)
  BY ProcFacts DEF Init, MainPoint, Knows
<1>3. StoreView = << >>
  <2>1. \A q \in Procs : pc[q] \notin Removing
    BY DEF Init, Removing
  <2>2. StoreView = Rows(task_list, 0)
    BY <2>1, ViewWhole DEF Init
  <2>3. Rows(task_list, 0) = << >>
    BY DEF Rows
  <2> QED BY <2>2, <2>3
<1>4. TodoView = Nothing
  <2>1. \A q \in Callers \cup Handles : ~Busy(q)
    BY ProcFacts DEF Init, Busy
  <2> QED BY <2>1, TodoNone
<1>5. ~Up /\ flash = << >>
  BY ProcFacts DEF Init, Up
<1> QED BY <1>1, <1>2, <1>3, <1>4, <1>5 DEF SInv, Store!StoreInit, Store!Nothing, Nothing, Up

LEMMA SInvNext ==
  ASSUME SInv, [Next /\ ~overlapped']_vars
  PROVE  SInv' /\ [Store!StoreNext]_(Store!storeVars)
<1>0. IInv'
  BY NextIInv DEF SInv
<1>1. CASE UNCHANGED vars
  <2>1. ~overlapped' /\ MainPoint' /\ \A c \in Callers : Knows(c)'
    BY <1>1 DEF SInv, MainPoint, Knows, vars, IdOf
  <2>2. Holes' = Holes /\ \A p \in Callers \cup Handles : TodoOf(p)' = TodoOf(p)
    BY <1>1 DEF vars, Holes, TodoOf
  <2>3. StoreView' = StoreView
    BY <1>1, <2>2 DEF vars, StoreView
  <2>4. Todos' = Todos
    BY <2>2 DEF Todos
  <2>5. UNCHANGED Store!storeVars
    BY <1>1, <2>3, <2>4, SameStore DEF vars, Up, TodoView
  <2> QED BY <1>0, <2>1, <2>5 DEF SInv
<1>2. CASE Next /\ ~overlapped'
  <2>1. MainPoint' /\ \A c \in Callers : Knows(c)'
    BY <1>2, KnowsStep, MainStep DEF SInv, IInv
  <2>2. [Store!StoreNext]_(Store!storeVars)
    <3>1. ASSUME NEW p \in Callers \cup Handles, DeleteTask(p) \/ Panic(p)
          PROVE  [Store!StoreNext]_(Store!storeVars)
      BY <1>2, <3>1, DeleteStore, OutsideStore
    <3>2. ASSUME NEW c \in Callers, CreateTask(c) \/ Handler(c)
          PROVE  [Store!StoreNext]_(Store!storeVars)
      BY <1>2, <3>2, CreateStore, OutsideStore
    <3>3. ASSUME NEW h \in Handles, Schedule(h)
          PROVE  [Store!StoreNext]_(Store!storeVars)
      BY <1>2, <3>3, OutsideStore
    <3>4. CASE Boot
      BY <3>4, BootStore
    <3>5. CASE Reboot
      BY <3>5, RebootStore DEF Store!StoreNext
    <3> QED BY <1>2, <3>1, <3>2, <3>3, <3>4, <3>5 DEF Next, Step
  <2> QED BY <1>0, <1>2, <2>1, <2>2 DEF SInv
<1> QED BY <1>1, <1>2

\* Without overlapping calls, every execution of task_manager.c, with its reboots,
\* failed NVS accesses, failed creations and reused stack frames, is one of a
\* sequence on which each call does what its client asked, once and in its order:
\* remove the first match, append, and nothing else.
THEOREM RegistryIsAStore == SerialSpec => ImplementsStore
<1>1. Init => SInv /\ Store!StoreInit
  BY SInvInit
<1>2. SInv /\ [Next /\ ~overlapped']_vars => SInv' /\ [Store!StoreNext]_(Store!storeVars)
  BY SInvNext
<1> QED BY <1>1, <1>2, PTL DEF SerialSpec, ImplementsStore, Store!StoreSpec
=============================================================================
