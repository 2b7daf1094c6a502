--------------------------- MODULE ScheduleStore ---------------------------
(***************************************************************************)
(* What main/task-manager/task_manager.c promises while its calls do not   *)
(* overlap: a bounded sequence of schedules, in the order they were added, *)
(* and one copy of it in NVS, written whole and read back at boot.  A      *)
(* client's call removes the first schedule with the id it names, adds the *)
(* one it names at the end, or does both, in that order.  A schedule that  *)
(* has fired removes one entry, which need not be its own.                 *)
(***************************************************************************)
EXTENDS Naturals, SequencesExt

CONSTANTS
  Schedules,  \* what can be added
  Targets,    \* what a client's delete can name: records with an id
  Capacity    \* how many entries the registry holds

VARIABLES
  store,  \* the schedules of the registry
  saved,  \* the copy in NVS
  todo,   \* what the call being served has still to do to the store
  phase   \* "boot" until the copy has been read

storeVars == <<store, saved, todo, phase>>

Nothing == [op |-> "none"]
Own     == [op |-> "own"]
Calls   == [op : {"create", "add"}, info : Schedules]
           \cup [op : {"delete"}, info : Targets] \cup {Own}

StoreInit ==
  store = << >> /\ saved = << >> /\ todo = Nothing /\ phase = "boot"

Begin ==
  /\ phase = "up" /\ todo = Nothing
  /\ todo' \in Calls
  /\ UNCHANGED <<store, saved, phase>>

\* The removal is done: of a create, the addition is left.
Removed ==
  /\ todo.op \in {"create", "delete", "own"}
  /\ todo' = IF todo.op = "create" THEN [op |-> "add", info |-> todo.info] ELSE Nothing

\* Removes entry k: the first one with the id, or any for a schedule of its own.
Drop(k) ==
  /\ Removed /\ k \in 1 .. Len(store)
  /\ todo.op # "own" =>
       /\ store[k].id = todo.info.id
       /\ \A l \in 1 .. k - 1 : store[l].id # todo.info.id
  /\ store' = RemoveAt(store, k)
  /\ UNCHANGED <<saved, phase>>

NotFound ==
  /\ Removed
  /\ todo.op # "own" => \A k \in 1 .. Len(store) : store[k].id # todo.info.id
  /\ UNCHANGED <<store, saved, phase>>

\* The schedule is added, or its task cannot be created.
AddSchedule ==
  /\ todo.op = "add"
  /\ \/ Len(store) < Capacity /\ store' = Append(store, todo.info)
     \/ UNCHANGED store
  /\ todo' = Nothing
  /\ UNCHANGED <<saved, phase>>

Persist == saved' = store /\ UNCHANGED <<store, todo, phase>>

Load ==
  /\ phase = "boot"
  /\ phase' = "up"
  /\ store' \in {store, saved}   \* the read may fail
  /\ UNCHANGED <<saved, todo>>

Crash == store' = << >> /\ todo' = Nothing /\ phase' = "boot" /\ UNCHANGED saved

StoreNext ==
  \/ Begin \/ NotFound \/ AddSchedule \/ Persist \/ Load \/ Crash
  \/ \E k \in 1 .. Capacity : Drop(k)

StoreSpec == StoreInit /\ [][StoreNext]_storeVars
=============================================================================
