-------------------------------- MODULE Tasks --------------------------------
(***************************************************************************)
(* The @Task decorator of packages/tasks over OrmMutex: runs of one task   *)
(* in the processes of one or more applications.  A run without stacking   *)
(* acquires the mutex task-<name> for the application it runs in.          *)
(***************************************************************************)
EXTENDS OrmMutex

CONSTANTS
    Stacking,  \* the runs whose options allow stacking
    NoOptions  \* the runs of a @Task decorated without options

ASSUME TaskAssumption ==
    /\ Stacking \subseteq Procs
    /\ NoOptions \subseteq Procs \ Stacking

VARIABLES
    task,     \* State of the row in __tasks, or None
    run       \* where each run is

vars == <<mutexVars, task, run>>

TaskInit ==
    /\ Init
    /\ task = None
    /\ run = [p \in Procs |-> "idle"]

At(p, l) == run[p] = l
RunTo(p, l) == run' = [run EXCEPT ![p] = l]

(* What follows the task row: the options are read, the mutex or the body.  *)
Loaded(p) ==
    IF p \in NoOptions THEN "threw" ELSE IF p \in Stacking THEN "starting" ELSE "locking"

(* __task.getOrCreate: the query ...                                        *)
LoadTask(p) ==
    /\ At(p, "idle")
    /\ RunTo(p, IF task = None THEN "inserting" ELSE Loaded(p))
    /\ UNCHANGED <<mutexVars, task>>

(* ... and the insert.  Name is unique: the second insert throws, and with  *)
(* it the run ("Cannot start task").                                        *)
InsertTask(p) ==
    /\ At(p, "inserting")
    /\ task' = IF task = None THEN "stopped" ELSE task
    /\ RunTo(p, IF task = None THEN Loaded(p) ELSE "threw")
    /\ UNCHANGED mutexVars

(* Mutant: whether the lock was granted is not looked at.                   *)
LockIgnored(p) ==
    /\ \/ At(p, "locking") /\ AcquireGet(p)
       \/ At(p, "acquiring") /\ (AcquireCreateGet(p) \/ AcquireInsert(p) \/ AcquireUpdate(p))
    /\ RunTo(p, IF pc'[p] # "idle" THEN "acquiring" ELSE "starting")
    /\ UNCHANGED task

(* Mutant: a run that is not granted the lock asks again.                   *)
LockRetries(p) ==
    /\ \/ At(p, "locking") /\ AcquireGet(p)
       \/ At(p, "acquiring") /\ (AcquireCreateGet(p) \/ AcquireInsert(p) \/ AcquireUpdate(p))
    /\ RunTo(p, IF pc'[p] # "idle" THEN "acquiring"
                ELSE IF got'[p] THEN "starting" ELSE "locking")
    /\ UNCHANGED task

(* mutex_acquire, query by query.                                           *)
Lock(p) ==
    /\ \/ At(p, "locking") /\ AcquireGet(p)
       \/ At(p, "acquiring") /\ (AcquireCreateGet(p) \/ AcquireInsert(p) \/ AcquireUpdate(p))
    /\ RunTo(p, IF pc'[p] # "idle" THEN "acquiring"
                ELSE IF got'[p] THEN "starting"
                ELSE IF pc[p] = "insert" THEN "threw" ELSE "skipped")
    /\ UNCHANGED task

(* State is set to running and saved, then the method is called.            *)
Start(p) ==
    /\ At(p, "starting")
    /\ task' = "running"
    /\ RunTo(p, "executing")
    /\ UNCHANGED mutexVars

(* The method returned or threw and the event was emitted.  The finally     *)
(* block names a variable that is not defined, so it ends in its own catch: *)
(* neither the mutex nor the task row nor the history is written.           *)
Finish(p) ==
    /\ At(p, "executing")
    /\ RunTo(p, "ended")
    /\ UNCHANGED <<mutexVars, task>>

Steps(p) == LoadTask(p) \/ InsertTask(p) \/ Lock(p) \/ Start(p) \/ Finish(p)

(* The application runs the task again.                                     *)
Again(p) ==
    /\ run[p] \in {"ended", "skipped", "threw"}
    /\ RunTo(p, "idle")
    /\ UNCHANGED <<mutexVars, task>>

TaskNext == \E p \in Procs : Steps(p) \/ Again(p)

TaskSpec == TaskInit /\ [][TaskNext]_vars

(* Queries are answered, and the method of a task ends.                     *)
TaskFairness ==
    \A p \in Procs : WF_vars(InsertTask(p) \/ Lock(p) \/ Start(p) \/ Finish(p))

-----------------------------------------------------------------------------
RunStates == {"idle", "inserting", "locking", "acquiring", "starting", "executing",
              "ended", "skipped", "threw"}

TaskTypeOK ==
    /\ TypeOK
    /\ task \in {None, "stopped", "running"}
    /\ run \in [Procs -> RunStates]

(* Two applications execute a task that may not stack at the same time only *)
(* if their acquires raced on the row of the mutex.                         *)
AppsExcludeEachOther ==
    ~raced =>
        \A p, q \in Procs \ Stacking :
            At(p, "executing") /\ At(q, "executing") => Tenant[p] = Tenant[q]

(* A run that was asked for ends: executed, skipped or refused.             *)
EveryRunEnds ==
    \A p \in Procs : run[p] = "locking" ~> run[p] \in {"ended", "skipped", "threw"}
==============================================================================
