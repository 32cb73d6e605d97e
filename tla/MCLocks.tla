------------------------------- MODULE MCLocks -------------------------------
(***************************************************************************)
(* CriticalSection, OrmMutex and Tasks for TLC.  The critical section      *)
(* shares no state with the mutex, so nothing is added by interleaving     *)
(* them: focus says which of them a behaviour is about.  The mutex is      *)
(* used through its own interface or by the runs of a task.                *)
(***************************************************************************)
EXTENDS CriticalSection, Tasks, TLC

CONSTANTS k1, k2, k3, k4, r1, r2, r3, r4, A, B

VARIABLE focus

allVars == <<focus, sectionVars, vars>>

(* r1 and r2 run in the application A, the others in B.                     *)
TwoApps == [p \in Procs |-> IF p \in {r1, r2} THEN A ELSE B]

AllInit ==
    /\ focus \in {"section", "mutex", "task"}
    /\ SectionInit
    /\ TaskInit

(* Stacked runs and runs without options never come to the mutex.           *)
MutexNext == \E p \in Procs \ (Stacking \cup NoOptions) : Operation(p)

AllNext ==
    /\ UNCHANGED focus
    /\ \/ focus = "section" /\ SectionNext /\ UNCHANGED vars
       \/ focus = "mutex" /\ MutexNext /\ UNCHANGED <<sectionVars, task, run>>
       \/ focus = "task" /\ TaskNext /\ UNCHANGED sectionVars

AllSpec == AllInit /\ [][AllNext]_allVars

(* The scheduling of the three modules.                                     *)
FairAllSpec ==
    /\ AllSpec
    /\ SectionFairness
    /\ Fairness
    /\ TaskFairness

(* Every module keeps its variables within their types.                     *)
TypesOK == SectionTypeOK /\ TaskTypeOK
==============================================================================
