---------------------------- MODULE OverlapProofs ----------------------------
(***************************************************************************)
(* Safety of what may overlap, for any number of calls, processes and      *)
(* tenants: the critical sections of a process, if their callbacks return  *)
(* a promise; the mutex in the database and the tasks that lock it; and    *)
(* the calls on files, of which one that shares no place with another      *)
(* loses nothing.                                                          *)
(***************************************************************************)
EXTENDS CriticalSection, Tasks, FileStore, SequenceTheorems, FiniteSetTheorems, TLAPS

-----------------------------------------------------------------------------
(* CriticalSection.                                                         *)

(* The variables of a section stay within their types.                      *)
THEOREM SectionTypeCorrect == SectionSpec => []SectionTypeOK
<1>1. SectionInit => SectionTypeOK
  BY DEF SectionInit, SectionTypeOK
<1>2. SectionTypeOK /\ [SectionNext]_sectionVars => SectionTypeOK'
  <2> SUFFICES ASSUME SectionTypeOK, [SectionNext]_sectionVars
               PROVE  SectionTypeOK'
    OBVIOUS
  <2>1. ASSUME NEW k \in Calls, Call(k)
        PROVE  SectionTypeOK'
    BY <2>1 DEF Call, SectionTypeOK
  <2>2. ASSUME NEW k \in Calls, Enter(k) \/ EnterThrows(k)
        PROVE  SectionTypeOK'
    BY <2>2 DEF Enter, EnterThrows, SectionTypeOK
  <2>3. ASSUME NEW k \in Calls, Refused(k)
        PROVE  SectionTypeOK'
    BY <2>3 DEF Refused, SectionTypeOK
  <2>4. ASSUME NEW k \in Calls, Leave(k) \/ LeaveFailing(k)
        PROVE  SectionTypeOK'
    BY <2>4 DEF Leave, LeaveFailing, ReleaseSection, SectionTypeOK
  <2>5. CASE UNCHANGED sectionVars
    BY <2>5 DEF sectionVars, SectionTypeOK
  <2> QED
    BY <2>1, <2>2, <2>3, <2>4, <2>5 DEF SectionNext
<1> QED
  BY <1>1, <1>2, PTL DEF SectionSpec

(* When no callback throws before it returns a promise, the section is      *)
(* never left registered to a rejected one, whatever calls overlap and      *)
(* whichever of their callbacks fail: a failing callback replaces whatever  *)
(* is registered, and one that starts is not rejected yet.                  *)
THEOREM SectionNeverPoisoned ==
    ASSUME SyncThrow = {}
    PROVE  SectionSpec => []NeverPoisoned
<1>1. SectionInit => NeverPoisoned
  BY SectionAssumption DEF SectionInit, NeverPoisoned, Broken
<1>2. SectionTypeOK /\ NeverPoisoned /\ [SectionNext]_sectionVars => NeverPoisoned'
  <2> SUFFICES ASSUME SectionTypeOK, NeverPoisoned, [SectionNext]_sectionVars
               PROVE  NeverPoisoned'
    OBVIOUS
  <2>0. callback \in [Calls -> {"none", "pending", "fulfilled", "rejected"}]
    BY DEF SectionTypeOK
  <2>1. ASSUME NEW k \in Calls, Call(k) \/ Refused(k)
        PROVE  NeverPoisoned'
    BY <2>1 DEF Call, Refused, NeverPoisoned, Broken
  <2>2. ASSUME NEW k \in Calls, Enter(k)
        PROVE  NeverPoisoned'
    BY <2>0, <2>2 DEF Enter, NeverPoisoned, Broken
  <2>3. ASSUME NEW k \in Calls, Leave(k)
        PROVE  NeverPoisoned'
    BY <2>0, <2>3 DEF Leave, NeverPoisoned, Broken
  <2>4. ASSUME NEW k \in Calls, LeaveFailing(k)
        PROVE  NeverPoisoned'
    BY <2>4, SectionAssumption DEF LeaveFailing, ReleaseSection, NeverPoisoned, Broken
  <2>5. CASE UNCHANGED sectionVars
    BY <2>5 DEF sectionVars, NeverPoisoned, Broken
  <2>6. \A k \in Calls : ~EnterThrows(k)
    BY DEF EnterThrows
  <2> QED
    BY <2>1, <2>2, <2>3, <2>4, <2>5, <2>6 DEF SectionNext
<1> QED
  BY <1>1, <1>2, SectionTypeCorrect, PTL DEF SectionSpec

-----------------------------------------------------------------------------
(* OrmMutex and Tasks.                                                      *)

(* A process on its way to the update has read a row it could take.         *)
JudgedFree ==
    \A p \in Procs : pc[p] = "update" => seen[p] \in Rows /\ ~Taken(p, seen[p])

(* The inductive invariant behind the safety theorems.                      *)
MutexInv == TypeOK /\ JudgedFree /\ LockedHasHolder /\ HolderIsLocked

-----------------------------------------------------------------------------
(* What acquire does with a row it has read: at most it goes on to update.  *)
LEMMA JudgeEffect ==
    ASSUME TypeOK, NEW p \in Procs, NEW r \in Rows, Judge(p, r)
    PROVE  /\ seen' \in [Procs -> Rows \cup {None}]
           /\ got' \in [Procs -> BOOLEAN]
           /\ pc' \in [Procs -> {"idle", "create", "insert", "update",
                                 "createInsert", "polling"}]
           /\ pc'[p] = "update" => seen'[p] = r /\ ~Taken(p, r)
           /\ \A q \in Procs \ {p} : pc'[q] = pc[q] /\ seen'[q] = seen[q]
  BY DEF TypeOK, Judge, Goto

(* An insert leaves a row that is not locked, or one that was there.        *)
LEMMA InsertEffect ==
    ASSUME TypeOK, NEW p \in Procs, Insert(p)
    PROVE  /\ row' \in Rows
           /\ row # None => row' = row
           /\ row = None => ~row'.locked
           /\ UNCHANGED <<holders, raced>>
  BY MutexAssumption DEF TypeOK, Insert, Rows

(* Every query keeps the variables within their types.                      *)
LEMMA MutexTypeInductive == TypeOK /\ [Next]_mutexVars => TypeOK'
<1> SUFFICES ASSUME TypeOK, [Next]_mutexVars
             PROVE  TypeOK'
  OBVIOUS
<1>1. ASSUME NEW p \in Procs, AcquireGet(p) \/ AcquireCreateGet(p)
      PROVE  TypeOK'
  <2>1. CASE row = None
    BY <1>1, <2>1 DEF AcquireGet, AcquireCreateGet, Goto, TypeOK
  <2>2. CASE row # None
    <3>1. row \in Rows /\ Judge(p, row) /\ UNCHANGED <<row, holders, raced>>
      BY <1>1, <2>2 DEF AcquireGet, AcquireCreateGet, TypeOK
    <3> QED
      BY <3>1, JudgeEffect DEF TypeOK
  <2> QED
    BY <2>1, <2>2
<1>2. ASSUME NEW p \in Procs, AcquireInsert(p)
      PROVE  TypeOK'
  <2>1. Insert(p)
    BY <1>2 DEF AcquireInsert
  <2>2. row' \in Rows /\ UNCHANGED <<holders, raced>>
    BY <2>1, InsertEffect
  <2>3. CASE row = None
    <3>1. Judge(p, row')
      BY <1>2, <2>3 DEF AcquireInsert
    <3> QED
      BY <3>1, <2>2, JudgeEffect DEF TypeOK
  <2>4. CASE row # None
    BY <1>2, <2>2, <2>4 DEF AcquireInsert, Goto, TypeOK
  <2> QED
    BY <2>3, <2>4
<1>3. ASSUME NEW p \in Procs, AcquireUpdate(p)
      PROVE  TypeOK'
  <2>1. /\ pc' = [pc EXCEPT ![p] = "idle"]
        /\ got' = [got EXCEPT ![p] = row # None]
        /\ seen' = seen
    BY <1>3 DEF AcquireUpdate, Goto
  <2>2. row' \in Rows \cup {None}
    BY <1>3, MutexAssumption DEF AcquireUpdate, Rows
  <2>3. holders' \subseteq Tenants
    BY <1>3, MutexAssumption DEF AcquireUpdate, TypeOK
  <2>4. raced' \in BOOLEAN
    BY <1>3 DEF AcquireUpdate
  <2> QED
    BY <2>1, <2>2, <2>3, <2>4 DEF TypeOK
<1>4. ASSUME NEW p \in Procs, Release(p) \/ ReleaseDelete(p) \/ Delete(p)
      PROVE  TypeOK'
  BY <1>4 DEF Release, ReleaseDelete, Delete, Destroy, OwnRow, GiveUp, TypeOK, Rows
<1>5. ASSUME NEW p \in Procs, CreateGet(p) \/ Wait(p) \/ WaitReturns(p) \/ WaitTimesOut(p)
      PROVE  TypeOK'
  BY <1>5 DEF CreateGet, Wait, WaitReturns, WaitTimesOut, Goto, TypeOK
<1>6. ASSUME NEW p \in Procs, CreateInsert(p)
      PROVE  TypeOK'
  <2>1. Insert(p)
    BY <1>6 DEF CreateInsert
  <2> QED
    BY <1>6, <2>1, InsertEffect DEF CreateInsert, Goto, TypeOK
<1>7. CASE UNCHANGED mutexVars
  BY <1>7 DEF mutexVars, TypeOK
<1> QED
  BY <1>1, <1>2, <1>3, <1>4, <1>5, <1>6, <1>7 DEF Next, Operation, Acquiring

(* An empty table has neither a locked row nor a holder.                    *)
LEMMA MutexInit == Init => MutexInv
  BY DEF Init, MutexInv, TypeOK, JudgedFree, LockedHasHolder, HolderIsLocked

(* The variables of the mutex stay within their types.                      *)
THEOREM MutexTypeCorrect == Spec => []TypeOK
<1>1. Init => TypeOK
  BY MutexInit DEF MutexInv
<1> QED
  BY <1>1, MutexTypeInductive, PTL DEF Spec

-----------------------------------------------------------------------------
(* A step that leaves the row and its holders alone keeps what relates them.*)
LEMMA SameRowKeeps ==
    ASSUME LockedHasHolder, HolderIsLocked, UNCHANGED <<row, holders, raced>>
    PROVE  LockedHasHolder' /\ HolderIsLocked'
  BY DEF LockedHasHolder, HolderIsLocked

(* An insert keeps it too: what it writes into an empty table is unlocked,  *)
(* and with an empty table nobody holds the mutex unless there was a race.  *)
LEMMA InsertKeeps ==
    ASSUME TypeOK, LockedHasHolder, HolderIsLocked, NEW p \in Procs, Insert(p)
    PROVE  LockedHasHolder' /\ HolderIsLocked'
<1>1. CASE row # None
  BY <1>1, InsertEffect, SameRowKeeps
<1>2. CASE row = None
  <2>1. ~row'.locked /\ UNCHANGED <<holders, raced>>
    BY <1>2, InsertEffect
  <2>2. ~raced => holders = {}
    BY <1>2 DEF HolderIsLocked
  <2> QED
    BY <2>1, <2>2 DEF LockedHasHolder, HolderIsLocked
<1> QED
  BY <1>1, <1>2

(* Nor does a step of another process change what a process has judged.     *)
LEMMA JudgeKeeps ==
    ASSUME TypeOK, JudgedFree, NEW p \in Procs, NEW r \in Rows, Judge(p, r)
    PROVE  JudgedFree'
<1> SUFFICES ASSUME NEW q \in Procs, pc'[q] = "update"
             PROVE  seen'[q] \in Rows /\ ~Taken(q, seen'[q])
  BY DEF JudgedFree, Taken
<1>1. CASE q = p
  BY <1>1, JudgeEffect
<1>2. CASE q # p
  BY <1>2, JudgeEffect DEF JudgedFree
<1> QED
  BY <1>1, <1>2

(* Nor does a process that only goes on, unless it goes on to update.       *)
LEMMA GotoKeeps ==
    ASSUME TypeOK, JudgedFree, NEW p \in Procs, NEW l, l # "update",
           Goto(p, l), UNCHANGED seen
    PROVE  JudgedFree'
  BY DEF TypeOK, JudgedFree, Goto, Taken

(* The update: without a race the row is the one that was judged, so the    *)
(* only tenant that may hold the mutex already is the same.                 *)
LEMMA UpdateKeeps ==
    ASSUME MutexInv, NEW p \in Procs, AcquireUpdate(p)
    PROVE  LockedHasHolder' /\ HolderIsLocked'
<1>0. TypeOK /\ JudgedFree /\ LockedHasHolder /\ HolderIsLocked
  BY DEF MutexInv
<1>1. CASE row = None
  BY <1>0, <1>1 DEF AcquireUpdate, LockedHasHolder, HolderIsLocked
<1>2. CASE row # None
  <2>1. /\ row' = [tenant |-> Tenant[p], locked |-> TRUE]
        /\ holders' = holders \cup {Tenant[p]}
        /\ raced' = (raced \/ row \notin {seen[p], None})
    BY <1>2 DEF AcquireUpdate
  <2>2. row' # None
    <3>1. Tenant[p] \in Tenants
      BY MutexAssumption
    <3>2. row' \in Rows
      BY <2>1, <3>1 DEF Rows
    <3> QED
      BY <3>2, NoRowAssumption
  <2>3. ASSUME ~raced', NEW t \in holders
        PROVE  t = Tenant[p]
    <3>1. row = seen[p] /\ ~raced
      BY <1>2, <2>1, <2>3
    <3>2. row.locked /\ row.tenant = t
      BY <1>0, <2>3, <3>1 DEF HolderIsLocked
    <3>3. ~Taken(p, row)
      BY <1>0, <3>1 DEF JudgedFree, AcquireUpdate
    <3> QED
      BY <3>2, <3>3 DEF Taken
  <2>4. LockedHasHolder'
    BY <2>1 DEF LockedHasHolder
  <2>5. HolderIsLocked'
    BY <2>1, <2>2, <2>3 DEF HolderIsLocked
  <2> QED
    BY <2>4, <2>5
<1> QED
  BY <1>1, <1>2

(* Whoever gives the mutex back unlocks or deletes the row if it is his.    *)
LEMMA GiveUpKeeps ==
    ASSUME MutexInv, NEW p \in Procs, Release(p) \/ ReleaseDelete(p) \/ Delete(p)
    PROVE  JudgedFree' /\ LockedHasHolder' /\ HolderIsLocked'
<1>0. TypeOK /\ JudgedFree /\ LockedHasHolder /\ HolderIsLocked
  BY DEF MutexInv
<1>1. /\ holders' = holders \ {Tenant[p]}
      /\ UNCHANGED <<pc, seen, raced>>
  BY DEF Release, ReleaseDelete, Delete, GiveUp
<1>2. JudgedFree'
  BY <1>0, <1>1 DEF JudgedFree, Taken
<1>3. CASE OwnRow(p)
  <2>1. row' = [row EXCEPT !.locked = FALSE] \/ row' = None
    BY <1>3 DEF Release, ReleaseDelete, Delete, Destroy
  <2>2. row \in Rows /\ row.tenant = Tenant[p]
    BY <1>0, <1>3 DEF OwnRow, TypeOK
  <2>3. row' = None \/ ~row'.locked
    BY <2>1, <2>2 DEF Rows
  <2>4. ~raced => holders' = {}
    BY <1>0, <1>1, <2>2 DEF HolderIsLocked
  <2> QED
    BY <1>1, <1>2, <2>3, <2>4 DEF LockedHasHolder, HolderIsLocked
<1>4. CASE ~OwnRow(p)
  <2>1. row' = row
    BY <1>4 DEF Release, ReleaseDelete, Delete, Destroy
  <2>2. row = None \/ row.tenant # Tenant[p]
    BY <1>4 DEF OwnRow
  <2> QED
    BY <1>0, <1>1, <1>2, <2>1, <2>2 DEF LockedHasHolder, HolderIsLocked
<1> QED
  BY <1>3, <1>4

(* Every query of every operation keeps the invariant.                      *)
LEMMA MutexInductive == MutexInv /\ [Next]_mutexVars => MutexInv'
<1> SUFFICES ASSUME MutexInv, [Next]_mutexVars
             PROVE  MutexInv'
  OBVIOUS
<1>0. TypeOK /\ JudgedFree /\ LockedHasHolder /\ HolderIsLocked
  BY DEF MutexInv
<1>t. TypeOK'
  BY <1>0, MutexTypeInductive
<1>1. ASSUME NEW p \in Procs, AcquireGet(p) \/ AcquireCreateGet(p)
      PROVE  MutexInv'
  <2>1. LockedHasHolder' /\ HolderIsLocked'
    BY <1>0, <1>1, SameRowKeeps DEF AcquireGet, AcquireCreateGet
  <2>2. CASE row = None
    <3>1. (Goto(p, "create") \/ Goto(p, "insert")) /\ UNCHANGED seen
      BY <1>1, <2>2 DEF AcquireGet, AcquireCreateGet
    <3> QED
      BY <1>0, <1>t, <2>1, <3>1, GotoKeeps DEF MutexInv
  <2>3. CASE row # None
    <3>1. row \in Rows /\ Judge(p, row)
      BY <1>0, <1>1, <2>3 DEF AcquireGet, AcquireCreateGet, TypeOK
    <3> QED
      BY <1>0, <1>t, <2>1, <3>1, JudgeKeeps DEF MutexInv
  <2> QED
    BY <2>2, <2>3
<1>2. ASSUME NEW p \in Procs, AcquireInsert(p)
      PROVE  MutexInv'
  <2>1. Insert(p)
    BY <1>2 DEF AcquireInsert
  <2>2. LockedHasHolder' /\ HolderIsLocked' /\ row' \in Rows
    BY <1>0, <2>1, InsertKeeps, InsertEffect
  <2>3. CASE row = None
    <3>1. Judge(p, row')
      BY <1>2, <2>3 DEF AcquireInsert
    <3> QED
      BY <1>0, <1>t, <2>2, <3>1, JudgeKeeps DEF MutexInv
  <2>4. CASE row # None
    <3>1. Goto(p, "idle") /\ UNCHANGED seen
      BY <1>2, <2>4 DEF AcquireInsert
    <3> QED
      BY <1>0, <1>t, <2>2, <3>1, GotoKeeps DEF MutexInv
  <2> QED
    BY <2>3, <2>4
<1>3. ASSUME NEW p \in Procs, AcquireUpdate(p)
      PROVE  MutexInv'
  <2>1. Goto(p, "idle") /\ UNCHANGED seen
    BY <1>3 DEF AcquireUpdate
  <2> QED
    BY <1>0, <1>t, <1>3, <2>1, UpdateKeeps, GotoKeeps DEF MutexInv
<1>4. ASSUME NEW p \in Procs, Release(p) \/ ReleaseDelete(p) \/ Delete(p)
      PROVE  MutexInv'
  BY <1>t, <1>4, GiveUpKeeps DEF MutexInv
<1>5. ASSUME NEW p \in Procs, CreateGet(p) \/ Wait(p) \/ WaitReturns(p) \/ WaitTimesOut(p)
      PROVE  MutexInv'
  <2>1. PICK l \in {"createInsert", "polling", "idle"} : Goto(p, l)
    BY <1>5 DEF CreateGet, Wait, WaitReturns, WaitTimesOut
  <2>2. UNCHANGED <<row, seen, holders, raced>>
    BY <1>5 DEF CreateGet, Wait, WaitReturns, WaitTimesOut
  <2> QED
    BY <1>0, <1>t, <2>1, <2>2, GotoKeeps, SameRowKeeps DEF MutexInv
<1>6. ASSUME NEW p \in Procs, CreateInsert(p)
      PROVE  MutexInv'
  <2>1. Insert(p) /\ Goto(p, "idle") /\ UNCHANGED seen
    BY <1>6 DEF CreateInsert
  <2> QED
    BY <1>0, <1>t, <2>1, InsertKeeps, GotoKeeps DEF MutexInv
<1>7. CASE UNCHANGED mutexVars
  <2>1. JudgedFree'
    BY <1>0, <1>7 DEF mutexVars, JudgedFree, Taken
  <2> QED
    BY <1>0, <1>t, <1>7, <2>1, SameRowKeeps DEF MutexInv, mutexVars
<1> QED
  BY <1>1, <1>2, <1>3, <1>4, <1>5, <1>6, <1>7 DEF Next, Operation, Acquiring

(* The invariant holds in every reachable state.                            *)
LEMMA MutexInvHolds == Spec => []MutexInv
  BY MutexInit, MutexInductive, PTL DEF Spec

(* A locked row names a tenant that was granted the mutex and has not given *)
(* it back, in every order of the queries; and without a lost update a      *)
(* holder is the tenant of the locked row.                                  *)
THEOREM LocksMatchHolders == Spec => []LockMatchesHolder
<1>1. MutexInv => LockMatchesHolder
  BY DEF MutexInv, LockMatchesHolder
<1> QED
  BY <1>1, MutexInvHolds, PTL

(* Without a lost update no two tenants hold the mutex at once.             *)
THEOREM ExclusiveWithoutRace == Spec => []ExclusiveUnlessRaced
<1>1. MutexInv => ExclusiveUnlessRaced
  <2> SUFFICES ASSUME MutexInv, ~raced
               PROVE  Cardinality(holders) <= 1
    BY DEF ExclusiveUnlessRaced
  <2>1. \A t \in holders : t = row.tenant
    BY DEF MutexInv, HolderIsLocked
  <2>2. CASE holders = {}
    BY <2>2, FS_EmptySet
  <2>3. CASE holders # {}
    <3>1. holders = {row.tenant}
      BY <2>1, <2>3
    <3>2. Cardinality({row.tenant}) = 1
      BY FS_Singleton
    <3> QED
      BY <3>1, <3>2
  <2> QED
    BY <2>2, <2>3
<1> QED
  BY <1>1, MutexInvHolds, PTL

-----------------------------------------------------------------------------
(* What a run needs to keep others out: from the grant of the lock to the   *)
(* end of the method its application is among the holders.                  *)
RunHoldsLock ==
    \A p \in Procs \ Stacking : run[p] \in {"starting", "executing"} => Tenant[p] \in holders

(* The inductive invariant of the tasks, over that of their mutex.          *)
TaskInv == MutexInv /\ TaskTypeOK /\ RunHoldsLock

(* Lock performs one query of acquire; when it was the last one and the     *)
(* lock was granted, the tenant of the run is now a holder.                 *)
LEMMA LockEffect ==
    ASSUME TypeOK, NEW p \in Procs, Lock(p)
    PROVE  /\ Acquiring(p)
           /\ holders \subseteq holders'
           /\ \E l \in {"acquiring", "starting", "threw", "skipped"} :
                 /\ RunTo(p, l)
                 /\ l = "starting" => Tenant[p] \in holders'
<1>1. Acquiring(p)
  BY DEF Lock, Acquiring
<1>2. PICK l \in {"acquiring", "starting", "threw", "skipped"} :
        RunTo(p, l) /\ (l = "starting" => pc'[p] = "idle" /\ got'[p])
  BY DEF Lock
<1>3. CASE AcquireUpdate(p)
  <2>1. got'[p] = (row # None)
    BY <1>3 DEF AcquireUpdate, TypeOK
  <2>2. holders \subseteq holders' /\ (got'[p] => Tenant[p] \in holders')
    BY <1>3, <2>1 DEF AcquireUpdate
  <2> QED
    BY <1>1, <1>2, <2>2
<1>4. CASE AcquireGet(p) \/ AcquireCreateGet(p) \/ AcquireInsert(p)
  <2>1. ~(pc'[p] = "idle" /\ got'[p])
    BY <1>4 DEF AcquireGet, AcquireCreateGet, AcquireInsert, Judge, Goto, TypeOK
  <2>2. holders' = holders
    BY <1>4 DEF AcquireGet, AcquireCreateGet, AcquireInsert, Insert
  <2> QED
    BY <1>1, <1>2, <2>1, <2>2
<1> QED
  BY <1>1, <1>3, <1>4 DEF Acquiring

(* A run that neither starts nor executes afterwards keeps the rest.        *)
LEMMA RunToKeeps ==
    ASSUME TaskTypeOK, RunHoldsLock, NEW p \in Procs, NEW l \in RunStates, RunTo(p, l),
           holders \subseteq holders',
           p \in Stacking \/ l \notin {"starting", "executing"} \/ Tenant[p] \in holders'
    PROVE  run' \in [Procs -> RunStates] /\ RunHoldsLock'
  BY DEF TaskTypeOK, RunTo, RunHoldsLock

(* No run holds the mutex before the first one is asked for.                *)
LEMMA TaskInvInit == TaskInit => TaskInv
  BY MutexInit DEF TaskInit, TaskInv, TaskTypeOK, RunHoldsLock, RunStates, MutexInv

(* Every step of a run keeps the invariant: those that query the mutex are  *)
(* steps of it, the others leave it alone.                                  *)
LEMMA TaskInductive == TaskInv /\ [TaskNext]_vars => TaskInv'
<1> SUFFICES ASSUME TaskInv, [TaskNext]_vars
             PROVE  TaskInv'
  OBVIOUS
<1>0. MutexInv /\ TaskTypeOK /\ RunHoldsLock /\ TypeOK
  BY DEF TaskInv, MutexInv
<1>1. ASSUME UNCHANGED mutexVars
      PROVE  MutexInv' /\ holders' = holders
  BY <1>0, <1>1, MutexInductive DEF mutexVars
<1>2. ASSUME NEW p \in Procs, LoadTask(p) \/ InsertTask(p) \/ Finish(p) \/ Again(p)
      PROVE  TaskInv'
  <2>1. MutexInv' /\ holders' = holders
    BY <1>1, <1>2 DEF LoadTask, InsertTask, Finish, Again
  <2>2. PICK l \in RunStates :
          RunTo(p, l) /\ (p \in Stacking \/ l \notin {"starting", "executing"})
    BY <1>2 DEF LoadTask, InsertTask, Finish, Again, Loaded, RunStates
  <2>3. task' \in {None, "stopped", "running"}
    BY <1>0, <1>2 DEF LoadTask, InsertTask, Finish, Again, TaskTypeOK
  <2>4. run' \in [Procs -> RunStates] /\ RunHoldsLock'
    BY <1>0, <2>1, <2>2, RunToKeeps
  <2> QED
    BY <2>1, <2>3, <2>4 DEF TaskInv, TaskTypeOK, MutexInv
<1>3. ASSUME NEW p \in Procs, Start(p)
      PROVE  TaskInv'
  <2>1. MutexInv' /\ holders' = holders
    BY <1>1, <1>3 DEF Start
  <2>2. RunTo(p, "executing") /\ "executing" \in RunStates
    BY <1>3 DEF Start, RunStates
  <2>3. p \in Stacking \/ Tenant[p] \in holders'
    BY <1>0, <1>3, <2>1 DEF Start, At, RunHoldsLock
  <2>4. run' \in [Procs -> RunStates] /\ RunHoldsLock'
    BY <1>0, <2>1, <2>2, <2>3, RunToKeeps
  <2> QED
    BY <1>3, <2>1, <2>4 DEF TaskInv, TaskTypeOK, MutexInv, Start
<1>4. ASSUME NEW p \in Procs, Lock(p)
      PROVE  TaskInv'
  <2>1. MutexInv'
    BY <1>0, <1>4, LockEffect, MutexInductive DEF Next, Operation
  <2>2. holders \subseteq holders'
    BY <1>0, <1>4, LockEffect
  <2>3. PICK l \in {"acquiring", "starting", "threw", "skipped"} :
          RunTo(p, l) /\ (l = "starting" => Tenant[p] \in holders')
    BY <1>0, <1>4, LockEffect
  <2>4. l \in RunStates
    BY DEF RunStates
  <2>5. run' \in [Procs -> RunStates] /\ RunHoldsLock'
    BY <1>0, <2>2, <2>3, <2>4, RunToKeeps
  <2> QED
    BY <1>0, <1>4, <2>1, <2>5 DEF TaskInv, TaskTypeOK, MutexInv, Lock
<1>5. CASE UNCHANGED vars
  BY <1>0, <1>1, <1>5 DEF vars, TaskInv, TaskTypeOK, RunHoldsLock, MutexInv, mutexVars
<1> QED
  BY <1>2, <1>3, <1>4, <1>5 DEF TaskNext, Steps

(* Two applications execute a task that may not stack at the same time only *)
(* if their acquires raced on the row of the mutex, for any number of runs, *)
(* processes and applications.                                              *)
THEOREM TasksExcludeEachOther == TaskSpec => []AppsExcludeEachOther
<1>1. TaskInv => AppsExcludeEachOther
  BY DEF TaskInv, MutexInv, HolderIsLocked, RunHoldsLock, AppsExcludeEachOther, At
<1> QED
  BY <1>1, TaskInvInit, TaskInductive, PTL DEF TaskSpec

-----------------------------------------------------------------------------
(* FileStore.                                                               *)

(* What a step may be.                                                      *)
Deeds == {"open", "enter", "fill", "put", "rename", "remove", "append", "replace", "find",
          "progress", "disconnect"}
FileSteps == [do : Deeds, from : Places, to : Places]

(* What a step does for the content the call is about: it fetches it into   *)
(* the temporary file, carries it from the source to where it lands, or     *)
(* delivers it there from the temporary file.                               *)
Role(c, r, x) ==
    IF x.do = "fill" /\ x.from = r.from /\ x.to = Temp(c) THEN "fetch"
    ELSE IF x.do \in {"fill", "put", "rename"} /\ x.from = r.from /\ x.to = LandsAt(c, r) THEN "carry"
    ELSE IF x.do \in {"fill", "put"} /\ x.from = Temp(c) /\ x.to = LandsAt(c, r) THEN "deliver"
    ELSE "none"
RolesAt(c, r, s, I) == {Role(c, r, s[i]) : i \in I} \ {"none"}
Roles(c, r, s) == RolesAt(c, r, s, DOMAIN s)

(* The step x fits if what comes behind it has the roles B: no file is      *)
(* opened that is not filled later, and the source is not removed before    *)
(* the content is where it lands.                                           *)
Fits(c, r, x, B) ==
    /\ {x.from, x.to} \subseteq Touches(c, r) \cup {Temp(c)}
    /\ x.do \in {"open", "enter", "fill", "put", "rename", "remove", "progress"}
    /\ x.do = "open" =>
          \/ x.to = Temp(c) /\ "fetch" \in B
          \/ x.to = LandsAt(c, r) /\ x.from = r.from /\ "carry" \in B
          \/ x.to = LandsAt(c, r) /\ x.from = Temp(c) /\ "deliver" \in B
    /\ x.do \in {"fill", "put", "rename"} => Role(c, r, x) # "none"
    /\ x.do = "rename" => r.kind = "move" /\ "deliver" \notin B
    /\ Role(c, r, x) = "deliver" => "fetch" \notin B
    /\ x.do = "remove" =>
          \/ x.from = Temp(c)
          \/ /\ x.from = r.from /\ r.kind \in {"move", "job, delete"}
             /\ "carry" \notin B /\ "deliver" \notin B

Ordered(c, r, s, B) ==
    \A i \in DOMAIN s : Fits(c, r, s[i], B \cup RolesAt(c, r, s, (i + 1)..Len(s)))

(* What sequences of steps are put together from: s may be followed by      *)
(* steps with the roles B, and has the roles R.                             *)
Piece(c, r, s, B, R) == s \in Seq(FileSteps) /\ Ordered(c, r, s, B) /\ Roles(c, r, s) = R

(* append of S3 and of the local disk, and the others.                      *)
S3Append(c, r) ==
    LET fill == [do |-> "fill", from |-> r.from, to |-> Temp(c)]
        add == [do |-> "append", from |-> Temp(c), to |-> Temp(c)]
        put == [do |-> "put", from |-> Temp(c), to |-> r.from]
    IN {<<[do |-> "open", from |-> Temp(c), to |-> Temp(c)], fill, add, put>>,
        <<fill, add, put>>, <<add, put>>, <<put>>}

(* The variables have their types; a call has steps left while it runs.     *)
FileVarsOK ==
    /\ DOMAIN files = Places
    /\ asked \in [FileCalls -> Asks \cup {NoFile}]
    /\ outcome \in [FileCalls -> {"idle", "running", "done", "failed"}]
    /\ \A c \in FileCalls : (outcome[c] = "idle") = (asked[c] = NoFile)
    /\ todo \in [FileCalls -> Seq(FileSteps)]
    /\ \A c \in FileCalls : Running(c) => todo[c] # <<>>
    /\ DOMAIN had = FileCalls /\ crossed \subseteq FileCalls

(* A call that no other has crossed shares no place with one that may go    *)
(* on.                                                                      *)
Apart ==
    \A c \in FileCalls \ crossed : \A d \in FileCalls \ {c} :
        /\ asked[c] # NoFile /\ asked[d] # NoFile
        /\ Touches(d, asked[d]) \cap Touches(c, asked[c]) # {}
        => ~MayGoOn(d)

(* The steps a call has left: in order, for an append those its provider    *)
(* takes.                                                                   *)
StepsFor(c) ==
    LET r == asked[c]
        here == [do |-> "append", from |-> r.from, to |-> r.from]
        find == [do |-> "find", from |-> r.from, to |-> r.from]
        enter == [do |-> "enter", from |-> r.from, to |-> r.from]
        over == [do |-> "replace", from |-> r.from, to |-> r.from]
    IN CASE r.kind # "append" -> Ordered(c, r, todo[c], {})
         [] r.kind = "append" /\ r.from[1] = "local" -> todo[c] = <<here>>
         [] r.kind = "append" /\ r.from[1] = "s3" -> todo[c] \in S3Append(c, r)
         [] r.kind = "append" /\ r.from[1] = "ftp" -> todo[c] \in {<<find, enter, over>>, <<enter, over>>, <<over>>}

(* Every call that runs has such steps left.                                *)
StepsLeft == \A c \in FileCalls : Running(c) => StepsFor(c)

(* The content is at the source, or where it was moved to.                  *)
Kept(c, fs) ==
    LET r == asked[c] IN
    \/ fs[r.from] = had[c]
    \/ fs[r.from] = NoFile /\ fs[LandsAt(c, r)] = had[c] /\ r.kind \in {"move", "job, delete"}

(* With the steps s left: nothing more is carried or delivered once the     *)
(* content has landed, and the source, and a temporary file in use, still   *)
(* hold what is to be delivered.                                            *)
Held(c, fs, s) ==
    LET r == asked[c] IN
    /\ Kept(c, fs)
    /\ Roles(c, r, s) \cap {"carry", "deliver"} = {} => fs[LandsAt(c, r)] = had[c]
    /\ "deliver" \in Roles(c, r, s) =>
          /\ fs[r.from] = had[c]
          /\ "fetch" \notin Roles(c, r, s) => fs[Temp(c)] \in {had[c], NoFile}

(* The file with what c appends to it, and an append on the way there.      *)
Appended(c) == [had[c] EXCEPT !.plus = @ \cup {c}]

HeldAppend(c, fs, s) ==
    /\ fs[asked[c].from] = had[c]
    /\ asked[c].from[1] = "s3" =>
         /\ Len(s) = 2 => fs[Temp(c)] = had[c]
         /\ Len(s) = 1 => fs[Temp(c)] = Appended(c)

(* What is so of a call nobody has crossed: while it runs, when it is done   *)
(* and after it failed.                                                     *)
Safe(c) ==
    IF asked[c].kind = "append"
    THEN asked[c].from[1] # "ftp" =>
           /\ Running(c) => HeldAppend(c, files, todo[c])
           /\ outcome[c] = "done" => files[asked[c].from] = Appended(c)
           /\ files[asked[c].from] \in {had[c], Appended(c)}
    ELSE /\ Kept(c, files)
         /\ Running(c) => Held(c, files, todo[c])
         /\ outcome[c] = "done" => files[LandsAt(c, asked[c])] = had[c]

AllSafe == \A c \in FileCalls \ crossed : asked[c] # NoFile /\ had[c] \notin {NoFile, Torn} => Safe(c)

(* The inductive invariant.                                                 *)
CallInv == FileVarsOK /\ Apart /\ StepsLeft /\ AllSafe

(* Steps one after the other have the roles of both.                        *)
LEMMA RolesConcat ==
    ASSUME NEW c, NEW r, NEW a \in Seq(FileSteps), NEW b \in Seq(FileSteps)
    PROVE  Roles(c, r, a \o b) = Roles(c, r, a) \cup Roles(c, r, b)
<1> DEFINE ab == a \o b
<1>1. /\ Len(a) \in Nat /\ Len(b) \in Nat /\ DOMAIN a = 1..Len(a) /\ DOMAIN b = 1..Len(b)
      /\ DOMAIN ab = 1..(Len(a) + Len(b))
      /\ \A i \in 1..Len(a) : ab[i] = a[i]
      /\ \A i \in 1..Len(b) : ab[Len(a) + i] = b[i]
  OBVIOUS
<1> HIDE DEF ab
<1>2. \A i \in DOMAIN a : i \in DOMAIN ab /\ ab[i] = a[i]
  BY <1>1
<1>3. \A i \in DOMAIN b : Len(a) + i \in DOMAIN ab /\ ab[Len(a) + i] = b[i]
  BY <1>1
<1>4. \A i \in DOMAIN ab : i \in DOMAIN a \/ (\E k \in DOMAIN b : i = Len(a) + k)
  <2> SUFFICES ASSUME NEW i \in DOMAIN ab, i \notin DOMAIN a
               PROVE  \E k \in DOMAIN b : i = Len(a) + k
    OBVIOUS
  <2>1. i - Len(a) \in DOMAIN b /\ i = Len(a) + (i - Len(a))
    BY <1>1
  <2> QED
    BY <2>1
<1>5. {Role(c, r, ab[i]) : i \in DOMAIN ab}
        = {Role(c, r, a[i]) : i \in DOMAIN a} \cup {Role(c, r, b[i]) : i \in DOMAIN b}
  BY <1>2, <1>3, <1>4
<1> QED
  BY <1>5 DEF Roles, RolesAt, ab

(* A sequence in order, followed by one in order that has the roles it      *)
(* counts on, is in order.                                                  *)
LEMMA PieceConcat ==
    ASSUME NEW c, NEW r, NEW a, NEW b, NEW B, NEW Ra, NEW Rb,
           Piece(c, r, a, B \cup Rb, Ra), Piece(c, r, b, B, Rb)
    PROVE  Piece(c, r, a \o b, B, Ra \cup Rb)
<1> DEFINE ab == a \o b
<1>0. /\ a \in Seq(FileSteps) /\ b \in Seq(FileSteps)
      /\ Ordered(c, r, a, B \cup Rb) /\ Ordered(c, r, b, B)
      /\ Roles(c, r, a) = Ra /\ Roles(c, r, b) = Rb
  BY DEF Piece
<1>1. /\ Len(a) \in Nat /\ Len(b) \in Nat /\ DOMAIN a = 1..Len(a) /\ DOMAIN b = 1..Len(b)
      /\ ab \in Seq(FileSteps) /\ Len(ab) = Len(a) + Len(b)
      /\ DOMAIN ab = 1..(Len(a) + Len(b))
      /\ \A i \in 1..Len(a) : ab[i] = a[i]
      /\ \A i \in 1..Len(b) : ab[Len(a) + i] = b[i]
  BY <1>0
<1> HIDE DEF ab
<1>2. Roles(c, r, ab) = Ra \cup Rb
  BY <1>0, RolesConcat DEF ab
<1>3. ASSUME NEW i \in DOMAIN a
      PROVE  Fits(c, r, ab[i], B \cup RolesAt(c, r, ab, (i + 1)..Len(ab)))
  <2>1. RolesAt(c, r, ab, (i + 1)..Len(ab)) = RolesAt(c, r, a, (i + 1)..Len(a)) \cup Rb
    <3>0. i \in Nat /\ 1 <= i /\ i <= Len(a)
      BY <1>1
    <3>1. \A j \in (i + 1)..Len(a) : j \in (i + 1)..Len(ab) /\ ab[j] = a[j]
      BY <1>1, <3>0
    <3>2. \A k \in DOMAIN b : Len(a) + k \in (i + 1)..Len(ab) /\ ab[Len(a) + k] = b[k]
      BY <1>1, <3>0
    <3>3. \A j \in (i + 1)..Len(ab) : j \in (i + 1)..Len(a) \/ (\E k \in DOMAIN b : j = Len(a) + k)
      <4> SUFFICES ASSUME NEW j \in (i + 1)..Len(ab), j \notin (i + 1)..Len(a)
                   PROVE  \E k \in DOMAIN b : j = Len(a) + k
        OBVIOUS
      <4>1. j - Len(a) \in DOMAIN b /\ j = Len(a) + (j - Len(a))
        BY <1>1, <3>0
      <4> QED
        BY <4>1
    <3>4. {Role(c, r, ab[j]) : j \in (i + 1)..Len(ab)}
            = {Role(c, r, a[j]) : j \in (i + 1)..Len(a)} \cup {Role(c, r, b[k]) : k \in DOMAIN b}
      BY <3>1, <3>2, <3>3
    <3>5. Rb = {Role(c, r, b[k]) : k \in DOMAIN b} \ {"none"}
      BY <1>0 DEF Roles, RolesAt
    <3> QED
      BY <3>4, <3>5 DEF RolesAt
  <2>2. Fits(c, r, a[i], (B \cup Rb) \cup RolesAt(c, r, a, (i + 1)..Len(a)))
    BY <1>0 DEF Ordered
  <2>3. (B \cup Rb) \cup RolesAt(c, r, a, (i + 1)..Len(a))
          = B \cup RolesAt(c, r, ab, (i + 1)..Len(ab))
    BY <2>1
  <2>4. ab[i] = a[i]
    BY <1>1
  <2> QED
    BY <2>2, <2>3, <2>4, Zenon
<1>4. ASSUME NEW k \in DOMAIN b
      PROVE  Fits(c, r, ab[Len(a) + k], B \cup RolesAt(c, r, ab, (Len(a) + k + 1)..Len(ab)))
  <2>1. RolesAt(c, r, ab, (Len(a) + k + 1)..Len(ab)) = RolesAt(c, r, b, (k + 1)..Len(b))
    <3>0. k \in Nat /\ 1 <= k /\ k <= Len(b)
      BY <1>1
    <3>1. \A j \in (k + 1)..Len(b) : Len(a) + j \in (Len(a) + k + 1)..Len(ab) /\ ab[Len(a) + j] = b[j]
      BY <1>1, <3>0
    <3>2. \A i \in (Len(a) + k + 1)..Len(ab) : \E j \in (k + 1)..Len(b) : i = Len(a) + j
      <4> SUFFICES ASSUME NEW i \in (Len(a) + k + 1)..Len(ab)
                   PROVE  \E j \in (k + 1)..Len(b) : i = Len(a) + j
        OBVIOUS
      <4>1. i - Len(a) \in (k + 1)..Len(b) /\ i = Len(a) + (i - Len(a))
        BY <1>1, <3>0
      <4> QED
        BY <4>1
    <3>3. {Role(c, r, ab[i]) : i \in (Len(a) + k + 1)..Len(ab)} = {Role(c, r, b[j]) : j \in (k + 1)..Len(b)}
      BY <3>1, <3>2
    <3> QED
      BY <3>3 DEF RolesAt
  <2>2. Fits(c, r, b[k], B \cup RolesAt(c, r, b, (k + 1)..Len(b)))
    BY <1>0 DEF Ordered
  <2>3. ab[Len(a) + k] = b[k]
    BY <1>1
  <2> QED
    BY <2>1, <2>2, <2>3, Zenon
<1>5. Ordered(c, r, ab, B)
  <2> SUFFICES ASSUME NEW i \in DOMAIN ab
               PROVE  Fits(c, r, ab[i], B \cup RolesAt(c, r, ab, (i + 1)..Len(ab)))
    BY DEF Ordered
  <2>1. CASE i \in DOMAIN a
    BY <1>3, <2>1
  <2>2. CASE i \notin DOMAIN a
    <3>1. i - Len(a) \in DOMAIN b /\ i = Len(a) + (i - Len(a))
      BY <1>1, <2>2
    <3> DEFINE k == i - Len(a)
    <3>2. k \in DOMAIN b /\ i = Len(a) + k
      BY <3>1
    <3> HIDE DEF k
    <3>3. Fits(c, r, ab[Len(a) + k], B \cup RolesAt(c, r, ab, (Len(a) + k + 1)..Len(ab)))
      BY <1>4, <3>2
    <3> QED
      BY <3>2, <3>3, Zenon
  <2> QED
    BY <2>1, <2>2
<1> QED
  BY <1>1, <1>2, <1>5 DEF Piece, ab

(* One step.                                                                *)
LEMMA PieceOne ==
    ASSUME NEW c, NEW r, NEW x \in FileSteps, NEW B, Fits(c, r, x, B)
    PROVE  Piece(c, r, <<x>>, B, {Role(c, r, x)} \ {"none"})
<1> DEFINE s == <<x>>
<1>1. s \in Seq(FileSteps) /\ Len(s) = 1 /\ DOMAIN s = {1} /\ s[1] = x
  OBVIOUS
<1> HIDE DEF s
<1>2. Roles(c, r, s) = {Role(c, r, x)} \ {"none"}
  BY <1>1 DEF Roles, RolesAt
<1>3. B \cup RolesAt(c, r, s, (1 + 1)..Len(s)) = B
  BY <1>1 DEF RolesAt
<1>4. Ordered(c, r, s, B)
  <2> SUFFICES ASSUME NEW i \in DOMAIN s
               PROVE  Fits(c, r, s[i], B \cup RolesAt(c, r, s, (i + 1)..Len(s)))
    BY DEF Ordered
  <2>1. i = 1
    BY <1>1
  <2> QED
    BY <1>1, <1>3, <2>1, Zenon
<1> QED
  BY <1>1, <1>2, <1>4 DEF Piece, s

(* No step.                                                                 *)
LEMMA PieceNone == \A c, r, B : Piece(c, r, << >>, B, {})
<1> SUFFICES ASSUME NEW c, NEW r, NEW B
             PROVE  Piece(c, r, << >>, B, {})
  OBVIOUS
<1> QED
  BY DEF Piece, Ordered, Roles, RolesAt

(* The first step of a sequence in order fits what is behind it, and that   *)
(* is in order.                                                             *)
LEMMA PieceTail ==
    ASSUME NEW c, NEW r, NEW s \in Seq(FileSteps), s # << >>, Ordered(c, r, s, {})
    PROVE  /\ Head(s) \in FileSteps /\ Tail(s) \in Seq(FileSteps)
           /\ Fits(c, r, Head(s), Roles(c, r, Tail(s)))
           /\ Ordered(c, r, Tail(s), {})
           /\ Roles(c, r, s) = ({Role(c, r, Head(s))} \cup Roles(c, r, Tail(s))) \ {"none"}
<1> DEFINE t == Tail(s)
<1>1. /\ Len(s) \in Nat /\ Len(s) >= 1 /\ DOMAIN s = 1..Len(s) /\ Head(s) = s[1]
      /\ Head(s) \in FileSteps
      /\ t \in Seq(FileSteps) /\ Len(t) = Len(s) - 1 /\ DOMAIN t = 1..(Len(s) - 1)
      /\ \A i \in 1..(Len(s) - 1) : t[i] = s[i + 1]
  OBVIOUS
<1> HIDE DEF t
<1>2. \A n \in Nat : RolesAt(c, r, t, (n + 1)..Len(t)) = RolesAt(c, r, s, (n + 1 + 1)..Len(s))
  <2> SUFFICES ASSUME NEW n \in Nat
               PROVE  RolesAt(c, r, t, (n + 1)..Len(t)) = RolesAt(c, r, s, (n + 1 + 1)..Len(s))
    OBVIOUS
  <2>1. \A j \in (n + 1)..Len(t) : j + 1 \in (n + 1 + 1)..Len(s) /\ t[j] = s[j + 1]
    BY <1>1
  <2>2. \A i \in (n + 1 + 1)..Len(s) : \E j \in (n + 1)..Len(t) : i = j + 1
    <3> SUFFICES ASSUME NEW i \in (n + 1 + 1)..Len(s)
                 PROVE  \E j \in (n + 1)..Len(t) : i = j + 1
      OBVIOUS
    <3>1. i - 1 \in (n + 1)..Len(t) /\ i = (i - 1) + 1
      BY <1>1
    <3> QED
      BY <3>1
  <2>3. {Role(c, r, t[j]) : j \in (n + 1)..Len(t)} = {Role(c, r, s[i]) : i \in (n + 1 + 1)..Len(s)}
    BY <2>1, <2>2
  <2> QED
    BY <2>3 DEF RolesAt
<1>3. DOMAIN t = (0 + 1)..Len(t)
  BY <1>1
<1>4. Roles(c, r, t) = RolesAt(c, r, s, (0 + 1 + 1)..Len(s))
  BY <1>2, <1>3 DEF Roles
<1>5. Fits(c, r, Head(s), Roles(c, r, t))
  <2>1. Fits(c, r, s[1], {} \cup RolesAt(c, r, s, (1 + 1)..Len(s)))
    BY <1>1 DEF Ordered
  <2>2. {} \cup RolesAt(c, r, s, (1 + 1)..Len(s)) = Roles(c, r, t)
    BY <1>4
  <2> QED
    BY <1>1, <2>1, <2>2, Zenon
<1>6. Ordered(c, r, t, {})
  <2> SUFFICES ASSUME NEW i \in DOMAIN t
               PROVE  Fits(c, r, t[i], {} \cup RolesAt(c, r, t, (i + 1)..Len(t)))
    BY DEF Ordered
  <2>1. i \in Nat /\ i + 1 \in DOMAIN s /\ t[i] = s[i + 1]
    BY <1>1
  <2>2. Fits(c, r, s[i + 1], {} \cup RolesAt(c, r, s, (i + 1 + 1)..Len(s)))
    BY <2>1 DEF Ordered
  <2>3. RolesAt(c, r, t, (i + 1)..Len(t)) = RolesAt(c, r, s, (i + 1 + 1)..Len(s))
    BY <1>2, <2>1
  <2> QED
    BY <2>1, <2>2, <2>3, Zenon
<1>7. Roles(c, r, s) = ({Role(c, r, Head(s))} \cup Roles(c, r, t)) \ {"none"}
  <2>1. DOMAIN s = {1} \cup ((0 + 1 + 1)..Len(s))
    BY <1>1
  <2>2. {Role(c, r, s[i]) : i \in DOMAIN s}
          = {Role(c, r, s[1])} \cup {Role(c, r, s[i]) : i \in (0 + 1 + 1)..Len(s)}
    BY <2>1
  <2> QED
    BY <1>1, <1>4, <2>2 DEF Roles, RolesAt
<1> QED
  BY <1>1, <1>5, <1>6, <1>7 DEF t

(* The places of a call that is no append.                                  *)
LEMMA PlacesApart ==
    ASSUME NEW c \in FileCalls, NEW r \in Asks, r.kind # "append"
    PROVE  /\ {r.from, r.to, Temp(c), LandsAt(c, r)} \subseteq Places
           /\ r.from # Temp(c) /\ LandsAt(c, r) # Temp(c) /\ r.from # LandsAt(c, r)
<1>1. /\ r.from \in Stores \X {FileName} /\ r.to \in Stores \X FileNames
      /\ r.kind \in {"copy", "move", "job", "job, delete"}
      /\ r.kind \in {"copy", "move"} => (r.to[2] = NewName <=> r.from[1] = r.to[1])
      /\ IsJob(r) => r.from[1] = "local" /\ r.to[1] # "local"
      /\ r.from[1] # r.to[1] => r.toFs
      /\ r.toFs \in BOOLEAN
  BY DEF Asks
<1>2. PICK f \in Stores : r.from = <<f, FileName>>
  <2>1. r.from \in Stores \X {FileName}
    BY <1>1
  <2>2. \A p \in Stores \X {FileName} : \E f \in Stores : p = <<f, FileName>>
    OBVIOUS
  <2> QED
    BY <2>1, <2>2, Zenon
<1>3. PICK t \in Stores, n \in FileNames : r.to = <<t, n>>
  <2>1. r.to \in Stores \X FileNames
    BY <1>1
  <2>2. \A p \in Stores \X FileNames : \E t \in Stores, n \in FileNames : p = <<t, n>>
    OBVIOUS
  <2> QED
    BY <2>1, <2>2, Zenon
<1>4. c # FileName /\ c # NewName /\ FileName # NewName
  BY FileAssumption
<1>5. LandsAt(c, r) \in {r.to, <<"ftp", FileName>>, <<"ftp", c>>}
  BY <1>1, <1>2, <1>3 DEF LandsAt, Landing, Temp
<1>6. LandsAt(c, r) # r.from
  <2>1. CASE t = f
    <3>1. r.kind \in {"copy", "move"} /\ r.to = <<f, NewName>>
      <4>1. r.from[1] = f /\ r.to[1] = t /\ r.to[2] = n
        BY <1>2, <1>3
      <4>2. r.kind \in {"copy", "move"}
        BY <1>1, <2>1, <4>1 DEF IsJob
      <4>3. n = NewName
        BY <1>1, <2>1, <4>1, <4>2
      <4> QED
        BY <1>3, <2>1, <4>2, <4>3
    <3>2. CASE ~r.toFs
      BY <3>1, <3>2, <1>2, <1>4 DEF LandsAt
    <3>3. CASE r.toFs /\ f = "local"
      BY <3>1, <3>3, <1>2, <1>4 DEF LandsAt, Landing
    <3>4. CASE r.toFs /\ f # "local"
      BY <3>1, <3>4, <1>2, <1>4 DEF LandsAt, Landing, Temp
    <3> QED
      BY <3>2, <3>3, <3>4, <1>1
  <2>2. CASE t # f
    <3>1. r.toFs
      <4>1. r.from[1] = f /\ r.to[1] = t
        BY <1>2, <1>3
      <4> QED
        BY <1>1, <2>2, <4>1
    <3>2. LandsAt(c, r)[1] = t
      <4>1. r.to[1] = t
        BY <1>3
      <4>2. \A p : Landing(p, r.to) = r.to \/ (Landing(p, r.to) = <<"ftp", p[2]>> /\ t = "ftp")
        BY <4>1 DEF Landing
      <4>3. \A p : Landing(p, r.to)[1] = t
        BY <4>1, <4>2
      <4>4. LandsAt(c, r) = Landing(r.from, r.to) \/ LandsAt(c, r) = Landing(Temp(c), r.to)
        BY <3>1 DEF LandsAt
      <4> QED
        BY <4>3, <4>4
    <3> QED
      BY <3>2, <1>2, <2>2
  <2> QED
    BY <2>1, <2>2
<1>7. {r.from, r.to, Temp(c), LandsAt(c, r)} \subseteq Places
  BY <1>2, <1>3, <1>5 DEF Places, Temp, Stores, FileNames
<1>8. r.from # Temp(c) /\ LandsAt(c, r) # Temp(c)
  BY <1>2, <1>3, <1>5 DEF Temp, Stores
<1> QED
  BY <1>6, <1>7, <1>8

(* The steps such a call is made from, each with what has to follow it.     *)
LEMMA StepsFit ==
    ASSUME NEW c \in FileCalls, NEW r \in Asks, r.kind # "append", NEW B
    PROVE  LET F == r.from
               T == Temp(c)
               L == LandsAt(c, r)
           IN /\ "fetch" \in B => Piece(c, r, Do("open", T, T), B, {})
              /\ "carry" \in B => Piece(c, r, Do("open", F, L), B, {})
              /\ "deliver" \in B => Piece(c, r, Do("open", T, L), B, {})
              /\ Piece(c, r, Do("enter", F, F), B, {})
              /\ Piece(c, r, Do("enter", r.to, r.to), B, {})
              /\ Piece(c, r, Do("progress", F, F), B, {})
              /\ Piece(c, r, Do("fill", F, T), B, {"fetch"})
              /\ Piece(c, r, Do("fill", F, L), B, {"carry"})
              /\ Piece(c, r, Do("put", F, L), B, {"carry"})
              /\ "fetch" \notin B => Piece(c, r, Do("fill", T, L), B, {"deliver"})
              /\ "fetch" \notin B => Piece(c, r, Do("put", T, L), B, {"deliver"})
              /\ r.kind = "move" /\ "deliver" \notin B => Piece(c, r, Do("rename", F, L), B, {"carry"})
              /\ Piece(c, r, Do("remove", T, T), B, {})
              /\ r.kind \in {"move", "job, delete"} /\ "carry" \notin B /\ "deliver" \notin B =>
                    Piece(c, r, Do("remove", F, F), B, {})
<1> DEFINE F == r.from
           T == Temp(c)
           L == LandsAt(c, r)
           step(d, x, y) == [do |-> d, from |-> x, to |-> y]
<1>1. /\ {F, r.to, T, L} \subseteq Places
      /\ F # T /\ L # T /\ F # L
      /\ {F, r.to, L} = Touches(c, r)
  BY PlacesApart DEF Touches
<1>2. \A d \in Deeds, x, y \in {F, r.to, T, L} : step(d, x, y) \in FileSteps
  BY <1>1 DEF FileSteps
<1>3. \A d, x, y : step(d, x, y).do = d /\ step(d, x, y).from = x /\ step(d, x, y).to = y
  OBVIOUS
<1>4. ASSUME NEW d \in Deeds, NEW x \in {F, r.to, T, L}, NEW y \in {F, r.to, T, L},
             Fits(c, r, step(d, x, y), B)
      PROVE  Piece(c, r, Do(d, x, y), B, {Role(c, r, step(d, x, y))} \ {"none"})
  BY <1>2, <1>4, PieceOne DEF Do
<1>5. /\ Role(c, r, step("fill", F, T)) = "fetch"
      /\ Role(c, r, step("fill", F, L)) = "carry" /\ Role(c, r, step("put", F, L)) = "carry"
      /\ Role(c, r, step("rename", F, L)) = "carry"
      /\ Role(c, r, step("fill", T, L)) = "deliver" /\ Role(c, r, step("put", T, L)) = "deliver"
      /\ \A d \in {"open", "enter", "progress", "remove"} :
            \A x, y : Role(c, r, step(d, x, y)) = "none"
  BY <1>1 DEF Role
<1> HIDE DEF F, T, L, step
<1>6. ASSUME NEW x \in {F, r.to, T, L}, NEW y \in {F, r.to, T, L}
      PROVE  {x, y} \subseteq Touches(c, r) \cup {Temp(c)}
  BY <1>1 DEF T
<1>7. ASSUME NEW d \in {"enter", "progress"}, NEW x \in {F, r.to}
      PROVE  Fits(c, r, step(d, x, x), B)
  <2> DEFINE z == step(d, x, x)
  <2>1. z.do = d /\ z.from = x /\ z.to = x /\ d \in {"enter", "progress"}
    BY <1>3, <1>7
  <2>2. Role(c, r, z) = "none" /\ {x, x} \subseteq Touches(c, r) \cup {Temp(c)}
    BY <1>5, <1>6
  <2> HIDE DEF z
  <2>3. Fits(c, r, z, B)
    BY <2>1, <2>2 DEF Fits
  <2> QED
    BY <2>3 DEF z
<1>8. /\ "fetch" \in B => Fits(c, r, step("open", T, T), B)
      /\ "carry" \in B => Fits(c, r, step("open", F, L), B)
      /\ "deliver" \in B => Fits(c, r, step("open", T, L), B)
  <2>1. ASSUME NEW x \in {F, T}, NEW y \in {T, L},
               \/ x = T /\ y = T /\ "fetch" \in B
               \/ x = F /\ y = L /\ "carry" \in B
               \/ x = T /\ y = L /\ "deliver" \in B
        PROVE  Fits(c, r, step("open", x, y), B)
    <3> DEFINE z == step("open", x, y)
    <3>1. z.do = "open" /\ z.from = x /\ z.to = y
      BY <1>3
    <3>2. Role(c, r, z) = "none" /\ {x, y} \subseteq Touches(c, r) \cup {Temp(c)}
      BY <1>5, <1>6
    <3> HIDE DEF z
    <3>3. Fits(c, r, z, B)
      BY <2>1, <3>1, <3>2 DEF Fits, F, T, L
    <3> QED
      BY <3>3 DEF z
  <2> QED
    BY <2>1
<1>9. ASSUME NEW d \in {"fill", "put"}, NEW x \in {F, T}, NEW y \in {T, L},
             Role(c, r, step(d, x, y)) # "none",
             Role(c, r, step(d, x, y)) = "deliver" => "fetch" \notin B
      PROVE  Fits(c, r, step(d, x, y), B)
  <2> DEFINE z == step(d, x, y)
  <2>1. z.do = d /\ z.from = x /\ z.to = y /\ d \in {"fill", "put"}
    BY <1>3, <1>9
  <2>2. {x, y} \subseteq Touches(c, r) \cup {Temp(c)}
    BY <1>6
  <2>3. Role(c, r, z) # "none" /\ (Role(c, r, z) = "deliver" => "fetch" \notin B)
    BY <1>9
  <2> HIDE DEF z
  <2>4. Fits(c, r, z, B)
    BY <2>1, <2>2, <2>3 DEF Fits
  <2> QED
    BY <2>4 DEF z
<1>10. r.kind = "move" /\ "deliver" \notin B => Fits(c, r, step("rename", F, L), B)
  BY <1>1, <1>3, <1>5, <1>6 DEF Fits
<1>11. /\ Fits(c, r, step("remove", T, T), B)
       /\ r.kind \in {"move", "job, delete"} /\ "carry" \notin B /\ "deliver" \notin B =>
             Fits(c, r, step("remove", F, F), B)
  <2>1. ASSUME NEW x \in {F, T},
               x = F => r.kind \in {"move", "job, delete"} /\ "carry" \notin B /\ "deliver" \notin B
        PROVE  Fits(c, r, step("remove", x, x), B)
    <3> DEFINE z == step("remove", x, x)
    <3>1. z.do = "remove" /\ z.from = x /\ z.to = x
      BY <1>3
    <3>2. Role(c, r, z) = "none" /\ {x, x} \subseteq Touches(c, r) \cup {Temp(c)}
      BY <1>5, <1>6
    <3> HIDE DEF z
    <3>3. Fits(c, r, z, B)
      BY <2>1, <3>1, <3>2 DEF Fits, F, T
    <3> QED
      BY <3>3 DEF z
  <2> QED
    BY <1>1, <2>1
<1>12. {"open", "enter", "progress", "remove", "fill", "put", "rename"} \subseteq Deeds
  BY DEF Deeds
<1>13. {"none"} \ {"none"} = {} /\ {"fetch"} \ {"none"} = {"fetch"}
       /\ {"carry"} \ {"none"} = {"carry"} /\ {"deliver"} \ {"none"} = {"deliver"}
  OBVIOUS
<1>14. /\ "fetch" \in B => Piece(c, r, Do("open", T, T), B, {})
       /\ "carry" \in B => Piece(c, r, Do("open", F, L), B, {})
       /\ "deliver" \in B => Piece(c, r, Do("open", T, L), B, {})
  <2>1. ASSUME NEW x \in {F, T}, NEW y \in {T, L}, Fits(c, r, step("open", x, y), B)
        PROVE  Piece(c, r, Do("open", x, y), B, {})
    <3>1. Role(c, r, step("open", x, y)) = "none"
      BY <1>5
    <3>2. Piece(c, r, Do("open", x, y), B, {Role(c, r, step("open", x, y))} \ {"none"})
      BY <1>4, <1>12, <2>1
    <3> QED
      BY <1>13, <3>1, <3>2
  <2> QED
    BY <1>8, <2>1
<1>15. /\ Piece(c, r, Do("enter", F, F), B, {}) /\ Piece(c, r, Do("enter", r.to, r.to), B, {})
       /\ Piece(c, r, Do("progress", F, F), B, {})
  <2>1. ASSUME NEW d \in {"enter", "progress"}, NEW x \in {F, r.to}
        PROVE  Piece(c, r, Do(d, x, x), B, {})
    <3>1. Role(c, r, step(d, x, x)) = "none"
      BY <1>5
    <3>2. Piece(c, r, Do(d, x, x), B, {Role(c, r, step(d, x, x))} \ {"none"})
      BY <1>4, <1>7, <1>12
    <3> QED
      BY <1>13, <3>1, <3>2
  <2> QED
    BY <2>1
<1>16. ASSUME NEW d \in {"fill", "put"}, NEW x \in {F, T}, NEW y \in {T, L},
              NEW R \in {"fetch", "carry", "deliver"}, Role(c, r, step(d, x, y)) = R,
              R = "deliver" => "fetch" \notin B
       PROVE  Piece(c, r, Do(d, x, y), B, {R})
  <2>1. Fits(c, r, step(d, x, y), B)
    BY <1>9, <1>16
  <2>2. Piece(c, r, Do(d, x, y), B, {R} \ {"none"})
    BY <1>4, <1>12, <1>16, <2>1
  <2> QED
    BY <1>13, <2>2
<1>17. /\ Piece(c, r, Do("fill", F, T), B, {"fetch"})
       /\ Piece(c, r, Do("fill", F, L), B, {"carry"}) /\ Piece(c, r, Do("put", F, L), B, {"carry"})
       /\ "fetch" \notin B =>
            /\ Piece(c, r, Do("fill", T, L), B, {"deliver"})
            /\ Piece(c, r, Do("put", T, L), B, {"deliver"})
  BY <1>5, <1>16
<1>18. r.kind = "move" /\ "deliver" \notin B => Piece(c, r, Do("rename", F, L), B, {"carry"})
  BY <1>4, <1>5, <1>10, <1>12, <1>13
<1>19. /\ Piece(c, r, Do("remove", T, T), B, {})
       /\ r.kind \in {"move", "job, delete"} /\ "carry" \notin B /\ "deliver" \notin B =>
             Piece(c, r, Do("remove", F, F), B, {})
  <2>1. ASSUME NEW x \in {F, T}, Fits(c, r, step("remove", x, x), B)
        PROVE  Piece(c, r, Do("remove", x, x), B, {})
    <3>1. Role(c, r, step("remove", x, x)) = "none"
      BY <1>5
    <3>2. Piece(c, r, Do("remove", x, x), B, {Role(c, r, step("remove", x, x))} \ {"none"})
      BY <1>4, <1>12, <2>1
    <3> QED
      BY <1>13, <3>1, <3>2
  <2> QED
    BY <1>11, <2>1
<1> QED
  BY <1>14, <1>15, <1>16, <1>17, <1>18, <1>19 DEF F, T, L

(* Steps one after the other, with the roles named.                         *)
LEMMA PieceThen ==
    ASSUME NEW c, NEW r, NEW a, NEW b, NEW B, NEW Ra, NEW Rb, NEW R,
           Piece(c, r, a, B \cup Rb, Ra), Piece(c, r, b, B, Rb), R = Ra \cup Rb
    PROVE  Piece(c, r, a \o b, B, R)
  BY PieceConcat

(* A file is opened and then filled.                                        *)
LEMMA UploadLocalFits ==
    ASSUME NEW c \in FileCalls, NEW r \in Asks, r.kind # "append", NEW B
    PROVE  /\ Piece(c, r, UploadLocal(r.from, LandsAt(c, r)), B, {"carry"})
           /\ "fetch" \notin B => Piece(c, r, UploadLocal(Temp(c), LandsAt(c, r)), B, {"deliver"})
<1>1. /\ Piece(c, r, Do("open", r.from, LandsAt(c, r)), B \cup {"carry"}, {})
      /\ Piece(c, r, Do("fill", r.from, LandsAt(c, r)), B, {"carry"})
  <2>1. "carry" \in B \cup {"carry"}
    OBVIOUS
  <2> QED
    BY <2>1, StepsFit
<1>2. "fetch" \notin B =>
         /\ Piece(c, r, Do("open", Temp(c), LandsAt(c, r)), B \cup {"deliver"}, {})
         /\ Piece(c, r, Do("fill", Temp(c), LandsAt(c, r)), B, {"deliver"})
  <2>1. "deliver" \in B \cup {"deliver"}
    OBVIOUS
  <2> QED
    BY <2>1, StepsFit
<1>3. {} \cup {"carry"} = {"carry"} /\ {} \cup {"deliver"} = {"deliver"}
  OBVIOUS
<1> QED
  BY <1>1, <1>2, <1>3, PieceThen DEF UploadLocal

(* An upload to another file system carries the source or delivers the      *)
(* temporary file.                                                          *)
LEMMA UploadFits ==
    ASSUME NEW c \in FileCalls, NEW r \in Asks, r.kind # "append", r.toFs, NEW B
    PROVE  /\ r.from[1] = "local" => Piece(c, r, Upload(r.from, r.to), B, {"carry"})
           /\ r.from[1] # "local" /\ "fetch" \notin B =>
                 Piece(c, r, Upload(Temp(c), r.to), B, {"deliver"})
<1> DEFINE source == IF r.from[1] = "local" THEN r.from ELSE Temp(c)
           role == IF r.from[1] = "local" THEN "carry" ELSE "deliver"
<1> SUFFICES ASSUME r.from[1] = "local" \/ "fetch" \notin B
             PROVE  Piece(c, r, Upload(source, r.to), B, {role})
  OBVIOUS
<1>1. LandsAt(c, r) = Landing(source, r.to)
  BY DEF LandsAt
<1>2. /\ Piece(c, r, UploadLocal(source, LandsAt(c, r)), B, {role})
      /\ Piece(c, r, Do("put", source, LandsAt(c, r)), B, {role})
  BY UploadLocalFits, StepsFit
<1>3. Piece(c, r, Do("enter", r.to, r.to), B \cup {role}, {})
  BY StepsFit
<1> HIDE DEF source, role
<1>4. r.to[1] \in {"local", "s3", "ftp"}
  BY DEF Asks, Stores
<1>5. CASE r.to[1] = "local"
  BY <1>1, <1>2, <1>5 DEF Upload, Landing
<1>6. CASE r.to[1] = "s3"
  BY <1>1, <1>2, <1>6 DEF Upload, UploadS3, Landing
<1>7. CASE r.to[1] = "ftp"
  <2>1. Upload(source, r.to) = Do("enter", r.to, r.to) \o UploadLocal(source, LandsAt(c, r))
    BY <1>1, <1>7 DEF Upload, UploadFtp
  <2> DEFINE upload == UploadLocal(source, LandsAt(c, r))
             enter == Do("enter", r.to, r.to)
  <2>2. /\ {role} = {} \cup {role}
        /\ Piece(c, r, enter, B \cup {role}, {}) /\ Piece(c, r, upload, B, {role})
    BY <1>2, <1>3
  <2> HIDE DEF upload, enter
  <2>3. Piece(c, r, enter \o upload, B, {role})
    BY <2>2, PieceThen
  <2> QED
    BY <2>1, <2>3 DEF upload, enter
<1> QED
  BY <1>4, <1>5, <1>6, <1>7

(* A download fetches the source.                                           *)
LEMMA DownloadFits ==
    ASSUME NEW c \in FileCalls, NEW r \in Asks, r.kind # "append", NEW B
    PROVE  Piece(c, r, Download(c, r.from), B, {"fetch"})
<1> DEFINE enter == IF r.from[1] = "ftp" THEN Do("enter", r.from, r.from) ELSE << >>
           open == Do("open", Temp(c), Temp(c))
           fill == Do("fill", r.from, Temp(c))
<1>1. Piece(c, r, fill, B, {"fetch"})
  BY StepsFit
<1>2. Piece(c, r, enter, B \cup {"fetch"}, {})
  <2>1. Piece(c, r, Do("enter", r.from, r.from), B \cup {"fetch"}, {})
    BY StepsFit
  <2> QED
    BY <2>1, PieceNone
<1>3. Piece(c, r, open, (B \cup {"fetch"}) \cup {}, {})
  <2>1. "fetch" \in (B \cup {"fetch"}) \cup {}
    OBVIOUS
  <2> QED
    BY <2>1, StepsFit
<1> HIDE DEF enter, open, fill
<1>4. Piece(c, r, open \o enter, B \cup {"fetch"}, {})
  <2>1. {} = {} \cup {}
    OBVIOUS
  <2> QED
    BY <1>2, <1>3, <2>1, PieceThen
<1>5. {"fetch"} = {} \cup {"fetch"}
  OBVIOUS
<1>6. Piece(c, r, (open \o enter) \o fill, B, {"fetch"})
  BY <1>1, <1>4, <1>5, PieceThen
<1> QED
  BY <1>6 DEF Download, open, enter, fill

(* What a call does about its content: it carries it, or it fetches it and  *)
(* then delivers it.                                                        *)
Ways == {{"carry"}, {"fetch", "deliver"}}

(* Fetched and delivered.                                                   *)
LEMMA FetchedAndDelivered ==
    ASSUME NEW c \in FileCalls, NEW r \in Asks, r.kind # "append", NEW B, "fetch" \notin B,
           NEW s, Piece(c, r, s, B, {"deliver"})
    PROVE  Piece(c, r, Download(c, r.from) \o s, B, {"fetch", "deliver"})
<1>1. {"fetch", "deliver"} = {"fetch"} \cup {"deliver"}
  OBVIOUS
<1>2. Piece(c, r, Download(c, r.from), B \cup {"deliver"}, {"fetch"})
  BY DownloadFits
<1> QED
  BY <1>1, <1>2, PieceThen

(* A copy does it one way or the other, from the local disk always the one. *)
LEMMA CopyFits ==
    ASSUME NEW c \in FileCalls, NEW r \in Asks, r.kind # "append", NEW B, "fetch" \notin B
    PROVE  \E R \in Ways : /\ Piece(c, r, Copy(c, r), B, R)
                           /\ r.from[1] = "local" => R = {"carry"}
<1>0. r.from[1] \in {"local", "s3", "ftp"} /\ r.toFs \in BOOLEAN
  BY DEF Asks, Stores
<1>1. ~r.toFs => LandsAt(c, r) = r.to
  BY DEF LandsAt
<1>2. CASE r.from[1] = "local"
  <2>1. Piece(c, r, Copy(c, r), B, {"carry"})
    <3>1. CASE r.toFs
      BY <1>2, <3>1, UploadFits DEF Copy, LocalCopy
    <3>2. CASE ~r.toFs
      BY <1>1, <1>2, <3>2, UploadLocalFits DEF Copy, LocalCopy
    <3> QED
      BY <3>1, <3>2
  <2> QED
    BY <2>1 DEF Ways
<1>3. CASE r.from[1] = "s3" /\ r.toFs
  <2>1. Piece(c, r, Upload(Temp(c), r.to), B, {"deliver"})
    BY <1>3, UploadFits
  <2>2. Piece(c, r, Download(c, r.from) \o Upload(Temp(c), r.to), B, {"fetch", "deliver"})
    BY <2>1, FetchedAndDelivered
  <2>3. Copy(c, r) = Download(c, r.from) \o Upload(Temp(c), r.to)
    BY <1>3 DEF Copy, S3Copy
  <2> QED
    BY <1>3, <2>2, <2>3 DEF Ways
<1>4. CASE r.from[1] = "s3" /\ ~r.toFs
  <2>1. Piece(c, r, Do("put", r.from, r.to), B, {"carry"})
    BY <1>1, <1>4, StepsFit
  <2>2. Copy(c, r) = Do("put", r.from, r.to)
    BY <1>4 DEF Copy, S3Copy
  <2> QED
    BY <1>4, <2>1, <2>2 DEF Ways
<1>5. CASE r.from[1] = "ftp"
  <2> DEFINE put == IF r.toFs THEN Upload(Temp(c), r.to) ELSE UploadLocal(Temp(c), r.to)
  <2>1. Piece(c, r, put, B \cup {}, {"deliver"})
    <3>1. CASE r.toFs
      BY <1>5, <3>1, UploadFits
    <3>2. CASE ~r.toFs
      BY <1>1, <1>5, <3>2, UploadLocalFits
    <3> QED
      BY <3>1, <3>2
  <2>2. Piece(c, r, RmTemp(c), B, {})
    BY StepsFit DEF RmTemp
  <2>3. Copy(c, r) = (Download(c, r.from) \o put) \o RmTemp(c)
    BY <1>5 DEF Copy, FtpCopy
  <2> HIDE DEF put
  <2>4. Piece(c, r, Download(c, r.from) \o put, B \cup {}, {"fetch", "deliver"})
    BY <2>1, FetchedAndDelivered
  <2>5. {"fetch", "deliver"} = {"fetch", "deliver"} \cup {}
    OBVIOUS
  <2>6. Piece(c, r, Copy(c, r), B, {"fetch", "deliver"})
    BY <2>2, <2>3, <2>4, <2>5, PieceThen
  <2> QED
    BY <1>5, <2>6 DEF Ways
<1> QED
  BY <1>0, <1>2, <1>3, <1>4, <1>5

(* A move is one step, or removes the source once the content is delivered. *)
LEMMA MoveFits ==
    ASSUME NEW c \in FileCalls, NEW r \in Asks, r.kind = "move"
    PROVE  \E R \in Ways : Piece(c, r, Move(c, r), {}, R)
<1>0. r.from[1] \in {"local", "s3", "ftp"} /\ r.toFs \in BOOLEAN /\ r.kind # "append"
  BY DEF Asks, Stores
<1>1. ~r.toFs => LandsAt(c, r) = r.to
  BY DEF LandsAt
<1>2. /\ Piece(c, r, Do("rename", r.from, LandsAt(c, r)), {}, {"carry"})
      /\ Piece(c, r, Do("remove", r.from, r.from), {}, {})
      /\ Piece(c, r, RmTemp(c), {}, {})
  BY <1>0, StepsFit DEF RmTemp
<1>3. {"carry"} \in Ways /\ {"fetch", "deliver"} \in Ways
  BY DEF Ways
<1>4. ASSUME NEW R \in Ways, NEW s, Piece(c, r, s, {}, R)
      PROVE  Piece(c, r, s \o Do("remove", r.from, r.from), {}, R)
  <2>1. {} \cup {} = {} /\ R = R \cup {}
    OBVIOUS
  <2> QED
    BY <1>2, <1>4, <2>1, PieceThen
<1>5. CASE r.from[1] \in {"local", "ftp"} /\ ~r.toFs
  <2>1. Move(c, r) = Do("rename", r.from, r.to)
    BY <1>5 DEF Move, LocalMove, FtpMove
  <2> QED
    BY <1>1, <1>2, <1>3, <1>5, <2>1
<1>6. CASE r.from[1] = "local" /\ r.toFs
  <2>1. Move(c, r) = Upload(r.from, r.to) \o Do("remove", r.from, r.from)
    BY <1>6 DEF Move, LocalMove
  <2>2. Piece(c, r, Upload(r.from, r.to), {}, {"carry"})
    BY <1>0, <1>6, UploadFits
  <2> QED
    BY <1>3, <1>4, <2>1, <2>2
<1>7. CASE r.from[1] = "s3"
  <2>1. Move(c, r) = Copy(c, r) \o Do("remove", r.from, r.from)
    BY <1>7 DEF Move, S3Move, Copy
  <2>2. PICK R \in Ways : Piece(c, r, Copy(c, r), {}, R)
    <3>1. "fetch" \notin {}
      OBVIOUS
    <3> QED
      BY <1>0, <3>1, CopyFits
  <2> QED
    BY <1>4, <2>1, <2>2
<1>8. CASE r.from[1] = "ftp" /\ r.toFs
  <2> DEFINE moved == Download(c, r.from) \o Upload(Temp(c), r.to)
             removed == moved \o Do("remove", r.from, r.from)
  <2>1. Move(c, r) = removed \o RmTemp(c)
    BY <1>8 DEF Move, FtpMove
  <2>2. Piece(c, r, Upload(Temp(c), r.to), {}, {"deliver"})
    BY <1>0, <1>8, UploadFits
  <2>3. Piece(c, r, moved, {}, {"fetch", "deliver"})
    BY <1>0, <2>2, FetchedAndDelivered
  <2>4. Piece(c, r, removed, {}, {"fetch", "deliver"})
    BY <1>3, <1>4, <2>3
  <2> HIDE DEF removed
  <2>5. {} \cup {} = {} /\ {"fetch", "deliver"} = {"fetch", "deliver"} \cup {}
    OBVIOUS
  <2>6. Piece(c, r, removed \o RmTemp(c), {}, {"fetch", "deliver"})
    BY <1>2, <2>4, <2>5, PieceThen
  <2> QED
    BY <1>3, <2>1, <2>6
<1> QED
  BY <1>0, <1>5, <1>6, <1>7, <1>8

(* A job carries the file, and removes it only then.                        *)
LEMMA JobFits ==
    ASSUME NEW c \in FileCalls, NEW r \in Asks, IsJob(r)
    PROVE  Piece(c, r, Job(c, r), {}, {"carry"})
<1> DEFINE rm == IF r.kind = "job, delete" THEN Rm(r.from) ELSE << >>
<1>0. r.from[1] = "local" /\ r.kind # "append"
  BY DEF Asks, IsJob
<1>1. Piece(c, r, Progress(r), {}, {}) /\ Piece(c, r, Progress(r), {"carry"}, {})
  BY <1>0, StepsFit DEF Progress
<1>2. Piece(c, r, rm, {}, {})
  <2>1. CASE r.kind = "job, delete"
    <3>1. Rm(r.from) = Do("remove", r.from, r.from)
      BY <1>0 DEF Rm
    <3>2. "carry" \notin {} /\ "deliver" \notin {}
      OBVIOUS
    <3> QED
      BY <1>0, <2>1, <3>1, <3>2, StepsFit
  <2>2. CASE r.kind # "job, delete"
    BY <2>2, PieceNone
  <2> QED
    BY <2>1, <2>2
<1> HIDE DEF rm
<1>3. Piece(c, r, Copy(c, r), {}, {"carry"})
  <2>1. "fetch" \notin {}
    OBVIOUS
  <2> QED
    BY <1>0, <2>1, CopyFits
<1>4. {} \cup {} = {} /\ {"carry"} = {} \cup {"carry"} /\ {"carry"} = {"carry"} \cup {}
      /\ {} \cup {"carry"} = {"carry"}
  OBVIOUS
<1>5. Piece(c, r, Progress(r) \o Copy(c, r), {}, {"carry"})
  BY <1>1, <1>3, <1>4, PieceThen
<1>6. Piece(c, r, (Progress(r) \o Copy(c, r)) \o rm, {}, {"carry"})
  BY <1>2, <1>4, <1>5, PieceThen
<1>7. Piece(c, r, ((Progress(r) \o Copy(c, r)) \o rm) \o Progress(r), {}, {"carry"})
  BY <1>1, <1>4, <1>6, PieceThen
<1> QED
  BY <1>7 DEF Job, rm

(* The steps of a call that is no append are in order.                      *)
LEMMA StepsOfFit ==
    ASSUME NEW c \in FileCalls, NEW r \in Asks, r.kind # "append"
    PROVE  /\ StepsOf(c, r) \in Seq(FileSteps) /\ StepsOf(c, r) # << >>
           /\ Ordered(c, r, StepsOf(c, r), {})
           /\ Roles(c, r, StepsOf(c, r)) \in Ways
           /\ IsJob(r) => Roles(c, r, StepsOf(c, r)) = {"carry"}
<1>0. r.kind \in {"copy", "move", "append", "job", "job, delete"}
  BY DEF Asks
<1>1. \E R \in Ways : Piece(c, r, StepsOf(c, r), {}, R) /\ (IsJob(r) => R = {"carry"})
  <2>1. CASE r.kind = "copy"
    <3>1. "fetch" \notin {} /\ ~IsJob(r) /\ StepsOf(c, r) = Copy(c, r)
      BY <2>1 DEF IsJob, StepsOf
    <3> QED
      BY <3>1, CopyFits
  <2>2. CASE r.kind = "move"
    <3>1. ~IsJob(r) /\ StepsOf(c, r) = Move(c, r)
      BY <2>2 DEF IsJob, StepsOf
    <3> QED
      BY <2>2, <3>1, MoveFits
  <2>3. CASE IsJob(r)
    <3>1. StepsOf(c, r) = Job(c, r) /\ {"carry"} \in Ways
      BY <2>3 DEF IsJob, StepsOf, Ways
    <3> QED
      BY <2>3, <3>1, JobFits
  <2> QED
    BY <1>0, <2>1, <2>2, <2>3 DEF IsJob
<1>2. PICK R \in Ways : Piece(c, r, StepsOf(c, r), {}, R) /\ (IsJob(r) => R = {"carry"})
  BY <1>1
<1>3. R # {}
  BY DEF Ways
<1>4. Roles(c, r, << >>) = {}
  BY DEF Roles, RolesAt
<1> QED
  BY <1>2, <1>3, <1>4 DEF Piece

(* Short tuples one after the other.                                        *)
LEMMA TupleConcat ==
    ASSUME NEW o, NEW e, NEW a
    PROVE  /\ <<o>> \o <<e>> = <<o, e>>
           /\ <<o, e>> \o <<a>> = <<o, e, a>>
<1> DEFINE S == {o, e, a}
<1>1. /\ <<o>> \in Seq(S) /\ <<e>> \in Seq(S) /\ <<a>> \in Seq(S)
      /\ <<o, e>> \in Seq(S) /\ <<o, e, a>> \in Seq(S)
  OBVIOUS
<1> HIDE DEF S
<1>2. <<o>> \o <<e>> = <<o, e>>
  <2>1. <<o>> \o <<e>> \in Seq(S) /\ Len(<<o>> \o <<e>>) = 2
    BY <1>1
  <2>2. \A i \in 1..2 : (<<o>> \o <<e>>)[i] = <<o, e>>[i]
    BY <1>1
  <2> QED
    BY <1>1, <2>1, <2>2, SeqEqual
<1>3. <<o, e>> \o <<a>> = <<o, e, a>>
  <2>1. <<o, e>> \o <<a>> \in Seq(S) /\ Len(<<o, e>> \o <<a>>) = 3
    BY <1>1
  <2>2. \A i \in 1..3 : (<<o, e>> \o <<a>>)[i] = <<o, e, a>>[i]
    BY <1>1
  <2> QED
    BY <1>1, <2>1, <2>2, SeqEqual
<1> QED
  BY <1>2, <1>3

(* And a fourth one.                                                        *)
LEMMA TupleConcat4 ==
    ASSUME NEW o, NEW e, NEW a, NEW p
    PROVE  <<o, e, a>> \o <<p>> = <<o, e, a, p>>
<1> DEFINE S == {o, e, a, p}
<1>1. <<p>> \in Seq(S) /\ <<o, e, a>> \in Seq(S) /\ <<o, e, a, p>> \in Seq(S)
  OBVIOUS
<1> HIDE DEF S
<1>2. <<o, e, a>> \o <<p>> \in Seq(S) /\ Len(<<o, e, a>> \o <<p>>) = 4
  BY <1>1
<1>3. \A i \in 1..4 : (<<o, e, a>> \o <<p>>)[i] = <<o, e, a, p>>[i]
  BY <1>1
<1> QED
  BY <1>1, <1>2, <1>3, SeqEqual

(* Those of an append.                                                      *)
LEMMA AppendSteps ==
    ASSUME NEW c \in FileCalls, NEW r \in Asks, r.kind = "append"
    PROVE  LET F == r.from
               T == Temp(c)
           IN /\ F \in Places /\ T \in Places /\ F # T
              /\ F[1] \in {"local", "s3", "ftp"}
              /\ r.to = F /\ LandsAt(c, r) = F /\ ~IsJob(r)
              /\ F[1] = "local" => StepsOf(c, r) = <<[do |-> "append", from |-> F, to |-> F]>>
              /\ F[1] = "s3" =>
                   StepsOf(c, r) = <<[do |-> "open", from |-> T, to |-> T], [do |-> "fill", from |-> F, to |-> T],
                                     [do |-> "append", from |-> T, to |-> T], [do |-> "put", from |-> T, to |-> F]>>
              /\ F[1] = "ftp" =>
                   StepsOf(c, r) = <<[do |-> "find", from |-> F, to |-> F], [do |-> "enter", from |-> F, to |-> F],
                                     [do |-> "replace", from |-> F, to |-> F]>>
<1>1. /\ r.from \in Stores \X {FileName} /\ r.to = r.from /\ ~r.toFs
      /\ StepsOf(c, r) = AppendTo(c, r.from) /\ ~IsJob(r)
  BY DEF Asks, StepsOf, IsJob
<1>2. PICK f \in Stores : r.from = <<f, FileName>>
  <2>1. \A p \in Stores \X {FileName} : \E f \in Stores : p = <<f, FileName>>
    OBVIOUS
  <2> QED
    BY <1>1, <2>1, Zenon
<1>3. r.from \in Places /\ Temp(c) \in Places /\ r.from # Temp(c) /\ r.from[1] = f
  BY <1>2 DEF Places, Temp, Stores, FileNames
<1>4. LandsAt(c, r) = r.to
  BY <1>1 DEF LandsAt
<1>5. f \in {"local", "s3", "ftp"}
  BY DEF Stores
<1>6. r.from[1] = "local" => StepsOf(c, r) = <<[do |-> "append", from |-> r.from, to |-> r.from]>>
  BY <1>1 DEF AppendTo, Do
<1>7. CASE r.from[1] = "s3"
  <2> DEFINE o == [do |-> "open", from |-> Temp(c), to |-> Temp(c)]
             e == [do |-> "fill", from |-> r.from, to |-> Temp(c)]
             a == [do |-> "append", from |-> Temp(c), to |-> Temp(c)]
             p == [do |-> "put", from |-> Temp(c), to |-> r.from]
  <2>1. StepsOf(c, r) = (((<<o>> \o << >>) \o <<e>>) \o <<a>>) \o <<p>>
    BY <1>1, <1>7 DEF AppendTo, Download, UploadS3, Do
  <2> HIDE DEF o, e, a, p
  <2>2. (((<<o>> \o << >>) \o <<e>>) \o <<a>>) \o <<p>> = <<o, e, a, p>>
    <3>1. <<o>> \o << >> = <<o>>
      OBVIOUS
    <3>2. <<o>> \o <<e>> = <<o, e>>
      BY TupleConcat, Zenon
    <3>3. <<o, e>> \o <<a>> = <<o, e, a>>
      BY TupleConcat, Zenon
    <3>4. <<o, e, a>> \o <<p>> = <<o, e, a, p>>
      BY TupleConcat4, Zenon
    <3> QED
      BY <3>1, <3>2, <3>3, <3>4, Zenon
  <2>3. StepsOf(c, r) = <<o, e, a, p>>
    BY <2>1, <2>2
  <2> QED
    BY <1>1, <1>3, <1>4, <1>5, <1>7, <2>3 DEF o, e, a, p
<1>8. CASE r.from[1] = "ftp"
  <2> DEFINE f1 == [do |-> "find", from |-> r.from, to |-> r.from]
             f2 == [do |-> "enter", from |-> r.from, to |-> r.from]
             f3 == [do |-> "replace", from |-> r.from, to |-> r.from]
  <2>1. StepsOf(c, r) = (<<f1>> \o <<f2>>) \o <<f3>>
    BY <1>1, <1>8 DEF AppendTo, Do
  <2> HIDE DEF f1, f2, f3
  <2>2. (<<f1>> \o <<f2>>) \o <<f3>> = <<f1, f2, f3>>
    <3>1. <<f1>> \o <<f2>> = <<f1, f2>>
      BY TupleConcat, Zenon
    <3>2. <<f1, f2>> \o <<f3>> = <<f1, f2, f3>>
      BY TupleConcat, Zenon
    <3> QED
      BY <3>1, <3>2, Zenon
  <2>3. StepsOf(c, r) = <<f1, f2, f3>>
    BY <2>1, <2>2
  <2> QED
    BY <1>1, <1>3, <1>4, <1>5, <1>8, <2>3 DEF f1, f2, f3
<1> QED
  BY <1>1, <1>3, <1>4, <1>5, <1>6, <1>7, <1>8

(* What each step makes of the files.                                       *)
LEMMA AfterIs ==
    ASSUME NEW c \in FileCalls, NEW x \in FileSteps
    PROVE  /\ x.do \in {"find", "enter", "progress", "disconnect"} => After(c, x) = files
           /\ x.do = "open" => After(c, x) = Put(x.to, Torn)
           /\ x.do \in {"fill", "put"} => After(c, x) = Put(x.to, files[x.from])
           /\ x.do = "rename" => After(c, x) = [Put(x.to, files[x.from]) EXCEPT ![x.from] = NoFile]
           /\ x.do = "remove" => After(c, x) = Put(x.from, NoFile)
           /\ x.do = "replace" => After(c, x) = Put(x.to, Content(Temp(c), {c}))
           /\ x.do = "append" =>
                \/ After(c, x) = Put(x.to, Content(Temp(c), {c}))
                \/ After(c, x) = files
                \/ After(c, x) = Put(x.to, [files[x.to] EXCEPT !.plus = @ \cup {c}])
           /\ x.do = "append" /\ files[x.to] \notin {NoFile, Torn} =>
                After(c, x) = Put(x.to, [files[x.to] EXCEPT !.plus = @ \cup {c}])
<1>1. x.do \in {"find", "enter", "progress", "disconnect"} => After(c, x) = files
  BY DEF After
<1>2. x.do = "open" => After(c, x) = Put(x.to, Torn)
  BY DEF After
<1>3. x.do \in {"fill", "put"} => After(c, x) = Put(x.to, files[x.from])
  BY DEF After
<1>4. x.do = "rename" => After(c, x) = [Put(x.to, files[x.from]) EXCEPT ![x.from] = NoFile]
  BY DEF After
<1>5. x.do = "remove" => After(c, x) = Put(x.from, NoFile)
  BY DEF After
<1>6. x.do = "replace" => After(c, x) = Put(x.to, Content(Temp(c), {c}))
  BY DEF After
<1>7. CASE x.do = "append" /\ files[x.to] = NoFile
  BY <1>1, <1>2, <1>3, <1>4, <1>5, <1>6, <1>7 DEF After, There
<1>8. CASE x.do = "append" /\ files[x.to] # NoFile /\ files[x.to] = Torn
  BY <1>1, <1>2, <1>3, <1>4, <1>5, <1>6, <1>8 DEF After, There
<1>9. CASE x.do = "append" /\ files[x.to] \notin {NoFile, Torn}
  BY <1>1, <1>2, <1>3, <1>4, <1>5, <1>6, <1>9 DEF After, There
<1> QED
  BY <1>1, <1>2, <1>3, <1>4, <1>5, <1>6, <1>7, <1>8, <1>9

(* A step touches the two places it names.                                  *)
LEMMA AfterElsewhere ==
    ASSUME DOMAIN files = Places, NEW c \in FileCalls, NEW x \in FileSteps
    PROVE  /\ DOMAIN After(c, x) = Places
           /\ \A p \in Places : p # x.from /\ p # x.to => After(c, x)[p] = files[p]
<1>1. ASSUME NEW y, NEW v
      PROVE  /\ DOMAIN Put(y, v) = Places
             /\ \A p \in Places : p # y => Put(y, v)[p] = files[p]
  BY DEF Put
<1>2. x.do \in Deeds
  BY DEF FileSteps
<1>3. CASE After(c, x) = files
  BY <1>3
<1>4. CASE \E v : After(c, x) = Put(x.to, v)
  BY <1>1, <1>4
<1>5. CASE \E v : After(c, x) = Put(x.from, v)
  BY <1>1, <1>5
<1>6. CASE x.do = "rename"
  <2>1. After(c, x) = [Put(x.to, files[x.from]) EXCEPT ![x.from] = NoFile]
    BY <1>6, AfterIs
  <2> QED
    BY <1>1, <2>1
<1>7. CASE x.do # "rename"
  BY <1>2, <1>3, <1>4, <1>5, <1>7, AfterIs DEF Deeds
<1> QED
  BY <1>6, <1>7

(* The next step of a call that is no append leaves the content where it    *)
(* is held with the steps behind it.                                        *)
LEMMA OwnStep ==
    ASSUME FileVarsOK, NEW c \in FileCalls, asked[c] \in Asks, asked[c].kind # "append",
           NEW s \in Seq(FileSteps), s # << >>, Ordered(c, asked[c], s, {}),
           had[c] # NoFile, Held(c, files, s), Possible(Head(s))
    PROVE  Held(c, After(c, Head(s)), Tail(s))
<1> DEFINE r == asked[c]
           F == r.from
           T == Temp(c)
           L == LandsAt(c, r)
           x == Head(s)
           B == Roles(c, r, Tail(s))
           R == Roles(c, r, s)
           fs == After(c, x)
<1>1. /\ F \in Places /\ T \in Places /\ L \in Places
      /\ F # T /\ L # T /\ F # L
  BY PlacesApart
<1>2. x \in FileSteps /\ Fits(c, r, x, B) /\ R = ({Role(c, r, x)} \cup B) \ {"none"}
  BY PieceTail
<1>3. "none" \notin B
  BY DEF Roles, RolesAt
<1>4. /\ files[F] = had[c] \/ (files[F] = NoFile /\ files[L] = had[c] /\ r.kind \in {"move", "job, delete"})
      /\ R \cap {"carry", "deliver"} = {} => files[L] = had[c]
      /\ "deliver" \in R => files[F] = had[c]
      /\ "deliver" \in R /\ "fetch" \notin R => files[T] \in {had[c], NoFile}
  BY DEF Held, Kept
<1> SUFFICES
      /\ fs[F] = had[c] \/ (fs[F] = NoFile /\ fs[L] = had[c] /\ r.kind \in {"move", "job, delete"})
      /\ B \cap {"carry", "deliver"} = {} => fs[L] = had[c]
      /\ "deliver" \in B => fs[F] = had[c]
      /\ "deliver" \in B /\ "fetch" \notin B => fs[T] \in {had[c], NoFile}
  BY DEF Held, Kept
<1>5. DOMAIN files = Places
  BY DEF FileVarsOK
<1>6. /\ x.do = "open" => (x.to = T /\ "fetch" \in B) \/ (x.to = L /\ x.from = F /\ "carry" \in B)
                            \/ (x.to = L /\ x.from = T /\ "deliver" \in B)
      /\ x.do \in {"open", "enter", "fill", "put", "rename", "remove", "progress"}
      /\ x.do \in {"fill", "put", "rename"} => Role(c, r, x) # "none"
      /\ x.do = "rename" => r.kind = "move" /\ "deliver" \notin B
      /\ Role(c, r, x) = "deliver" => "fetch" \notin B
      /\ x.do = "remove" =>
            \/ x.from = T
            \/ x.from = F /\ r.kind \in {"move", "job, delete"} /\ "carry" \notin B /\ "deliver" \notin B
  BY <1>2 DEF Fits
<1>7. \/ x.do = "fill" /\ x.from = F /\ x.to = T /\ Role(c, r, x) = "fetch"
      \/ x.do \in {"fill", "put", "rename"} /\ x.from = F /\ x.to = L /\ Role(c, r, x) = "carry"
      \/ x.do \in {"fill", "put"} /\ x.from = T /\ x.to = L /\ Role(c, r, x) = "deliver"
      \/ Role(c, r, x) = "none"
  BY DEF Role
<1>8. x.do \in {"fill", "put", "rename"} => files[x.from] # NoFile
  BY DEF Possible, There
<1>9. x.do = "open" => files[x.from] # NoFile \/ x.to = T
  <2>1. x.to[1] = "temp" /\ x.do = "open" => x.to = T
    <3>1. L[1] # "temp"
      <4>1. r.from \in Stores \X {FileName} /\ r.to \in Stores \X FileNames
        BY DEF Asks
      <4>2. r.to[1] # "temp"
        BY <4>1 DEF Stores
      <4> QED
        BY <4>2 DEF LandsAt, Landing
    <3> QED
      BY <1>6, <3>1
  <2> QED
    BY <2>1 DEF Possible, There
<1>10. x.do \in {"open", "enter", "progress", "remove"} => Role(c, r, x) = "none"
  BY DEF Role
<1>11. /\ x.do \in {"enter", "progress"} => fs = files
       /\ x.do = "open" => fs = Put(x.to, Torn)
       /\ x.do \in {"fill", "put"} => fs = Put(x.to, files[x.from])
       /\ x.do = "rename" => fs = [Put(x.to, files[x.from]) EXCEPT ![x.from] = NoFile]
       /\ x.do = "remove" => fs = Put(x.from, NoFile)
  BY <1>2, AfterIs
<1> HIDE DEF r, F, T, L, x, B, R, fs
<1>12. CASE x.do \in {"enter", "progress"}
  BY <1>2, <1>3, <1>4, <1>10, <1>11, <1>12
<1>13. CASE x.do = "open"
  <2>1. R = B
    BY <1>2, <1>3, <1>10, <1>13
  <2>2. CASE x.to = T /\ "fetch" \in B
    <3>1. fs[F] = files[F] /\ fs[L] = files[L]
      BY <1>1, <1>5, <1>11, <1>13, <2>2 DEF Put
    <3> QED
      BY <1>4, <2>1, <2>2, <3>1
  <2>3. CASE x.to = L /\ files[F] = had[c] /\ ("carry" \in B \/ "deliver" \in B)
    <3>1. fs[F] = files[F] /\ fs[T] = files[T]
      BY <1>1, <1>5, <1>11, <1>13, <2>3 DEF Put
    <3> QED
      BY <1>4, <2>1, <2>3, <3>1
  <2> QED
    BY <1>1, <1>4, <1>6, <1>9, <1>13, <2>1, <2>2, <2>3
<1>14. CASE Role(c, r, x) = "fetch"
  <2>1. x.do = "fill" /\ x.from = F /\ x.to = T
    BY <1>7, <1>14
  <2>2. fs[F] = files[F] /\ fs[L] = files[L] /\ fs[T] = files[F]
    BY <1>1, <1>5, <1>11, <2>1 DEF Put
  <2>3. R = {"fetch"} \cup B
    BY <1>2, <1>3, <1>14
  <2> QED
    BY <1>4, <2>2, <2>3
<1>15. CASE Role(c, r, x) = "carry"
  <2>1. x.do \in {"fill", "put", "rename"} /\ x.from = F /\ x.to = L
    BY <1>7, <1>15
  <2>2. R = {"carry"} \cup B
    BY <1>2, <1>3, <1>15
  <2>3. files[F] = had[c]
    BY <1>4, <1>8, <2>1
  <2>4. fs[L] = had[c] /\ fs[T] = files[T]
    BY <1>1, <1>5, <1>11, <2>1, <2>3 DEF Put
  <2>5. CASE x.do = "rename"
    <3>1. fs[F] = NoFile /\ r.kind = "move" /\ "deliver" \notin B
      BY <1>1, <1>5, <1>6, <1>11, <2>1, <2>5 DEF Put
    <3> QED
      BY <2>4, <3>1
  <2>6. CASE x.do \in {"fill", "put"}
    <3>1. fs[F] = files[F]
      BY <1>1, <1>5, <1>11, <2>1, <2>6 DEF Put
    <3> QED
      BY <1>4, <2>2, <2>3, <2>4, <3>1
  <2> QED
    BY <2>1, <2>5, <2>6
<1>16. CASE Role(c, r, x) = "deliver"
  <2>1. x.do \in {"fill", "put"} /\ x.from = T /\ x.to = L
    BY <1>7, <1>16
  <2>2. R = {"deliver"} \cup B /\ "fetch" \notin B
    BY <1>2, <1>3, <1>6, <1>16
  <2>3. files[T] = had[c] /\ files[F] = had[c]
    BY <1>4, <1>8, <2>1, <2>2
  <2>4. fs[L] = had[c] /\ fs[F] = files[F] /\ fs[T] = files[T]
    BY <1>1, <1>5, <1>11, <2>1, <2>3 DEF Put
  <2> QED
    BY <2>3, <2>4
<1>17. CASE x.do = "remove"
  <2>1. R = B
    BY <1>2, <1>3, <1>10, <1>17
  <2>2. CASE x.from = T
    <3>1. fs[F] = files[F] /\ fs[L] = files[L] /\ fs[T] = NoFile
      BY <1>1, <1>5, <1>11, <1>17, <2>2 DEF Put
    <3> QED
      BY <1>4, <2>1, <3>1
  <2>3. CASE x.from = F /\ r.kind \in {"move", "job, delete"} /\ "carry" \notin B /\ "deliver" \notin B
    <3>1. fs[F] = NoFile /\ fs[L] = files[L]
      BY <1>1, <1>5, <1>11, <1>17, <2>3 DEF Put
    <3>2. files[L] = had[c]
      BY <1>4, <2>1, <2>3
    <3> QED
      BY <2>3, <3>1, <3>2
  <2> QED
    BY <1>6, <1>17, <2>2, <2>3
<1> QED
  BY <1>6, <1>7, <1>12, <1>13, <1>14, <1>15, <1>16, <1>17

(* The places a call touches are in the stores; its temporary file is its   *)
(* own.                                                                     *)
LEMMA TouchesPlaces ==
    ASSUME NEW c \in FileCalls, NEW r \in Asks
    PROVE  /\ Touches(c, r) \subseteq Places /\ Temp(c) \in Places
           /\ {r.from, r.to, LandsAt(c, r)} = Touches(c, r)
           /\ \A d \in FileCalls : Temp(d) \notin Touches(c, r)
           /\ \A d \in FileCalls : d # c => Temp(d) # Temp(c)
<1>1. r.from \in Stores \X {FileName} /\ r.to \in Stores \X FileNames
  BY DEF Asks
<1>2. r.from[1] # "temp" /\ r.to[1] # "temp"
  BY <1>1 DEF Stores
<1>3. LandsAt(c, r)[1] # "temp"
  <2>1. \A p : Landing(p, r.to)[1] # "temp"
    BY <1>2 DEF Landing
  <2> QED
    BY <1>2, <2>1 DEF LandsAt
<1>4. \A d \in FileCalls : Temp(d)[1] = "temp" /\ Temp(d)[2] = d
  BY DEF Temp
<1>5. r.from \in Places /\ r.to \in Places /\ Temp(c) \in Places
  BY <1>1 DEF Places, FileNames, Temp
<1>6. LandsAt(c, r) \in Places
  <2>1. CASE r.kind = "append"
    BY <1>5, <2>1, AppendSteps
  <2>2. CASE r.kind # "append"
    BY <2>2, PlacesApart
  <2> QED
    BY <2>1, <2>2
<1> QED
  BY <1>2, <1>3, <1>4, <1>5, <1>6 DEF Touches

(* The step a call is at is about its own places.                           *)
LEMMA StepPlaces ==
    ASSUME FileVarsOK, NEW c \in FileCalls, Running(c), StepsFor(c)
    PROVE  /\ asked[c] \in Asks /\ todo[c] \in Seq(FileSteps) /\ todo[c] # << >>
           /\ Step(c) \in FileSteps
           /\ {Step(c).from, Step(c).to} \subseteq Touches(c, asked[c]) \cup {Temp(c)}
<1> DEFINE r == asked[c]
<1>1. r \in Asks
  BY DEF FileVarsOK, Running
<1>2. todo[c] \in Seq(FileSteps) /\ todo[c] # << >>
  BY DEF FileVarsOK
<1>3. Step(c) \in FileSteps
  BY <1>2 DEF Step
<1>4. {Step(c).from, Step(c).to} \subseteq Touches(c, r) \cup {Temp(c)}
  <2>1. CASE r.kind # "append"
    <3>1. Fits(c, r, Head(todo[c]), Roles(c, r, Tail(todo[c])))
      BY <1>2, <2>1, PieceTail DEF StepsFor
    <3> QED
      BY <3>1 DEF Fits, Step
  <2>2. CASE r.kind = "append"
    <3>1. r.from[1] \in {"local", "s3", "ftp"} /\ r.from \in Touches(c, r)
      BY <1>1, <2>2, AppendSteps, TouchesPlaces
    <3>2. Head(todo[c]).from \in {r.from, Temp(c)} /\ Head(todo[c]).to \in {r.from, Temp(c)}
      <4>1. CASE r.from[1] = "local"
        BY <2>2, <4>1 DEF StepsFor
      <4>2. CASE r.from[1] = "s3"
        BY <2>2, <4>2 DEF StepsFor, S3Append
      <4>3. CASE r.from[1] = "ftp"
        BY <2>2, <4>3 DEF StepsFor
      <4> QED
        BY <3>1, <4>1, <4>2, <4>3
    <3> QED
      BY <3>1, <3>2 DEF Step
  <2> QED
    BY <2>1, <2>2
<1> QED
  BY <1>1, <1>2, <1>3, <1>4

(* What a call that shares no place with c does, leaves what c is about.    *)
LEMMA SafeStays ==
    ASSUME FileVarsOK, Apart, NEW c \in FileCalls, NEW d \in FileCalls, c # d,
           c \notin crossed, asked[c] # NoFile, Running(d), Safe(c),
           \A p \in Places \ (Touches(d, asked[d]) \cup {Temp(d)}) : files'[p] = files[p],
           asked'[c] = asked[c], had'[c] = had[c], todo'[c] = todo[c], outcome'[c] = outcome[c]
    PROVE  Safe(c)'
<1> DEFINE r == asked[c]
<1>1. r \in Asks /\ asked[d] \in Asks /\ asked[d] # NoFile
  BY NoFileAssumption DEF FileVarsOK, Running
<1>2. Touches(d, asked[d]) \cap Touches(c, r) = {}
  BY <1>1 DEF Apart, MayGoOn
<1>3. \A p \in Touches(c, r) \cup {Temp(c)} : p \in Places \ (Touches(d, asked[d]) \cup {Temp(d)})
  BY <1>1, <1>2, TouchesPlaces
<1>4. /\ files'[r.from] = files[r.from] /\ files'[LandsAt(c, r)] = files[LandsAt(c, r)]
      /\ files'[Temp(c)] = files[Temp(c)]
  BY <1>1, <1>3, TouchesPlaces
<1> QED
  BY <1>4 DEF Safe, Kept, Held, HeldAppend, Appended, Running

(* A step of one call keeps the invariant if it keeps what concerns it.     *)
LEMMA OneCallKeeps ==
    ASSUME CallInv, NEW c \in FileCalls, Running(c),
           asked' = asked, had' = had, crossed \subseteq crossed', crossed' \subseteq FileCalls,
           todo' \in [FileCalls -> Seq(FileSteps)],
           outcome' \in [FileCalls -> {"idle", "running", "done", "failed"}], outcome'[c] # "idle",
           Running(c)' => todo'[c] # << >> /\ StepsFor(c)',
           \A e \in FileCalls \ {c} : todo'[e] = todo[e] /\ outcome'[e] = outcome[e],
           DOMAIN files' = Places,
           \A p \in Places \ (Touches(c, asked[c]) \cup {Temp(c)}) : files'[p] = files[p],
           c \notin crossed' /\ had[c] \notin {NoFile, Torn} => Safe(c)'
    PROVE  CallInv'
<1>0. FileVarsOK /\ Apart /\ StepsLeft /\ AllSafe
  BY DEF CallInv
<1>1. FileVarsOK'
  BY <1>0 DEF FileVarsOK, Running
<1>2. Apart'
  <2>1. \A e \in FileCalls : MayGoOn(e)' => MayGoOn(e)
    BY DEF MayGoOn, Running
  <2> QED
    BY <1>0, <2>1 DEF Apart, Touches
<1>3. StepsLeft'
  <2> SUFFICES ASSUME NEW e \in FileCalls, Running(e)'
               PROVE  StepsFor(e)'
    BY DEF StepsLeft
  <2>1. CASE e = c
    BY <2>1
  <2>2. CASE e # c
    <3>1. todo'[e] = todo[e] /\ outcome'[e] = outcome[e]
      BY <2>2
    <3>2. StepsFor(e)
      BY <1>0, <3>1 DEF StepsLeft, Running
    <3> QED
      BY <3>1, <3>2 DEF StepsFor
  <2> QED
    BY <2>1, <2>2
<1>4. AllSafe'
  <2> SUFFICES ASSUME NEW e \in FileCalls \ crossed', asked[e] # NoFile, had[e] \notin {NoFile, Torn}
               PROVE  Safe(e)'
    BY DEF AllSafe, Torn, Content
  <2>1. CASE e = c
    BY <2>1
  <2>2. CASE e # c
    <3>1. Safe(e) /\ e \notin crossed
      BY <1>0 DEF AllSafe
    <3> QED
      BY <1>0, <2>2, <3>1, SafeStays
  <2> QED
    BY <2>1, <2>2
<1> QED
  BY <1>1, <1>2, <1>3, <1>4 DEF CallInv

(* What is left of the steps after one of them.                             *)
LEMMA TailSteps ==
    ASSUME FileVarsOK, NEW c \in FileCalls, Running(c), StepsFor(c),
           asked' = asked, todo' = [todo EXCEPT ![c] = Tail(@)], todo'[c] # << >>
    PROVE  StepsFor(c)'
<1> DEFINE r == asked[c]
<1>1. r \in Asks /\ todo[c] \in Seq(FileSteps) /\ todo[c] # << >> /\ todo'[c] = Tail(todo[c])
  BY StepPlaces DEF FileVarsOK
<1>2. CASE r.kind # "append"
  <2>1. Ordered(c, r, Tail(todo[c]), {})
    BY <1>1, <1>2, PieceTail DEF StepsFor
  <2> QED
    BY <1>1, <1>2, <2>1 DEF StepsFor
<1>3. CASE r.kind = "append" /\ r.from[1] = "local"
  BY <1>1, <1>3 DEF StepsFor
<1>4. CASE r.kind = "append" /\ r.from[1] = "s3"
  <2> DEFINE o == [do |-> "open", from |-> Temp(c), to |-> Temp(c)]
             e == [do |-> "fill", from |-> r.from, to |-> Temp(c)]
             a == [do |-> "append", from |-> Temp(c), to |-> Temp(c)]
             p == [do |-> "put", from |-> Temp(c), to |-> r.from]
  <2>1. /\ todo[c] \in S3Append(c, r)
        /\ S3Append(c, r) = {<<o, e, a, p>>, <<e, a, p>>, <<a, p>>, <<p>>}
    BY <1>4 DEF StepsFor, S3Append
  <2> HIDE DEF o, e, a, p
  <2>2. Tail(todo[c]) \in S3Append(c, r) \cup {<< >>}
    <3>1. /\ Tail(<<o, e, a, p>>) = <<e, a, p>> /\ Tail(<<e, a, p>>) = <<a, p>>
          /\ Tail(<<a, p>>) = <<p>> /\ Tail(<<p>>) = << >>
      OBVIOUS
    <3> QED
      BY <2>1, <3>1, Zenon
  <2> QED
    BY <1>1, <1>4, <2>2 DEF StepsFor, S3Append
<1>5. CASE r.kind = "append" /\ r.from[1] = "ftp"
  <2> DEFINE f1 == [do |-> "find", from |-> r.from, to |-> r.from]
             f2 == [do |-> "enter", from |-> r.from, to |-> r.from]
             f3 == [do |-> "replace", from |-> r.from, to |-> r.from]
  <2>1. todo[c] \in {<<f1, f2, f3>>, <<f2, f3>>, <<f3>>}
    BY <1>5 DEF StepsFor
  <2> HIDE DEF f1, f2, f3
  <2>2. Tail(todo[c]) \in {<<f2, f3>>, <<f3>>, << >>}
    <3>1. Tail(<<f1, f2, f3>>) = <<f2, f3>> /\ Tail(<<f2, f3>>) = <<f3>> /\ Tail(<<f3>>) = << >>
      OBVIOUS
    <3> QED
      BY <2>1, <3>1, Zenon
  <2>3. todo'[c] \in {<<f1, f2, f3>>, <<f2, f3>>, <<f3>>}
    BY <1>1, <2>2
  <2> QED
    BY <1>5, <2>3 DEF StepsFor, f1, f2, f3
<1>6. r.kind = "append" => r.from[1] \in {"local", "s3", "ftp"}
  BY <1>1, AppendSteps
<1> QED
  BY <1>2, <1>3, <1>4, <1>5, <1>6

(* An append that shares its places with nobody: what its next step does.   *)
LEMMA OwnAppend ==
    ASSUME FileVarsOK, NEW c \in FileCalls, Running(c), StepsFor(c), asked[c] \in Asks,
           asked[c].kind = "append", asked[c].from[1] # "ftp", had[c] \notin {NoFile, Torn},
           HeldAppend(c, files, todo[c]), Possible(Step(c))
    PROVE  LET fs == After(c, Step(c))
           IN /\ Len(todo[c]) # 1 => HeldAppend(c, fs, Tail(todo[c]))
              /\ Len(todo[c]) = 1 => fs[asked[c].from] = Appended(c)
              /\ fs[asked[c].from] \in {had[c], Appended(c)}
<1> DEFINE r == asked[c]
           F == r.from
           T == Temp(c)
           fs == After(c, Step(c))
<1>1. F \in Places /\ T \in Places /\ F # T /\ DOMAIN files = Places
  BY AppendSteps DEF FileVarsOK
<1>2. Step(c) \in FileSteps
  BY StepPlaces
<1>3. files[F] = had[c]
  BY DEF HeldAppend
<1>4. CASE F[1] = "local"
  <2>1. todo[c] = <<[do |-> "append", from |-> F, to |-> F]>>
    BY <1>4 DEF StepsFor
  <2>2. Step(c).do = "append" /\ Step(c).to = F /\ Len(todo[c]) = 1
    BY <2>1 DEF Step
  <2>3. fs = Put(F, [files[F] EXCEPT !.plus = @ \cup {c}])
    BY <1>2, <1>3, <2>2, AfterIs
  <2>4. fs[F] = Appended(c)
    BY <1>1, <1>3, <2>3 DEF Put, Appended
  <2> QED
    BY <2>2, <2>4
<1>5. CASE F[1] = "s3"
  <2> DEFINE o == [do |-> "open", from |-> T, to |-> T]
             e == [do |-> "fill", from |-> F, to |-> T]
             a == [do |-> "append", from |-> T, to |-> T]
             p == [do |-> "put", from |-> T, to |-> F]
  <2>1. todo[c] \in {<<o, e, a, p>>, <<e, a, p>>, <<a, p>>, <<p>>}
    BY <1>5 DEF StepsFor, S3Append
  <2>2. /\ o.do = "open" /\ o.to = T
        /\ e.do = "fill" /\ e.from = F /\ e.to = T
        /\ a.do = "append" /\ a.to = T
        /\ p.do = "put" /\ p.from = T /\ p.to = F
    OBVIOUS
  <2> HIDE DEF o, e, a, p, F, T, fs
  <2>3. /\ HeldAppend(c, files, todo[c]) => files[F] = had[c]
                           /\ (Len(todo[c]) = 2 => files[T] = had[c])
                           /\ (Len(todo[c]) = 1 => files[T] = Appended(c))
        /\ \A s : /\ fs[F] = had[c]
                  /\ Len(s) = 2 => fs[T] = had[c]
                  /\ Len(s) = 1 => fs[T] = Appended(c)
                  => HeldAppend(c, fs, s)
    BY <1>5 DEF HeldAppend, F, T
  <2>4. fs = After(c, Step(c))
    BY DEF fs
  <2>5. CASE todo[c] = <<o, e, a, p>>
    <3>1. Step(c) = o /\ Tail(todo[c]) = <<e, a, p>> /\ Len(todo[c]) = 4 /\ Len(<<e, a, p>>) = 3
      BY <2>5 DEF Step
    <3>2. fs = Put(T, Torn)
      BY <1>2, <2>2, <2>4, <3>1, AfterIs
    <3>3. fs[F] = had[c]
      BY <1>1, <1>3, <3>2 DEF Put
    <3> DEFINE rest == Tail(todo[c])
    <3>4. Len(rest) = 3
      BY <3>1
    <3> HIDE DEF rest
    <3>5. HeldAppend(c, fs, rest)
      BY <2>3, <3>3, <3>4
    <3>6. fs[F] \in {had[c], Appended(c)}
      BY <3>3
    <3> QED
      BY <3>1, <3>5, <3>6 DEF fs, F, rest
  <2>6. CASE todo[c] = <<e, a, p>>
    <3>1. Step(c) = e /\ Tail(todo[c]) = <<a, p>> /\ Len(todo[c]) = 3 /\ Len(<<a, p>>) = 2
      BY <2>6 DEF Step
    <3>2. fs = Put(T, files[F])
      BY <1>2, <2>2, <2>4, <3>1, AfterIs
    <3>3. fs[F] = had[c] /\ fs[T] = had[c]
      BY <1>1, <1>3, <3>2 DEF Put
    <3> DEFINE rest == Tail(todo[c])
    <3>4. Len(rest) = 2
      BY <3>1
    <3> HIDE DEF rest
    <3>5. HeldAppend(c, fs, rest)
      BY <2>3, <3>3, <3>4
    <3>6. fs[F] \in {had[c], Appended(c)}
      BY <3>3
    <3> QED
      BY <3>1, <3>5, <3>6 DEF fs, F, rest
  <2>7. CASE todo[c] = <<a, p>>
    <3>1. Step(c) = a /\ Tail(todo[c]) = <<p>> /\ Len(todo[c]) = 2 /\ Len(<<p>>) = 1
      BY <2>7 DEF Step
    <3>2. files[T] = had[c]
      BY <2>3, <3>1
    <3>3. fs = Put(T, [files[T] EXCEPT !.plus = @ \cup {c}])
      BY <1>2, <2>2, <2>4, <3>1, <3>2, AfterIs
    <3>4. fs[F] = had[c] /\ fs[T] = Appended(c)
      BY <1>1, <1>3, <3>2, <3>3 DEF Put, Appended
    <3> QED
      BY <2>3, <3>1, <3>4 DEF fs, F
  <2>8. CASE todo[c] = <<p>>
    <3>1. Step(c) = p /\ Len(todo[c]) = 1
      BY <2>8 DEF Step
    <3>2. files[T] = Appended(c)
      BY <2>3, <3>1
    <3>3. fs = Put(F, files[T])
      BY <1>2, <2>2, <2>4, <3>1, AfterIs
    <3>4. fs[F] = Appended(c)
      BY <1>1, <3>2, <3>3 DEF Put
    <3> QED
      BY <3>1, <3>4 DEF fs, F
  <2> QED
    BY <2>1, <2>5, <2>6, <2>7, <2>8
<1> QED
  BY <1>4, <1>5, AppendSteps

(* The step a call is at keeps its content.                                 *)
LEMMA StepKeepsContent ==
    ASSUME CallInv, NEW c \in FileCalls, Running(c), Possible(Step(c)),
           c \notin crossed, had[c] \notin {NoFile, Torn}
    PROVE  LET r == asked[c]
               fs == After(c, Step(c))
           IN /\ r.kind # "append" => Held(c, fs, Tail(todo[c]))
              /\ r.kind = "append" /\ r.from[1] # "ftp" =>
                   /\ Len(todo[c]) # 1 => HeldAppend(c, fs, Tail(todo[c]))
                   /\ Len(todo[c]) = 1 => fs[r.from] = Appended(c)
                   /\ fs[r.from] \in {had[c], Appended(c)}
<1>1. FileVarsOK /\ StepsFor(c)
  BY DEF CallInv, StepsLeft
<1>2. asked[c] \in Asks /\ todo[c] \in Seq(FileSteps) /\ todo[c] # << >>
  BY <1>1, StepPlaces
<1>3. Safe(c)
  BY <1>2, NoFileAssumption DEF CallInv, AllSafe
<1>4. CASE asked[c].kind # "append"
  <2>1. Ordered(c, asked[c], todo[c], {})
    BY <1>1, <1>4 DEF StepsFor
  <2>2. Held(c, files, todo[c])
    BY <1>3, <1>4 DEF Safe
  <2>3. Held(c, After(c, Head(todo[c])), Tail(todo[c]))
    BY <1>1, <1>2, <1>4, <2>1, <2>2, OwnStep DEF Step
  <2> QED
    BY <1>4, <2>3 DEF Step
<1>5. CASE asked[c].kind = "append" /\ asked[c].from[1] # "ftp"
  <2>1. HeldAppend(c, files, todo[c])
    BY <1>3, <1>5 DEF Safe
  <2> QED
    BY <1>1, <1>2, <1>5, <2>1, OwnAppend
<1> QED
  BY <1>4, <1>5

(* The step is done and answered.                                           *)
LEMMA ProceedsKeeps ==
    ASSUME CallInv, NEW c \in FileCalls, Proceeds(c)
    PROVE  CallInv'
<1>1. /\ Running(c) /\ Possible(Step(c))
      /\ files' = After(c, Step(c))
      /\ todo' = [todo EXCEPT ![c] = Tail(@)]
      /\ outcome' = [outcome EXCEPT ![c] = IF Len(todo[c]) = 1 THEN "done" ELSE "running"]
      /\ asked' = asked /\ had' = had /\ crossed' = crossed
  BY DEF Proceeds
<1>2. FileVarsOK /\ StepsFor(c)
  BY <1>1 DEF CallInv, StepsLeft
<1>3. /\ asked[c] \in Asks /\ todo[c] \in Seq(FileSteps) /\ todo[c] # << >>
      /\ Step(c) \in FileSteps
      /\ {Step(c).from, Step(c).to} \subseteq Touches(c, asked[c]) \cup {Temp(c)}
  BY <1>1, <1>2, StepPlaces
<1>4. /\ DOMAIN files = Places /\ todo \in [FileCalls -> Seq(FileSteps)]
      /\ outcome \in [FileCalls -> {"idle", "running", "done", "failed"}]
      /\ crossed \subseteq FileCalls
  BY <1>2 DEF FileVarsOK
<1>5. /\ Tail(todo[c]) \in Seq(FileSteps)
      /\ Len(todo[c]) # 1 => Tail(todo[c]) # << >>
      /\ Len(todo[c]) = 1 => Tail(todo[c]) = << >>
  <2> DEFINE q == todo[c]
             t == Tail(todo[c])
  <2>1. q \in Seq(FileSteps) /\ Len(q) \in Nat /\ Len(q) # 0 /\ t \in Seq(FileSteps) /\ Len(t) = Len(q) - 1
    BY <1>3
  <2> HIDE DEF q, t
  <2>2. t = << >> <=> Len(t) = 0
    BY <2>1, EmptySeq
  <2>3. (Len(q) # 1 => t # << >>) /\ (Len(q) = 1 => t = << >>)
    BY <2>1, <2>2
  <2> QED
    BY <2>1, <2>3 DEF q, t
<1>6. /\ todo' \in [FileCalls -> Seq(FileSteps)] /\ todo'[c] = Tail(todo[c])
      /\ outcome' \in [FileCalls -> {"idle", "running", "done", "failed"}]
      /\ outcome'[c] = IF Len(todo[c]) = 1 THEN "done" ELSE "running"
      /\ \A e \in FileCalls \ {c} : todo'[e] = todo[e] /\ outcome'[e] = outcome[e]
  BY <1>1, <1>4, <1>5
<1>7. Running(c)' => todo'[c] # << >> /\ StepsFor(c)'
  BY <1>1, <1>2, <1>5, <1>6, TailSteps DEF Running
<1>8. /\ DOMAIN files' = Places
      /\ \A p \in Places \ (Touches(c, asked[c]) \cup {Temp(c)}) : files'[p] = files[p]
  BY <1>1, <1>3, <1>4, AfterElsewhere
<1>9. ASSUME c \notin crossed, had[c] \notin {NoFile, Torn}
      PROVE  Safe(c)'
  <2>1. CASE asked[c].kind # "append"
    <3>1. Held(c, files', Tail(todo[c]))
      BY <1>1, <1>9, <2>1, StepKeepsContent
    <3>2. Len(todo[c]) = 1 => Roles(c, asked[c], Tail(todo[c])) = {}
      BY <1>5 DEF Roles, RolesAt
    <3>3. Len(todo[c]) = 1 => files'[LandsAt(c, asked[c])] = had[c]
      BY <3>1, <3>2 DEF Held
    <3> QED
      BY <1>1, <1>6, <2>1, <3>1, <3>3 DEF Safe, Held, Kept, Running
  <2>2. CASE asked[c].kind = "append" /\ asked[c].from[1] # "ftp"
    <3>1. /\ Len(todo[c]) # 1 => HeldAppend(c, files', Tail(todo[c]))
          /\ Len(todo[c]) = 1 => files'[asked[c].from] = Appended(c)
          /\ files'[asked[c].from] \in {had[c], Appended(c)}
      BY <1>1, <1>9, <2>2, StepKeepsContent
    <3> QED
      BY <1>1, <1>6, <2>2, <3>1 DEF Safe, HeldAppend, Appended, Running
  <2>3. CASE asked[c].kind = "append" /\ asked[c].from[1] = "ftp"
    BY <1>1, <2>3 DEF Safe
  <2> QED
    BY <2>1, <2>2, <2>3
<1> QED
  BY <1>1, <1>4, <1>6, <1>7, <1>8, <1>9, OneCallKeeps

(* A call that ends failing keeps its content if its last step did, done or *)
(* not.                                                                     *)
LEMMA FailingKeeps ==
    ASSUME CallInv, NEW c \in FileCalls, Running(c),
           outcome' = [outcome EXCEPT ![c] = "failed"], todo' = [todo EXCEPT ![c] = << >>],
           asked' = asked, had' = had, crossed' = crossed,
           \/ files' = After(c, Step(c)) /\ Possible(Step(c))
           \/ files' = files
           \/ files' = Put(Temp(c), NoFile)
    PROVE  CallInv'
<1>2. FileVarsOK /\ StepsFor(c)
  BY DEF CallInv, StepsLeft
<1>3. /\ asked[c] \in Asks /\ Step(c) \in FileSteps
      /\ {Step(c).from, Step(c).to} \subseteq Touches(c, asked[c]) \cup {Temp(c)}
  BY <1>2, StepPlaces
<1>4. /\ DOMAIN files = Places /\ todo \in [FileCalls -> Seq(FileSteps)]
      /\ outcome \in [FileCalls -> {"idle", "running", "done", "failed"}]
      /\ crossed \subseteq FileCalls
  BY <1>2 DEF FileVarsOK
<1>5. << >> \in Seq(FileSteps)
  OBVIOUS
<1>6. /\ todo' \in [FileCalls -> Seq(FileSteps)]
      /\ outcome' \in [FileCalls -> {"idle", "running", "done", "failed"}]
      /\ outcome'[c] = "failed"
      /\ \A e \in FileCalls \ {c} : todo'[e] = todo[e] /\ outcome'[e] = outcome[e]
  BY <1>4, <1>5
<1>7. /\ DOMAIN files' = Places
      /\ \A p \in Places \ (Touches(c, asked[c]) \cup {Temp(c)}) : files'[p] = files[p]
  <2>1. CASE files' = After(c, Step(c))
    BY <1>3, <1>4, <2>1, AfterElsewhere
  <2>2. CASE files' = Put(Temp(c), NoFile) \/ files' = files
    BY <1>4, <2>2 DEF Put
  <2> QED
    BY <2>1, <2>2
<1>8. ASSUME c \notin crossed, had[c] \notin {NoFile, Torn}
      PROVE  Safe(c)'
  <2>1. Safe(c)
    BY <1>3, <1>8, NoFileAssumption DEF CallInv, AllSafe
  <2>2. CASE files' = After(c, Step(c)) /\ Possible(Step(c))
    <3>1. /\ asked[c].kind # "append" => Kept(c, files')
          /\ asked[c].kind = "append" /\ asked[c].from[1] # "ftp" =>
               files'[asked[c].from] \in {had[c], Appended(c)}
      BY <1>8, <2>2, StepKeepsContent DEF Held
    <3> QED
      BY <1>6, <3>1 DEF Safe, Kept, Appended, Running
  <2>3. CASE files' = files \/ files' = Put(Temp(c), NoFile)
    <3>1. Temp(c) \notin {asked[c].from, LandsAt(c, asked[c])}
      BY <1>3, TouchesPlaces
    <3>2. /\ asked[c].from \in Places /\ LandsAt(c, asked[c]) \in Places
      BY <1>3, TouchesPlaces
    <3>3. /\ files'[asked[c].from] = files[asked[c].from]
          /\ files'[LandsAt(c, asked[c])] = files[LandsAt(c, asked[c])]
      BY <1>4, <2>3, <3>1, <3>2 DEF Put
    <3> QED
      BY <1>6, <2>1, <3>3 DEF Safe, Kept, Appended, Running
  <2> QED
    BY <2>2, <2>3
<1>9. ~Running(c)'
  BY <1>6 DEF Running
<1> QED
  BY <1>4, <1>6, <1>7, <1>8, <1>9, OneCallKeeps

(* It fails, or is done while its answer is lost.                           *)
LEMMA FailsKeeps ==
    ASSUME CallInv, NEW c \in FileCalls, Fails(c) \/ AnswerLost(c)
    PROVE  CallInv'
<1>1. CASE Fails(c)
  <2>1. RmTemp(c)[1] = [do |-> "remove", from |-> Temp(c), to |-> Temp(c)]
    BY DEF RmTemp, Do
  <2>2. After(c, RmTemp(c)[1]) = Put(Temp(c), NoFile)
    BY <2>1 DEF After
  <2>3. files' = files \/ files' = Put(Temp(c), NoFile)
    BY <1>1, <2>2 DEF Fails, Finally
  <2> QED
    BY <1>1, <2>3, FailingKeeps DEF Fails
<1>2. CASE AnswerLost(c)
  BY <1>2, FailingKeeps DEF AnswerLost
<1> QED
  BY <1>1, <1>2

(* The temporary file expires.                                              *)
LEMMA TempExpiresKeeps ==
    ASSUME CallInv, NEW c \in FileCalls, TempExpires(c)
    PROVE  CallInv'
<1>1. /\ Running(c)
      /\ files' = Put(Temp(c), NoFile)
      /\ crossed' = crossed \cup {d \in {c} : asked[c].kind = "append"}
      /\ asked' = asked /\ todo' = todo /\ outcome' = outcome /\ had' = had
  BY DEF TempExpires
<1>2. FileVarsOK /\ StepsFor(c)
  BY <1>1 DEF CallInv, StepsLeft
<1>3. asked[c] \in Asks /\ todo[c] # << >>
  BY <1>1, <1>2, StepPlaces
<1>4. /\ DOMAIN files = Places /\ todo' \in [FileCalls -> Seq(FileSteps)]
      /\ outcome' \in [FileCalls -> {"idle", "running", "done", "failed"}]
      /\ crossed \subseteq FileCalls
  BY <1>1, <1>2 DEF FileVarsOK
<1>5. /\ DOMAIN files' = Places
      /\ \A p \in Places : p # Temp(c) => files'[p] = files[p]
      /\ files'[Temp(c)] = NoFile
  <2>1. Temp(c) \in Places
    BY <1>3, TouchesPlaces
  <2> QED
    BY <1>1, <1>4, <2>1 DEF Put
<1>6. ASSUME c \notin crossed', had[c] \notin {NoFile, Torn}
      PROVE  Safe(c)'
  <2>1. asked[c].kind # "append" /\ c \notin crossed
    BY <1>1, <1>6
  <2>2. Safe(c)
    BY <1>3, <1>6, <2>1, NoFileAssumption DEF CallInv, AllSafe
  <2>3. /\ files'[asked[c].from] = files[asked[c].from]
        /\ files'[LandsAt(c, asked[c])] = files[LandsAt(c, asked[c])]
    BY <1>3, <1>5, <2>1, PlacesApart
  <2> QED
    BY <1>1, <1>5, <2>1, <2>2, <2>3 DEF Safe, Kept, Held, Running
<1>7. crossed \subseteq crossed' /\ crossed' \subseteq FileCalls
  BY <1>1, <1>4
<1>8. StepsFor(c)' /\ outcome'[c] # "idle"
  BY <1>1, <1>2 DEF StepsFor, Running
<1> QED
  BY <1>1, <1>3, <1>4, <1>5, <1>6, <1>7, <1>8, OneCallKeeps

(* The steps a call begins with.                                            *)
LEMMA FirstSteps ==
    ASSUME NEW c \in FileCalls, NEW r \in Asks, asked'[c] = r, todo'[c] = StepsOf(c, r)
    PROVE  StepsOf(c, r) \in Seq(FileSteps) /\ StepsOf(c, r) # << >> /\ StepsFor(c)'
<1>1. CASE r.kind # "append"
  BY <1>1, StepsOfFit DEF StepsFor
<1>2. CASE r.kind = "append" /\ r.from[1] = "local"
  <2> DEFINE a == [do |-> "append", from |-> r.from, to |-> r.from]
  <2>1. StepsOf(c, r) = <<a>> /\ a \in FileSteps
    BY <1>2, AppendSteps DEF FileSteps, Deeds
  <2>2. StepsFor(c)'
    BY <1>2, <2>1 DEF StepsFor
  <2> HIDE DEF a
  <2> QED
    BY <2>1, <2>2
<1>3. CASE r.kind = "append" /\ r.from[1] = "s3"
  <2> DEFINE o == [do |-> "open", from |-> Temp(c), to |-> Temp(c)]
             e == [do |-> "fill", from |-> r.from, to |-> Temp(c)]
             a == [do |-> "append", from |-> Temp(c), to |-> Temp(c)]
             p == [do |-> "put", from |-> Temp(c), to |-> r.from]
  <2>1. StepsOf(c, r) = <<o, e, a, p>>
    BY <1>3, AppendSteps
  <2>2. {o, e, a, p} \subseteq FileSteps
    BY <1>3, AppendSteps DEF FileSteps, Deeds
  <2>3. <<o, e, a, p>> \in S3Append(c, r)
    BY DEF S3Append
  <2>4. StepsFor(c)'
    BY <1>3, <2>1, <2>3 DEF StepsFor, S3Append
  <2> HIDE DEF o, e, a, p
  <2> QED
    BY <2>1, <2>2, <2>4
<1>4. CASE r.kind = "append" /\ r.from[1] = "ftp"
  <2> DEFINE f1 == [do |-> "find", from |-> r.from, to |-> r.from]
             f2 == [do |-> "enter", from |-> r.from, to |-> r.from]
             f3 == [do |-> "replace", from |-> r.from, to |-> r.from]
  <2>1. StepsOf(c, r) = <<f1, f2, f3>>
    BY <1>4, AppendSteps
  <2>2. {f1, f2, f3} \subseteq FileSteps
    BY <1>4, AppendSteps DEF FileSteps, Deeds
  <2>3. StepsFor(c)'
    BY <1>4, <2>1 DEF StepsFor
  <2> HIDE DEF f1, f2, f3
  <2> QED
    BY <2>1, <2>2, <2>3
<1>5. r.kind = "append" => r.from[1] \in {"local", "s3", "ftp"}
  BY AppendSteps
<1> QED
  BY <1>1, <1>2, <1>3, <1>4, <1>5

(* A call begins, for the first time or again, at places where no other one *)
(* may still go on unless it counts as crossed, and crosses all it meets.   *)
LEMMA CallBegins ==
    ASSUME CallInv, NEW c \in FileCalls, NEW r \in Asks, ~Running(c),
           asked' = [asked EXCEPT ![c] = r], asked[c] \in {r, NoFile},
           outcome' = [outcome EXCEPT ![c] = "running"],
           todo' = [todo EXCEPT ![c] = StepsOf(c, r)],
           files' = files, DOMAIN had' = FileCalls, \A e \in FileCalls \ {c} : had'[e] = had[e],
           crossed \cup Meets(c, r) \subseteq crossed', crossed' \subseteq FileCalls,
           c \notin crossed' => \A e \in Meets(c, r) : ~MayGoOn(e),
           c \notin crossed' /\ had'[c] \notin {NoFile, Torn} => Safe(c)'
    PROVE  CallInv'
<1>0. FileVarsOK /\ Apart /\ StepsLeft /\ AllSafe
  BY DEF CallInv
<1>1. /\ asked'[c] = r /\ outcome'[c] = "running" /\ todo'[c] = StepsOf(c, r)
      /\ \A e \in FileCalls \ {c} : asked'[e] = asked[e] /\ outcome'[e] = outcome[e] /\ todo'[e] = todo[e]
  BY <1>0 DEF FileVarsOK
<1>2. StepsOf(c, r) \in Seq(FileSteps) /\ StepsOf(c, r) # << >> /\ StepsFor(c)'
  BY <1>1, FirstSteps
<1>3. FileVarsOK'
  <2>1. /\ asked' \in [FileCalls -> Asks \cup {NoFile}]
        /\ outcome' \in [FileCalls -> {"idle", "running", "done", "failed"}]
        /\ todo' \in [FileCalls -> Seq(FileSteps)]
    BY <1>0, <1>2 DEF FileVarsOK
  <2>2. \A e \in FileCalls : (outcome'[e] = "idle") = (asked'[e] = NoFile)
    BY <1>0, <1>1, NoFileAssumption DEF FileVarsOK
  <2>3. \A e \in FileCalls : Running(e)' => todo'[e] # << >>
    BY <1>0, <1>1, <1>2 DEF FileVarsOK, Running
  <2> QED
    BY <1>0, <2>1, <2>2, <2>3 DEF FileVarsOK
<1>4. Apart'
  <2> SUFFICES ASSUME NEW d \in FileCalls \ crossed', NEW e \in FileCalls \ {d},
                      asked'[d] # NoFile, asked'[e] # NoFile,
                      Touches(e, asked'[e]) \cap Touches(d, asked'[d]) # {}
               PROVE  ~MayGoOn(e)'
    BY DEF Apart, Touches, LandsAt, Landing, Temp
  <2>1. CASE e = c
    <3>1. d \in Meets(c, r)
      BY <1>1, <2>1 DEF Meets
    <3> QED
      BY <3>1
  <2>2. CASE d = c
    <3>1. e \in Meets(c, r)
      BY <1>1, <2>2 DEF Meets
    <3>2. ~MayGoOn(e)
      BY <2>2, <3>1
    <3> QED
      BY <1>1, <2>2, <3>2 DEF MayGoOn, Running
  <2>3. CASE d # c /\ e # c
    <3>1. ~MayGoOn(e)
      BY <1>0, <1>1, <2>3 DEF Apart
    <3> QED
      BY <1>1, <2>3, <3>1 DEF MayGoOn, Running
  <2> QED
    BY <2>1, <2>2, <2>3
<1>5. StepsLeft'
  <2> SUFFICES ASSUME NEW e \in FileCalls, Running(e)'
               PROVE  StepsFor(e)'
    BY DEF StepsLeft
  <2>1. CASE e = c
    BY <1>2, <2>1
  <2>2. CASE e # c
    <3>1. asked'[e] = asked[e] /\ todo'[e] = todo[e] /\ outcome'[e] = outcome[e]
      BY <1>1, <2>2
    <3>2. StepsFor(e)
      BY <1>0, <3>1 DEF StepsLeft, Running
    <3> QED
      BY <3>1, <3>2 DEF StepsFor
  <2> QED
    BY <2>1, <2>2
<1>6. AllSafe'
  <2> SUFFICES ASSUME NEW e \in FileCalls \ crossed', asked'[e] # NoFile, had'[e] \notin {NoFile, Torn}
               PROVE  Safe(e)'
    BY DEF AllSafe, Torn, Content
  <2>1. CASE e = c
    BY <2>1
  <2>2. CASE e # c
    <3>1. /\ asked'[e] = asked[e] /\ todo'[e] = todo[e] /\ outcome'[e] = outcome[e] /\ had'[e] = had[e]
          /\ e \notin crossed
      BY <1>1, <2>2
    <3>2. Safe(e)
      BY <1>0, <3>1 DEF AllSafe
    <3>3. Kept(e, files)' = Kept(e, files)
      BY <1>1, <3>1 DEF Kept
    <3>4. Held(e, files, todo[e])' = Held(e, files, todo[e])
      BY <1>1, <3>1, <3>3 DEF Held
    <3>5. HeldAppend(e, files, todo[e])' = HeldAppend(e, files, todo[e])
      BY <1>1, <3>1 DEF HeldAppend, Appended
    <3> QED
      BY <1>1, <3>1, <3>2, <3>3, <3>4, <3>5 DEF Safe, Appended, Running
  <2> QED
    BY <2>1, <2>2
<1> QED
  BY <1>3, <1>4, <1>5, <1>6 DEF CallInv

(* A call is made: its content is at its source.                            *)
LEMMA InvokeKeeps ==
    ASSUME CallInv, NEW c \in FileCalls, NEW r \in Asks, Invoke(c, r)
    PROVE  CallInv'
<1>0. FileVarsOK
  BY DEF CallInv
<1>1. /\ outcome[c] = "idle"
      /\ outcome' = [outcome EXCEPT ![c] = "running"]
      /\ asked' = [asked EXCEPT ![c] = r]
      /\ todo' = [todo EXCEPT ![c] = StepsOf(c, r)]
      /\ had' = [had EXCEPT ![c] = files[r.from]]
      /\ crossed' = CrossedBy(c, r)
      /\ files' = files
  BY DEF Invoke
<1>2. ~Running(c) /\ asked[c] = NoFile
  BY <1>0, <1>1 DEF FileVarsOK, Running
<1>3. /\ crossed \cup Meets(c, r) \subseteq crossed' /\ crossed' \subseteq FileCalls
      /\ c \notin crossed' => \A e \in Meets(c, r) : ~MayGoOn(e)
  BY <1>0, <1>1 DEF CrossedBy, Meets, FileVarsOK
<1>4. /\ DOMAIN had' = FileCalls /\ \A e \in FileCalls \ {c} : had'[e] = had[e]
      /\ had'[c] = files[r.from]
      /\ asked'[c] = r /\ todo'[c] = StepsOf(c, r) /\ outcome'[c] = "running"
  BY <1>0, <1>1 DEF FileVarsOK
<1>5. Safe(c)'
  <2>1. CASE r.kind # "append"
    <3>1. /\ Roles(c, r, StepsOf(c, r)) \cap {"carry", "deliver"} # {}
          /\ "deliver" \in Roles(c, r, StepsOf(c, r)) => "fetch" \in Roles(c, r, StepsOf(c, r))
      BY <2>1, StepsOfFit DEF Ways
    <3>2. Kept(c, files)' /\ Held(c, files, todo[c])'
      BY <1>1, <1>4, <3>1 DEF Kept, Held
    <3> QED
      BY <1>4, <2>1, <3>2 DEF Safe
  <2>2. CASE r.kind = "append"
    <3>1. r.from[1] = "s3" => Len(StepsOf(c, r)) = 4
      BY <2>2, AppendSteps
    <3>2. HeldAppend(c, files, todo[c])'
      BY <1>1, <1>4, <3>1 DEF HeldAppend
    <3> QED
      BY <1>1, <1>4, <2>2, <3>2 DEF Safe
  <2> QED
    BY <2>1, <2>2
<1> QED
  BY <1>1, <1>2, <1>3, <1>4, <1>5, CallBegins

(* A job is delivered again: its content is where the failed one left it.   *)
LEMMA RedeliveredKeeps ==
    ASSUME CallInv, NEW c \in FileCalls, Redelivered(c)
    PROVE  CallInv'
<1> DEFINE r == asked[c]
<1>0. FileVarsOK /\ AllSafe
  BY DEF CallInv
<1>1. /\ outcome[c] = "failed" /\ IsJob(r)
      /\ outcome' = [outcome EXCEPT ![c] = "running"]
      /\ asked' = asked /\ had' = had /\ files' = files
      /\ todo' = [todo EXCEPT ![c] = StepsOf(c, r)]
      /\ crossed' = CrossedBy(c, r) \cup {d \in {c} : Meets(c, r) # {}}
  BY DEF Redelivered
<1>2. ~Running(c) /\ r \in Asks /\ r # NoFile /\ r.kind # "append"
  <2>1. ~Running(c) /\ r \in Asks
    BY <1>0, <1>1 DEF FileVarsOK, Running
  <2> QED
    BY <1>1, <2>1, NoFileAssumption DEF IsJob
<1>3. /\ crossed \cup Meets(c, r) \subseteq crossed' /\ crossed' \subseteq FileCalls
      /\ c \notin crossed' => \A e \in Meets(c, r) : ~MayGoOn(e)
  BY <1>0, <1>1 DEF CrossedBy, Meets, FileVarsOK
<1>4. /\ DOMAIN had' = FileCalls /\ \A e \in FileCalls \ {c} : had'[e] = had[e]
      /\ asked' = [asked EXCEPT ![c] = r]
      /\ todo'[c] = StepsOf(c, r) /\ outcome'[c] = "running"
  BY <1>0, <1>1 DEF FileVarsOK
<1>5. ASSUME c \notin crossed', had'[c] \notin {NoFile, Torn}
      PROVE  Safe(c)'
  <2>1. Safe(c)
    BY <1>0, <1>1, <1>2, <1>3, <1>5 DEF AllSafe
  <2>2. Roles(c, r, StepsOf(c, r)) = {"carry"}
    BY <1>1, <1>2, StepsOfFit
  <2>3. Kept(c, files)' /\ Held(c, files, todo[c])'
    <3>1. Kept(c, files)
      BY <1>2, <2>1 DEF Safe
    <3>2. Kept(c, files)'
      BY <1>1, <3>1 DEF Kept
    <3>3. Roles(c, asked'[c], todo'[c]) = {"carry"}
      BY <1>1, <1>4, <2>2
    <3>4. /\ Roles(c, asked'[c], todo'[c]) \cap {"carry", "deliver"} # {}
          /\ "deliver" \notin Roles(c, asked'[c], todo'[c])
      BY <3>3
    <3> QED
      BY <3>2, <3>4 DEF Held
  <2> QED
    BY <1>1, <1>2, <1>4, <2>3 DEF Safe
<1> HIDE DEF r
<1>6. asked[c] \in {r, NoFile}
  BY DEF r
<1> QED
  BY <1>1, <1>2, <1>3, <1>4, <1>5, <1>6, CallBegins

(* The process dies: every call under way has failed.                       *)
LEMMA CrashKeeps ==
    ASSUME CallInv, Crash
    PROVE  CallInv'
<1>0. FileVarsOK /\ Apart /\ AllSafe
  BY DEF CallInv
<1>1. /\ outcome' = [c \in FileCalls |-> IF Running(c) THEN "failed" ELSE outcome[c]]
      /\ todo' = [c \in FileCalls |-> << >>]
      /\ files' = files /\ asked' = asked /\ had' = had /\ crossed' = crossed
  BY DEF Crash
<1>2. \A c \in FileCalls : ~Running(c)' /\ (outcome'[c] = outcome[c] \/ (Running(c) /\ outcome'[c] = "failed"))
  BY <1>1 DEF Running
<1>3. FileVarsOK'
  <2>1. todo' \in [FileCalls -> Seq(FileSteps)]
    BY <1>1
  <2>2. outcome' \in [FileCalls -> {"idle", "running", "done", "failed"}]
    BY <1>0, <1>1 DEF FileVarsOK
  <2> QED
    BY <1>0, <1>1, <1>2, <2>1, <2>2 DEF FileVarsOK, Running
<1>4. Apart'
  <2>1. \A e \in FileCalls : MayGoOn(e)' => MayGoOn(e)
    BY <1>1, <1>2 DEF MayGoOn, Running
  <2> QED
    BY <1>0, <1>1, <2>1 DEF Apart, Touches
<1>5. StepsLeft'
  BY <1>2 DEF StepsLeft
<1>6. AllSafe'
  <2> SUFFICES ASSUME NEW e \in FileCalls \ crossed, asked[e] # NoFile, had[e] \notin {NoFile, Torn}
               PROVE  Safe(e)'
    BY <1>1 DEF AllSafe, Torn, Content
  <2>1. Safe(e)
    BY <1>0 DEF AllSafe
  <2>2. asked[e].kind = "append" /\ Running(e) /\ asked[e].from[1] # "ftp" => files[asked[e].from] = had[e]
    BY <2>1 DEF Safe, HeldAppend
  <2> QED
    BY <1>1, <1>2, <2>1, <2>2 DEF Safe, Kept, Appended, Running
<1> QED
  BY <1>3, <1>4, <1>5, <1>6 DEF CallInv

(* Each step keeps the invariant.                                           *)
LEMMA CallInvNext == CallInv /\ [FilesNext]_storeVars => CallInv'
<1> SUFFICES ASSUME CallInv, [FilesNext]_storeVars
             PROVE  CallInv'
  OBVIOUS
<1>1. CASE UNCHANGED <<files, asked, todo, outcome, had, crossed>>
  <2>1. FileVarsOK' /\ Apart'
    BY <1>1 DEF CallInv, FileVarsOK, Apart, MayGoOn, Running, Touches
  <2>2. StepsLeft'
    BY <1>1 DEF CallInv, StepsLeft, StepsFor, Running
  <2>3. AllSafe'
    <3>1. \A c \in FileCalls : Safe(c) => Safe(c)'
      <4> SUFFICES ASSUME NEW c \in FileCalls, Safe(c)
                   PROVE  Safe(c)'
        OBVIOUS
      <4>1. Kept(c, files)' = Kept(c, files)
        BY <1>1 DEF Kept
      <4>2. Held(c, files, todo[c])' = Held(c, files, todo[c])
        BY <1>1, <4>1 DEF Held
      <4>3. HeldAppend(c, files, todo[c])' = HeldAppend(c, files, todo[c])
        BY <1>1 DEF HeldAppend, Appended
      <4> QED
        BY <1>1, <4>1, <4>2, <4>3 DEF Safe, Appended, Running
    <3> QED
      BY <1>1, <3>1 DEF CallInv, AllSafe, Torn, Content
  <2> QED
    BY <2>1, <2>2, <2>3 DEF CallInv
<1>2. CASE UNCHANGED storeVars
  BY <1>1, <1>2 DEF storeVars
<1>3. CASE Collide
  BY <1>1, <1>3 DEF Collide
<1> QED
  BY <1>2, <1>3, InvokeKeeps, ProceedsKeeps, FailsKeeps, TempExpiresKeeps, RedeliveredKeeps, CrashKeeps
     DEF FilesNext

(* No call has been made at first.                                          *)
LEMMA CallInvInit == FilesInit => CallInv
<1> SUFFICES ASSUME FilesInit
             PROVE  CallInv
  OBVIOUS
<1>1. /\ DOMAIN files = Places /\ asked = [c \in FileCalls |-> NoFile]
      /\ todo = [c \in FileCalls |-> << >>] /\ outcome = [c \in FileCalls |-> "idle"]
      /\ DOMAIN had = FileCalls /\ crossed = {}
  BY DEF FilesInit
<1>2. FileVarsOK
  <2>1. todo \in [FileCalls -> Seq(FileSteps)]
    BY <1>1
  <2> QED
    BY <1>1, <2>1 DEF FileVarsOK, Running
<1> QED
  BY <1>1, <1>2 DEF CallInv, Apart, StepsLeft, AllSafe, Running

(* A call that shares no place with another never loses a file, for any     *)
(* number of calls however they overlap, fail, lose answers, expire, are    *)
(* done again or die with the process.                                      *)
THEOREM FilesKept == FilesSpec => []NothingLost
<1>1. CallInv => NothingLost
  <2> SUFFICES ASSUME CallInv, NEW c \in FileCalls, asked[c] # NoFile, c \notin crossed,
                      had[c] \notin {NoFile, Torn}
               PROVE  LET r == asked[c]
                          there == LandsAt(c, r)
                          appended == [had[c] EXCEPT !.plus = @ \cup {c}]
                      IN IF r.kind = "append"
                         THEN r.from[1] # "ftp" =>
                                /\ files[r.from] \in {had[c], appended}
                                /\ outcome[c] = "done" => files[r.from] = appended
                         ELSE /\ had[c] \in {files[r.from], files[there]}
                              /\ outcome[c] = "done" => files[there] = had[c]
                              /\ outcome[c] = "done" /\ r.kind \in {"copy", "job"} => files[r.from] = had[c]
    BY DEF NothingLost
  <2>1. Safe(c)
    BY DEF CallInv, AllSafe
  <2> QED
    BY <2>1 DEF Safe, Kept, Appended
<1> QED
  BY <1>1, CallInvInit, CallInvNext, PTL DEF FilesSpec
==============================================================================
