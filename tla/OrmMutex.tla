------------------------------ MODULE OrmMutex ------------------------------
(***************************************************************************)
(* OrmMutex of packages/orm-threading, for one mutex name: a row of the    *)
(* table __mutex__ that processes of several tenants read and write.  Each *)
(* query is one step of the database; between two queries of an operation  *)
(* other processes run.                                                    *)
(***************************************************************************)
EXTENDS Naturals, FiniteSets

CONSTANTS
    Procs,    \* the processes that use the mutex
    Tenants,  \* who they lock it for (options.Tenant, else the app name)
    Tenant,   \* Tenant[p]: the tenant of process p
    None      \* no row

ASSUME MutexAssumption == Tenant \in [Procs -> Tenants]

Rows == [tenant : Tenants, locked : BOOLEAN]
LockedRows == {r \in Rows : r.locked}

ASSUME NoRowAssumption == None \notin Rows

VARIABLES
    row,     \* the row of the mutex, or None
    pc,      \* the next query of the operation each process is in
    seen,    \* the row its operation read
    got,     \* what the last acquire of each process returned as Locked
    holders, \* history: the tenants told Locked = true that did not give it back
    raced    \* history: an acquire has updated a row that changed since it was read

mutexVars == <<row, pc, seen, got, holders, raced>>

Init ==
    /\ row = None
    /\ pc = [p \in Procs |-> "idle"]
    /\ seen = [p \in Procs |-> None]
    /\ got = [p \in Procs |-> FALSE]
    /\ holders = {}
    /\ raced = FALSE

Goto(p, l) == pc' = [pc EXCEPT ![p] = l]

(* Mutant: acquire does not look at the row it has read.                    *)
TakenNever(p, r) == FALSE

(* mutex.Locked && mutex.Tenant !== _tenant                                 *)
Taken(p, r) == r.locked /\ r.tenant # Tenant[p]

(* What acquire does with the row r it has read.                            *)
Judge(p, r) ==
    /\ seen' = [seen EXCEPT ![p] = r]
    /\ got' = [got EXCEPT ![p] = FALSE]
    /\ Goto(p, IF Taken(p, r) THEN "idle" ELSE "update")

(* acquire: the get of the mutex.                                           *)
AcquireGet(p) ==
    /\ pc[p] = "idle"
    /\ IF row = None THEN Goto(p, "create") /\ UNCHANGED <<seen, got>> ELSE Judge(p, row)
    /\ UNCHANGED <<row, holders, raced>>

(* getOrCreate reads again ...                                              *)
AcquireCreateGet(p) ==
    /\ pc[p] = "create"
    /\ IF row = None THEN Goto(p, "insert") /\ UNCHANGED <<seen, got>> ELSE Judge(p, row)
    /\ UNCHANGED <<row, holders, raced>>

(* ... and inserts.  Name is unique: of two inserts the second throws.      *)
Insert(p) ==
    /\ row' = IF row = None THEN [tenant |-> Tenant[p], locked |-> FALSE] ELSE row
    /\ UNCHANGED <<holders, raced>>

AcquireInsert(p) ==
    /\ pc[p] = "insert"
    /\ Insert(p)
    /\ IF row = None THEN Judge(p, row')
       ELSE Goto(p, "idle") /\ got' = [got EXCEPT ![p] = FALSE] /\ UNCHANGED seen

(* The update, WHERE Name only; Locked says whether a row was affected.     *)
AcquireUpdate(p) ==
    /\ pc[p] = "update"
    /\ row' = IF row = None THEN None ELSE [tenant |-> Tenant[p], locked |-> TRUE]
    /\ got' = [got EXCEPT ![p] = row # None]
    /\ holders' = IF row = None THEN holders ELSE holders \cup {Tenant[p]}
    /\ raced' = (raced \/ row \notin {seen[p], None})
    /\ Goto(p, "idle")
    /\ UNCHANGED seen

(* The tenant gives the mutex back, or believes so.                         *)
GiveUp(p) ==
    /\ pc[p] = "idle"
    /\ holders' = holders \ {Tenant[p]}
    /\ got' = [got EXCEPT ![p] = FALSE]
    /\ UNCHANGED <<pc, seen, raced>>

OwnRow(p) == row # None /\ row.tenant = Tenant[p]

(* Mutant: release updates WHERE Name and forgets the tenant.               *)
ReleaseAnyRow(p) ==
    /\ GiveUp(p)
    /\ row' = IF row # None THEN [row EXCEPT !.locked = FALSE] ELSE row

(* release(options): WHERE Name and Tenant.                                 *)
Release(p) ==
    /\ GiveUp(p)
    /\ row' = IF OwnRow(p) THEN [row EXCEPT !.locked = FALSE] ELSE row

(* release(options, true), and delete(options): the same query.             *)
Destroy(p) == row' = IF OwnRow(p) THEN None ELSE row

ReleaseDelete(p) == got[p] /\ GiveUp(p) /\ Destroy(p)
Delete(p) == GiveUp(p) /\ Destroy(p)

(* create(options): getOrCreate, without locking.                           *)
CreateGet(p) ==
    /\ pc[p] = "idle"
    /\ row = None
    /\ Goto(p, "createInsert")
    /\ UNCHANGED <<row, seen, got, holders, raced>>

CreateInsert(p) ==
    /\ pc[p] = "createInsert"
    /\ Insert(p)
    /\ Goto(p, "idle")
    /\ UNCHANGED <<seen, got>>

(* wait(name, timeout): the interval polls.                                 *)
Wait(p) ==
    /\ pc[p] = "idle"
    /\ Goto(p, "polling")
    /\ UNCHANGED <<row, seen, got, holders, raced>>

(* Free: resolved.  No row: the handler throws on it and wait rejects.      *)
PollEnds(p) == row \notin LockedRows

(* Mutant: a timeout is looked at only when the mutex is free.              *)
TimeoutWhenFree(p) == PollEnds(p)

(* Locked: the answer is false once the timeout has passed, which it does   *)
(* in some poll.                                                            *)
TimeoutPasses(p) == row \in LockedRows

WaitReturns(p) ==
    /\ pc[p] = "polling"
    /\ PollEnds(p)
    /\ Goto(p, "idle")
    /\ UNCHANGED <<row, seen, got, holders, raced>>

WaitTimesOut(p) ==
    /\ pc[p] = "polling"
    /\ TimeoutPasses(p)
    /\ Goto(p, "idle")
    /\ UNCHANGED <<row, seen, got, holders, raced>>

Acquiring(p) ==
    AcquireGet(p) \/ AcquireCreateGet(p) \/ AcquireInsert(p) \/ AcquireUpdate(p)

Operation(p) ==
    \/ Acquiring(p)
    \/ Release(p) \/ ReleaseDelete(p) \/ Delete(p)
    \/ CreateGet(p) \/ CreateInsert(p)
    \/ Wait(p) \/ WaitReturns(p) \/ WaitTimesOut(p)

Next == \E p \in Procs : Operation(p)

Spec == Init /\ [][Next]_mutexVars

(* Queries are answered and the interval of a wait with a timeout fires.    *)
Fairness ==
    \A p \in Procs :
        /\ WF_mutexVars(AcquireCreateGet(p) \/ AcquireInsert(p) \/ AcquireUpdate(p))
        /\ WF_mutexVars(CreateInsert(p))
        /\ WF_mutexVars(WaitReturns(p) \/ WaitTimesOut(p))

FairSpec == Spec /\ Fairness
-----------------------------------------------------------------------------
TypeOK ==
    /\ row \in Rows \cup {None}
    /\ pc \in [Procs -> {"idle", "create", "insert", "update", "createInsert", "polling"}]
    /\ seen \in [Procs -> Rows \cup {None}]
    /\ got \in [Procs -> BOOLEAN]
    /\ holders \subseteq Tenants
    /\ raced \in BOOLEAN

LockedHasHolder == row # None /\ row.locked => row.tenant \in holders
HolderIsLocked ==
    ~raced => \A t \in holders : row # None /\ row.locked /\ row.tenant = t

(* A locked row names a tenant that was told it holds the mutex and did not *)
(* give it back: no order of the queries leaves a lock nobody releases; and *)
(* a holder whose grant was never raced is the tenant of a locked row: the  *)
(* others' acquires see it, and nobody else can unlock or delete it.        *)
LockMatchesHolder == LockedHasHolder /\ HolderIsLocked

(* Two tenants hold the mutex at once only if some acquire has updated a    *)
(* row that changed after it read it; that is the only race of the table.   *)
ExclusiveUnlessRaced == ~raced => Cardinality(holders) <= 1

(* A wait with a timeout always comes back.                                 *)
WaitEnds == \A p \in Procs : pc[p] = "polling" ~> pc[p] = "idle"

(* mutex.ts says of LockResult.Locked: "True if lock is granted, False      *)
(* otherwise": it is granted to one tenant at a time.                       *)
GrantedToOne == Cardinality(holders) <= 1
==============================================================================
