--------------------------- MODULE CriticalSection ---------------------------
(***************************************************************************)
(* criticalSection(name, callback) of packages/threading, for one name.    *)
(* A call reads the promise registered under the name, awaits it, starts   *)
(* its callback and then registers the promise of that callback.           *)
(***************************************************************************)
EXTENDS Naturals, FiniteSets

CONSTANTS
    Calls,     \* the calls of criticalSection with this name
    SyncThrow, \* the calls whose callback throws before it returns a promise
    NoCall     \* the resolved promise a section starts from

ASSUME SectionAssumption == SyncThrow \subseteq Calls /\ NoCall \notin Calls

VARIABLES
    entry,     \* the call whose callback is registered under the name, or NoCall
    stage,     \* where each call is
    awaited,   \* the promise a call found registered
    callback   \* the promise of each call's callback

sectionVars == <<entry, stage, awaited, callback>>

SectionInit ==
    /\ entry = NoCall
    /\ stage = [k \in Calls |-> "idle"]
    /\ awaited = [k \in Calls |-> NoCall]
    /\ callback = [k \in Calls |-> "none"]

Settled(k) == k \in {NoCall} \cup {j \in Calls : callback[j] = "fulfilled"}
Broken(k) == k \in {j \in Calls : callback[j] = "rejected"}

(* Mutant: the section is registered before the wait for it.                *)
CallRegistersFirst(k) ==
    /\ stage[k] = "idle"
    /\ stage' = [stage EXCEPT ![k] = "waiting"]
    /\ awaited' = [awaited EXCEPT ![k] = k]
    /\ UNCHANGED <<entry, callback>>

(* criticalSection() up to its await.                                       *)
Call(k) ==
    /\ stage[k] = "idle"
    /\ stage' = [stage EXCEPT ![k] = "waiting"]
    /\ awaited' = [awaited EXCEPT ![k] = entry]
    /\ UNCHANGED <<entry, callback>>

(* After the await: the callback starts and its promise is registered.      *)
Enter(k) ==
    /\ stage[k] = "waiting"
    /\ Settled(awaited[k])
    /\ k \notin SyncThrow
    /\ stage' = [stage EXCEPT ![k] = "inside"]
    /\ callback' = [callback EXCEPT ![k] = "pending"]
    /\ entry' = k
    /\ UNCHANGED awaited

(* The callback throws at once: the catch registers a resolved promise      *)
(* first, and the rejected one replaces it.                                 *)
EnterThrows(k) ==
    /\ stage[k] = "waiting"
    /\ Settled(awaited[k])
    /\ k \in SyncThrow
    /\ stage' = [stage EXCEPT ![k] = "left"]
    /\ callback' = [callback EXCEPT ![k] = "rejected"]
    /\ entry' = k
    /\ UNCHANGED awaited

(* The awaited promise rejects: so does the call, its callback never runs.  *)
Refused(k) ==
    /\ stage[k] = "waiting"
    /\ Broken(awaited[k])
    /\ stage' = [stage EXCEPT ![k] = "refused"]
    /\ UNCHANGED <<entry, awaited, callback>>

(* The callback's promise is fulfilled.                                     *)
Leave(k) ==
    /\ stage[k] = "inside"
    /\ stage' = [stage EXCEPT ![k] = "left"]
    /\ callback' = [callback EXCEPT ![k] = "fulfilled"]
    /\ UNCHANGED <<entry, awaited>>

(* Mutant: the catch only rethrows.                                         *)
ReleaseNothing(k) == UNCHANGED entry

(* DI.register(Promise.resolve()): whatever is registered is replaced.      *)
ReleaseSection(k) == entry' = NoCall

(* It rejects.                                                              *)
LeaveFailing(k) ==
    /\ stage[k] = "inside"
    /\ stage' = [stage EXCEPT ![k] = "left"]
    /\ callback' = [callback EXCEPT ![k] = "rejected"]
    /\ ReleaseSection(k)
    /\ UNCHANGED awaited

SectionNext ==
    \E k \in Calls :
        Call(k) \/ Enter(k) \/ EnterThrows(k) \/ Refused(k) \/ Leave(k) \/ LeaveFailing(k)

SectionSpec == SectionInit /\ [][SectionNext]_sectionVars

(* Promise jobs run, and callbacks end.                                     *)
SectionFairness ==
    \A k \in Calls :
        WF_sectionVars(Enter(k) \/ EnterThrows(k) \/ Refused(k) \/ Leave(k) \/ LeaveFailing(k))

-----------------------------------------------------------------------------
SectionTypeOK ==
    /\ entry \in Calls \cup {NoCall}
    /\ stage \in [Calls -> {"idle", "waiting", "inside", "left", "refused"}]
    /\ awaited \in [Calls -> Calls \cup {NoCall}]
    /\ callback \in [Calls -> {"none", "pending", "fulfilled", "rejected"}]

(* The code releases the section before it rethrows the error of a          *)
(* callback: however calls overlap, a section is never left registered to   *)
(* a callback that failed, which would refuse every later call.             *)
NeverPoisoned == ~Broken(entry)

(* Every call gets its turn, or is refused by the failure of the one it     *)
(* waited for: the waits never form a circle.                               *)
EveryCallEnds == \A k \in Calls : stage[k] = "waiting" ~> stage[k] \in {"left", "refused"}

(* The comment on criticalSection: "it allows to only one instance of       *)
(* callback executed at once in nodejs current thread".                     *)
MutualExclusion == Cardinality({k \in Calls : stage[k] = "inside"}) <= 1
==============================================================================
