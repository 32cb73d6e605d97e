--------------------------- MODULE DiInstanceCheck ---------------------------
(***************************************************************************)
(* A @PerInstanceCheck service in one container (packages/di): the cached  *)
(* instance is asked, by __checkInstance__, whether it has the options of  *)
(* the request.  Queue connections, file systems, log targets and mail     *)
(* senders are resolved this way, each under a configured name.            *)
(***************************************************************************)
EXTENDS Naturals, FiniteSets

CONSTANTS
    Names,      \* the names in the creation options
    Callers,    \* pieces of application code that resolve the service
    NoService,  \* undefined
    MaxBuilt    \* bound: constructions of the service

Services == [n : 1..MaxBuilt, name : Names]

ASSUME CheckAssumption == MaxBuilt \in Nat /\ NoService \notin Names \cup Services

VARIABLES
    cached,   \* the instance in the cache of the container, or NoService
    pending,  \* the instance of the running creation in resolutionPromises
    phase,    \* what became of every instance
    built,    \* constructions so far
    call,     \* what each caller asked for and got
    shared    \* history: instances given out from the cache

checkVars == <<cached, pending, phase, built, call, shared>>

Calls == [st : {"idle", "waiting", "got", "failed"},
          name : Names \cup {NoService}, id : Services \cup {NoService}]

CheckInit ==
    /\ cached = NoService
    /\ pending = NoService
    /\ phase = [i \in Services |-> "none"]
    /\ built = 0
    /\ call = [p \in Callers |-> [st |-> "idle", name |-> NoService, id |-> NoService]]
    /\ shared = {}

-----------------------------------------------------------------------------
Waits(p, name, i) == call' = [call EXCEPT ![p] = [st |-> "waiting", name |-> name, id |-> i]]

(* The factory: a new instance whose resolve() is started.                  *)
Create(p, name, i) ==
    /\ built < MaxBuilt
    /\ i = [n |-> built + 1, name |-> name]
    /\ built' = built + 1
    /\ phase' = [phase EXCEPT ![i] = "resolving"]
    /\ Waits(p, name, i)

(* Mutant: the first cached instance is answered whatever its options.      *)
FoundAlways(name) == cached # NoService

(* cached.find(x => x.__checkInstance__(options)).                          *)
Found(name) == cached # NoService /\ cached.name = name

(* getOrCreate finds the instance with these options.                       *)
ResolveFound(p, name) ==
    /\ call[p].st = "idle"
    /\ Found(name)
    /\ call' = [call EXCEPT ![p] = [st |-> "got", name |-> name, id |-> cached]]
    /\ shared' = shared \cup {cached}
    /\ UNCHANGED <<cached, pending, phase, built>>

(* It is cached with other options: a new one is made beside the cache.     *)
ResolveBeside(p, name) ==
    /\ call[p].st = "idle"
    /\ cached # NoService
    /\ ~Found(name)
    /\ \E i \in Services : Create(p, name, i)
    /\ UNCHANGED <<cached, pending, shared>>

(* Nothing cached: a running creation is joined, whatever its options.      *)
ResolveJoins(p, name) ==
    /\ call[p].st = "idle"
    /\ cached = NoService
    /\ pending # NoService
    /\ Waits(p, name, pending)
    /\ UNCHANGED <<cached, pending, phase, built, shared>>

ResolveCreates(p, name) ==
    /\ call[p].st = "idle"
    /\ cached = NoService
    /\ pending = NoService
    /\ \E i \in Services : Create(p, name, i) /\ pending' = i
    /\ UNCHANGED <<cached, shared>>

(* Mutant: the catch of getOrCreate leaves the promise of the failure.      *)
SettleKeepsFailed(i) ==
    pending' = IF pending = i /\ phase'[i] = "done" THEN NoService ELSE pending

(* Both continuations of getOrCreate delete the entry of their key.         *)
Settle(i) == pending' = IF pending = i THEN NoService ELSE pending

(* The resolve() of an instance ends.  Only one made through the            *)
(* resolutionPromises is offered to the cache.                              *)
Resolved(i) ==
    /\ phase[i] = "resolving"
    /\ phase' = [phase EXCEPT ![i] = "done"]
    /\ Settle(i)
    /\ cached' = IF pending = i THEN i ELSE cached
    /\ UNCHANGED <<built, call, shared>>

ResolveFails(i) ==
    /\ phase[i] = "resolving"
    /\ phase' = [phase EXCEPT ![i] = "failed"]
    /\ Settle(i)
    /\ UNCHANGED <<cached, built, call, shared>>

(* The promise a caller awaits settles.                                     *)
CallerGets(p) ==
    /\ call[p].st = "waiting"
    /\ phase[call[p].id] = "done"
    /\ call' = [call EXCEPT ![p].st = "got"]
    /\ UNCHANGED <<cached, pending, phase, built, shared>>

CallerFails(p) ==
    /\ call[p].st = "waiting"
    /\ phase[call[p].id] = "failed"
    /\ call' = [call EXCEPT ![p].st = "failed"]
    /\ UNCHANGED <<cached, pending, phase, built, shared>>

CheckNext ==
    \/ \E p \in Callers, name \in Names :
          \/ ResolveFound(p, name)
          \/ ResolveBeside(p, name)
          \/ ResolveJoins(p, name)
          \/ ResolveCreates(p, name)
    \/ \E i \in Services : Resolved(i) \/ ResolveFails(i)
    \/ \E p \in Callers : CallerGets(p) \/ CallerFails(p)

CheckSpec == CheckInit /\ [][CheckNext]_checkVars
-----------------------------------------------------------------------------
CheckTypeOK ==
    /\ cached \in Services \cup {NoService}
    /\ pending \in Services \cup {NoService}
    /\ phase \in [Services -> {"none", "resolving", "done", "failed"}]
    /\ built \in 0..MaxBuilt
    /\ call \in [Callers -> Calls]
    /\ shared \subseteq Services

(* A running creation is never offered beside a cached instance, so the     *)
(* cache is filled once and its instance is the only one shared by name.    *)
CacheFilledOnce ==
    /\ cached # NoService => pending = NoService /\ phase[cached] = "done"
    /\ pending # NoService => phase[pending] = "resolving"
    /\ shared \subseteq {cached}

(* Once an instance is cached, whoever asks afterwards gets one that has    *)
(* the options asked for, the cached one or one made beside the cache.      *)
LateCallersGetTheirs ==
    [][\A p \in Callers :
         cached # NoService /\ call[p].st = "idle" /\ call'[p].st # "idle"
         => call'[p].id.name = call'[p].name]_checkVars
==============================================================================
