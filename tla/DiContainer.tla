----------------------------- MODULE DiContainer -----------------------------
(***************************************************************************)
(* The dependency injection container of packages/di: resolution of        *)
(* singleton services in a tree of containers, with asynchronous creation, *)
(* failing services, clearing and disposal.                                *)
(*                                                                         *)
(* JavaScript runs one job to completion, so an action is everything a     *)
(* call does up to its first await: Resolve in particular starts the whole *)
(* tree of missing dependencies.  A promise is named by the instance whose *)
(* creation will settle it.                                                *)
(***************************************************************************)
EXTENDS Naturals, Sequences, FiniteSets

CONSTANTS
    Containers,  \* the containers of the tree
    Line,        \* Line[c] = <<c, parent of c, ..., root>>
    Types,       \* the service classes, which are also the cache keys
    Deps,        \* Deps[t]: the types injected into t (@Inject, @Autoinject)
    Late,        \* Late[t]: the types t resolves itself, inside its resolve()
    Async,       \* the types that extend AsyncService
    PerChild,    \* the types declared @PerChildInstance
    Callers,     \* pieces of application code that call resolve()
    None,        \* undefined
    MaxMade,     \* bound: constructions of one type in one container
    MaxClears    \* bound: clearCache()/dispose() of one container

(* An instance is identified by where it was made, its type and a number.  *)
Ids == [c : Containers, t : Types, n : 1..MaxMade]

ASSUME DiAssumption ==
    /\ Line \in [Containers -> Seq(Containers)]
    /\ \A c \in Containers : Len(Line[c]) > 0 /\ Line[c][1] = c
    /\ Deps \in [Types -> SUBSET Types]
    /\ \A S \in SUBSET Types : S # {} => \E t \in S : Deps[t] \cap S = {}
    /\ Late \in [Types -> SUBSET Types]
    /\ Async \subseteq Types
    /\ PerChild \subseteq Types
    /\ None \notin Ids
    /\ MaxMade \in Nat
    /\ MaxClears \in Nat

VARIABLES
    cache,        \* cache[c][t]: the instance cached under t, or None
    promise,      \* resolutionPromises of each container's cache
    creatingKeys, \* creatingKeys of each container's cache
    made,         \* made[c][t]: how many t were constructed in c
    phase,        \* how far the creation of each instance is
    uses,         \* the promises and instances a creation asked for
    value,        \* what the promise of a creation was fulfilled with
    call,         \* what each caller is doing
    disposing,    \* the containers whose dispose() is running
    attached,     \* attached[c]: children of c (Container.children)
    disposed,     \* the instances whose dispose() was called
    published,    \* history: instances handed out under c, t since the last clear
    clears,       \* history: number of clears of each container
    before        \* history: what made[c] was at the last clear of c

cacheVars   == <<cache, promise, creatingKeys>>
buildVars   == <<made, phase, uses, value>>
disposeVars == <<disposing, attached, disposed>>
ghostVars   == <<published, clears, before>>
vars == <<cacheVars, buildVars, call, disposeVars, ghostVars>>

Phases == {"none", "deps", "resolving", "settling", "done", "failed"}
InFlight == {i \in Ids : phase[i] \in {"deps", "resolving", "settling"}}

Idle == [st |-> "idle", c |-> None, t |-> None, id |-> None]
CallState ==
    {Idle} \cup [st : {"waiting"}, c : Containers, t : Types, id : Ids]
           \cup [st : {"got", "failed"}, c : Containers, t : Types, id : Ids \cup {None}]

ChildrenOf(c) == {d \in Containers : Len(Line[d]) > 1 /\ Line[d][2] = c}

(* d is c, or reached from c through Container.children.                    *)
InTreeOf(c, d) ==
    \E k \in DOMAIN Line[d] :
        /\ Line[d][k] = c
        /\ \A l \in 1..(k - 1) : Line[d][l] \in attached[Line[d][l + 1]]

Init ==
    /\ cache = [c \in Containers |-> [t \in Types |-> None]]
    /\ promise = [c \in Containers |-> [t \in Types |-> None]]
    /\ creatingKeys = [c \in Containers |-> {}]
    /\ made = [c \in Containers |-> [t \in Types |-> 0]]
    /\ phase = [i \in Ids |-> "none"]
    /\ uses = [i \in Ids |-> {}]
    /\ value = [i \in Ids |-> None]
    /\ call = [p \in Callers |-> Idle]
    /\ disposing = {}
    /\ attached = [c \in Containers |-> ChildrenOf(c)]
    /\ disposed = {}
    /\ published = [c \in Containers |-> [t \in Types |-> {}]]
    /\ clears = [c \in Containers |-> 0]
    /\ before = [c \in Containers |-> [t \in Types |-> 0]]

-----------------------------------------------------------------------------
(* Lookup: ContainerCache.has and get, with the parent walk switched off   *)
(* for @PerChildInstance types.                                            *)

Search(c, t) == IF t \in PerChild THEN {1} ELSE DOMAIN Line[c]

Holders(c, t) == {k \in Search(c, t) : cache[Line[c][k]][t] # None}
Has(c, t) == Holders(c, t) # {}
Nearest(c, t) == CHOOSE k \in Holders(c, t) : \A l \in Holders(c, t) : k <= l
Get(c, t) == cache[Line[c][Nearest(c, t)]][t]

Pending(c) == {t \in Types : ~Has(c, t) /\ promise[c][t] # None}

\* Mutant: getOrCreate without the look at resolutionPromises.
MissingIgnoresPromise(c) == {t \in Types : ~Has(c, t)}

Missing(c) == {t \in Types : ~Has(c, t) /\ promise[c][t] = None}

(* Everything one synchronous call for roots starts creating in c: the      *)
(* missing types reached from roots through missing dependencies.           *)
Started(c, roots) ==
    {u \in Missing(c) : \A X \in SUBSET Missing(c) :
        (/\ roots \cap Missing(c) \subseteq X
         /\ \A v \in X : Deps[v] \cap Missing(c) \subseteq X) => u \in X}

(* A creation is a promise if something below it is one.                    *)
GoesAsync(c, u) ==
    \E v \in Started(c, {u}) : v \in Async \/ Deps[v] \cap Pending(c) # {}

NewId(c, u) == [c |-> c, t |-> u, n |-> made[c][u] + 1]

(* What resolve(d) evaluates to: a cached instance or a promise for one.    *)
Handle(c, d) ==
    IF Has(c, d) THEN Get(c, d)
    ELSE IF promise[c][d] # None THEN promise[c][d] ELSE NewId(c, d)

(* Whether the injections of u are at hand, so that its factory constructs  *)
(* at once, or must be awaited first.                                       *)
FirstPhase(c, u, later) ==
    IF \E d \in Deps[u] : d \in Pending(c) \cup later THEN "deps"
    ELSE "resolving"

(* getOrCreate for every root in c, the creations it starts included.  who  *)
(* is the creation that asks from inside its own resolve(), or None.        *)
Launch(c, roots, who) ==
    LET started == Started(c, roots)
        later   == {u \in started : GoesAsync(c, u)}
        atOnce  == started \ later
        fresh   == {NewId(c, u) : u \in started}
    IN  /\ \A u \in started : made[c][u] < MaxMade
        /\ made' = [made EXCEPT ![c] =
             [u \in Types |-> IF u \in started THEN made[c][u] + 1 ELSE made[c][u]]]
        /\ cache' = [cache EXCEPT ![c] =
             [u \in Types |-> IF u \in atOnce THEN NewId(c, u) ELSE cache[c][u]]]
        /\ promise' = [promise EXCEPT ![c] =
             [u \in Types |-> IF u \in later THEN NewId(c, u) ELSE promise[c][u]]]
        /\ creatingKeys' = [creatingKeys EXCEPT ![c] = @ \cup later]
        /\ phase' = [i \in Ids |->
             IF i \in fresh
               THEN IF i.t \in atOnce THEN "done" ELSE FirstPhase(c, i.t, later)
               ELSE IF i = who THEN "settling" ELSE phase[i]]
        /\ uses' = [i \in Ids |->
             IF i \in fresh THEN {Handle(c, d) : d \in Deps[i.t]}
             ELSE IF i = who THEN uses[i] \cup {Handle(c, d) : d \in roots}
             ELSE uses[i]]
        /\ value' = [i \in Ids |->
             IF i \in fresh /\ i.t \in atOnce THEN i ELSE value[i]]
        /\ published' = [published EXCEPT ![c] =
             [u \in Types |-> IF u \in atOnce THEN published[c][u] \cup {NewId(c, u)}
                              ELSE published[c][u]]]

-----------------------------------------------------------------------------
(* Application code calls container.resolve(t) on c.                        *)
Resolve(p, c, t) ==
    /\ call[p].st = "idle"
    /\ Launch(c, {t}, None)
    /\ call' = [call EXCEPT ![p] =
         [st |-> "waiting", c |-> c, t |-> t, id |-> Handle(c, t)]]
    /\ UNCHANGED <<disposeVars, clears, before>>

(* The awaited promise of a caller settles.                                 *)
CallerGets(p) ==
    /\ call[p].st = "waiting"
    /\ phase[call[p].id] = "done"
    /\ call' = [call EXCEPT ![p] =
         [st |-> "got", c |-> call[p].c, t |-> call[p].t, id |-> value[call[p].id]]]
    /\ UNCHANGED <<cacheVars, buildVars, disposeVars, ghostVars>>

CallerFails(p) ==
    /\ call[p].st = "waiting"
    /\ phase[call[p].id] = "failed"
    /\ call' = [call EXCEPT ![p] =
         [st |-> "failed", c |-> call[p].c, t |-> call[p].t, id |-> None]]
    /\ UNCHANGED <<cacheVars, buildVars, disposeVars, ghostVars>>

-----------------------------------------------------------------------------
(* The steps of a creation that did not finish in the call that started it. *)

AllDone(i)  == \A u \in uses[i] : phase[u] = "done"
SomeFailed(i) == \E u \in uses[i] : phase[u] = "failed"

(* The injected promises are fulfilled: construct, and for an AsyncService  *)
(* start its resolve().                                                     *)
Construct(i) ==
    /\ phase[i] = "deps"
    /\ AllDone(i)
    /\ phase' = [phase EXCEPT ![i] = IF i.t \in Async THEN "resolving" ELSE "settling"]
    /\ UNCHANGED <<cacheVars, made, uses, value, call, disposeVars, ghostVars>>

(* resolve() of the service, after an await of its own, asks the container  *)
(* for its late dependencies.                                               *)
ResolveLate(i) ==
    /\ phase[i] = "resolving"
    /\ Launch(i.c, Late[i.t], i)
    /\ UNCHANGED <<call, disposeVars, clears, before>>

(* Mutant: _checkCache without its has().                                   *)
CachedAlwaysFresh(i) == i

(* _checkCache: the instance the promise of i is fulfilled with, which is   *)
(* cached unless it is there already.                                       *)
Cached(i) == IF cache[i.c][i.t] = None THEN i ELSE cache[i.c][i.t]

(* Mutant: the instance is answered but never cached.                       *)
KeepNothing(i) == UNCHANGED cache
Keep(i) == cache' = [cache EXCEPT ![i.c][i.t] = Cached(i)]

(* Mutant: the promise of a settled creation stays.                         *)
UnmarkKeepsPromise(i) ==
    /\ creatingKeys' = [creatingKeys EXCEPT ![i.c] = @ \ {i.t}]
    /\ UNCHANGED promise

(* Both continuations of getOrCreate forget the running creation by its     *)
(* KEY: after a clear that may be the entry of a newer creation.            *)
Unmark(i) ==
    /\ creatingKeys' = [creatingKeys EXCEPT ![i.c] = @ \ {i.t}]
    /\ promise' = [promise EXCEPT ![i.c][i.t] = None]

(* The "then" of getOrCreate.                                               *)
Finish(i) ==
    /\ phase[i] = "settling"
    /\ AllDone(i)
    /\ Unmark(i)
    /\ Keep(i)
    /\ value' = [value EXCEPT ![i] = Cached(i)]
    /\ published' = [published EXCEPT ![i.c][i.t] = @ \cup {Cached(i)}]
    /\ phase' = [phase EXCEPT ![i] = "done"]
    /\ UNCHANGED <<made, uses, call, disposeVars, clears, before>>

(* An awaited promise rejected, or the service's own resolve() did.         *)
DependencyFails(i) == phase[i] \in {"deps", "settling"} /\ SomeFailed(i)
ServiceFails(i) == phase[i] \in {"resolving", "settling"} /\ i.t \in Async

(* Mutant: the rejection of a dependency reaches nobody.                    *)
RejectsOwnOnly(i) == ServiceFails(i) /\ ~SomeFailed(i)
Rejects(i) == DependencyFails(i) \/ ServiceFails(i)

(* The "catch" of getOrCreate.                                              *)
Reject(i) ==
    /\ Rejects(i)
    /\ Unmark(i)
    /\ phase' = [phase EXCEPT ![i] = "failed"]
    /\ UNCHANGED <<cache, made, uses, value, call, disposeVars, ghostVars>>

-----------------------------------------------------------------------------
(* ContainerCache.clear.                                                    *)
Wipe(c) ==
    /\ cache' = [cache EXCEPT ![c] = [t \in Types |-> None]]
    /\ promise' = [promise EXCEPT ![c] = [t \in Types |-> None]]
    /\ creatingKeys' = [creatingKeys EXCEPT ![c] = {}]
    /\ published' = [published EXCEPT ![c] = [t \in Types |-> {}]]
    /\ clears' = [clears EXCEPT ![c] = @ + 1]
    /\ before' = [before EXCEPT ![c] = made[c]]

ClearCache(c) ==
    /\ clears[c] < MaxClears
    /\ Wipe(c)
    /\ UNCHANGED <<buildVars, call, disposeVars>>

(* dispose() calls dispose() of every child before its first await.  The    *)
(* application does not dispose a container twice at a time.                *)
BeginDispose(c) ==
    LET tree == {d \in Containers : InTreeOf(c, d)}
    IN  /\ tree \cap disposing = {}
        /\ \A d \in tree : clears[d] < MaxClears
        /\ disposing' = disposing \cup tree
        /\ UNCHANGED <<cacheVars, buildVars, call, attached, disposed, ghostVars>>

(* Promise.all over the dispose() of the children.                          *)
ChildrenDisposed(c) == attached[c] \cap disposing = {}

(* One iteration of the loop over the cache: the service is disposed, and   *)
(* its dispose() is awaited.                                                *)
DisposeService(c, t) ==
    /\ c \in disposing
    /\ ChildrenDisposed(c)
    /\ cache[c][t] # None
    /\ cache[c][t] \notin disposed
    /\ disposed' = disposed \cup {cache[c][t]}
    /\ UNCHANGED <<cacheVars, buildVars, call, disposing, attached, ghostVars>>

(* The loop has passed every entry: clear, and the parent drops the child.  *)
EndDispose(c) ==
    /\ c \in disposing
    /\ ChildrenDisposed(c)
    /\ \A t \in Types : cache[c][t] # None => cache[c][t] \in disposed
    /\ Wipe(c)
    /\ disposing' = disposing \ {c}
    /\ attached' = [d \in Containers |-> attached[d] \ {c}]
    /\ UNCHANGED <<buildVars, call, disposed>>

-----------------------------------------------------------------------------
CreationStep == \E i \in Ids : Construct(i) \/ ResolveLate(i) \/ Finish(i) \/ Reject(i)

Next ==
    \/ \E p \in Callers, c \in Containers, t \in Types : Resolve(p, c, t)
    \/ \E p \in Callers : CallerGets(p) \/ CallerFails(p)
    \/ CreationStep
    \/ \E c \in Containers : ClearCache(c) \/ BeginDispose(c) \/ EndDispose(c)
    \/ \E c \in Containers, t \in Types : DisposeService(c, t)

Spec == Init /\ [][Next]_vars

(* Promise jobs run, and the resolve() of a service settles one way or the  *)
(* other: a creation that can go on does, and so does a caller.             *)
Fairness ==
    /\ \A p \in Callers : WF_vars(CallerGets(p) \/ CallerFails(p))
    /\ \A i \in Ids : WF_vars(Construct(i) \/ ResolveLate(i) \/ Finish(i) \/ Reject(i))
    /\ \A c \in Containers :
          WF_vars(EndDispose(c) \/ \E t \in Types : DisposeService(c, t))

FairSpec == Spec /\ Fairness
-----------------------------------------------------------------------------
TypeOK ==
    /\ cache \in [Containers -> [Types -> Ids \cup {None}]]
    /\ promise \in [Containers -> [Types -> Ids \cup {None}]]
    /\ creatingKeys \in [Containers -> SUBSET Types]
    /\ made \in [Containers -> [Types -> 0..MaxMade]]
    /\ phase \in [Ids -> Phases]
    /\ uses \in [Ids -> SUBSET Ids]
    /\ value \in [Ids -> Ids \cup {None}]
    /\ call \in [Callers -> CallState]
    /\ disposing \subseteq Containers
    /\ attached \in [Containers -> SUBSET Containers]
    /\ disposed \subseteq Ids
    /\ published \in [Containers -> [Types -> SUBSET Ids]]
    /\ clears \in [Containers -> Nat]
    /\ before \in [Containers -> [Types -> 0..MaxMade]]

(* resolutionPromises and creatingKeys name exactly the creations that are  *)
(* still running, each under its own key: a settled creation never leaves a *)
(* promise that later resolves would join, nor a mark that would make them  *)
(* throw "Circular dependency" for ever.  Clearing does not change that.    *)
PromiseIsLive ==
    \A c \in Containers :
        /\ creatingKeys[c] = {t \in Types : promise[c][t] # None}
        /\ \A t \in creatingKeys[c] :
              /\ promise[c][t] \in InFlight
              /\ promise[c][t].c = c
              /\ promise[c][t].t = t

(* Until its cache is first cleared, a container never creates one service  *)
(* twice at the same time, however the resolves interleave, fail and are    *)
(* retried, and a running creation has nothing cached under its key.        *)
OneCreationAtATime ==
    \A i \in InFlight :
        clears[i.c] = 0 => /\ promise[i.c][i.t] = i
                          /\ cache[i.c][i.t] = None

(* Everything the promises of a container were fulfilled with since its     *)
(* last clear is the one instance its cache holds, even when creations that *)
(* were started before the clear finish after it.                           *)
HandedOutIsCached ==
    \A c \in Containers, t \in Types : published[c][t] \subseteq {cache[c][t]}

(* Every resolve() comes back, with the service or with an error, and every *)
(* dispose() ends, whatever is resolved meanwhile.                          *)
EveryCallSettles ==
    /\ \A p \in Callers : call[p].st = "waiting" ~> call[p].st \in {"got", "failed"}
    /\ \A c \in Containers : c \in disposing ~> c \notin disposing

(* The container implements the store of single instances: a creation that  *)
(* ends, and a call that creates synchronous services, answer from the cell *)
(* of the key and fill it only when it is empty.                            *)
Store == INSTANCE SingletonStore
           WITH cell <- cache, answers <- published, Instances <- Ids
ImplementsStore == Store!Spec
==============================================================================
