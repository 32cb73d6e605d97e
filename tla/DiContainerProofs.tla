-------------------------- MODULE DiContainerProofs --------------------------
(***************************************************************************)
(* Theorems about DiContainer, for every tree of containers, every set of  *)
(* services and callers and every bound: type correctness, the safety      *)
(* invariants, and that it implements SingletonStore.                      *)
(***************************************************************************)
EXTENDS DiContainer, WellFoundedInduction, TLAPS

(* A cached instance is a finished one, made in that container under that   *)
(* key, and its own promise was fulfilled with it.                          *)
CachedIsDone ==
    \A c \in Containers, t \in Types : cache[c][t] # None =>
        /\ cache[c][t].c = c
        /\ cache[c][t].t = t
        /\ phase[cache[c][t]] = "done"

(* The instance that is made next is not in any use yet.                    *)
NextIsFresh == \A i \in Ids : i.n > made[i.c][i.t] => phase[i] = "none"

(* The inductive invariant behind the safety theorems.                      *)
IInv ==
    /\ TypeOK
    /\ NextIsFresh
    /\ PromiseIsLive
    /\ CachedIsDone
    /\ OneCreationAtATime
    /\ HandedOutIsCached

-----------------------------------------------------------------------------
(* A lookup that finds something finds a cached instance.                   *)
LEMMA GetType ==
    ASSUME TypeOK, NEW c \in Containers, NEW t \in Types, Has(c, t)
    PROVE  Get(c, t) \in Ids
<1> DEFINE H == Holders(c, t)
<1>1. H \subseteq DOMAIN Line[c]
  BY DiAssumption DEF Holders, Search
<1>2. H \in SUBSET Nat /\ H # {}
  BY <1>1, DiAssumption DEF Has
<1>3. \E k \in H : \A l \in H : k <= l
  <2>1. PICK k \in H : \A l \in H : <<l, k>> \notin OpToRel(<, Nat)
    BY <1>2, WFMin, NatLessThanWellFounded, Zenon
  <2>2. \A l \in H : ~ (l < k)
    BY <2>1, <1>2, Zenon DEF OpToRel
  <2> QED BY <2>2, <1>2
<1>4. Nearest(c, t) \in H
  BY <1>3 DEF Nearest
<1>5. Line[c][Nearest(c, t)] \in Containers
  BY <1>1, <1>4, DiAssumption
<1> QED
  BY <1>4, <1>5 DEF Get, Holders, TypeOK

(* What is missing from a container is cached neither there nor in creation.*)
LEMMA MissingEmpty ==
    ASSUME NEW c \in Containers, NEW t \in Missing(c)
    PROVE  t \in Types /\ cache[c][t] = None /\ promise[c][t] = None
  BY DiAssumption DEF Missing, Has, Holders, Search

(* One call launches missing types only.                                    *)
LEMMA StartedMissing ==
    ASSUME NEW c, NEW roots
    PROVE  Started(c, roots) \subseteq Missing(c) /\ Missing(c) \subseteq Types
  BY DEF Started, Missing

(* What resolve(d) evaluates to is a creation, if d is in the cache, pending*)
(* or can be started within the bound.                                      *)
LEMMA NewIdType ==
    ASSUME TypeOK, NEW c \in Containers, NEW t \in Types, made[c][t] < MaxMade
    PROVE  /\ NewId(c, t) \in Ids
           /\ NewId(c, t).c = c /\ NewId(c, t).t = t
           /\ NewId(c, t).n = made[c][t] + 1
<1>1. made[c][t] \in 0..MaxMade
  BY DEF TypeOK
<1> QED
  BY <1>1, DiAssumption DEF NewId, Ids

-----------------------------------------------------------------------------
(* What one synchronous call does to the state: it starts the types of      *)
(* started, and those of atOnce are finished when it returns.               *)
LaunchOutcome(c, started, atOnce, who) ==
    /\ atOnce \subseteq started
    /\ \A u \in started : /\ cache[c][u] = None
                          /\ promise[c][u] = None
                          /\ made[c][u] < MaxMade
                          /\ NewId(c, u) \in Ids
    /\ made' = [made EXCEPT ![c] =
         [u \in Types |-> IF u \in started THEN made[c][u] + 1 ELSE made[c][u]]]
    /\ cache' = [cache EXCEPT ![c] =
         [u \in Types |-> IF u \in atOnce THEN NewId(c, u) ELSE cache[c][u]]]
    /\ promise' = [promise EXCEPT ![c] =
         [u \in Types |-> IF u \in started \ atOnce THEN NewId(c, u) ELSE promise[c][u]]]
    /\ creatingKeys' = [creatingKeys EXCEPT ![c] = @ \cup (started \ atOnce)]
    /\ published' = [published EXCEPT ![c] =
         [u \in Types |-> IF u \in atOnce THEN published[c][u] \cup {NewId(c, u)}
                          ELSE published[c][u]]]
    /\ phase' \in [Ids -> Phases]
    /\ \A i \in Ids :
         IF i \in {NewId(c, u) : u \in started}
         THEN IF i.t \in atOnce THEN phase'[i] = "done"
              ELSE phase'[i] \in {"deps", "resolving"}
         ELSE IF i = who THEN phase'[i] = "settling" ELSE phase'[i] = phase[i]

(* What a call that launches creations does to the phase of each instance.  *)
LEMMA LaunchEffect ==
    ASSUME TypeOK, NEW c \in Containers, NEW roots \in SUBSET Types,
           NEW who, Launch(c, roots, who)
    PROVE  \E started, atOnce \in SUBSET Types : LaunchOutcome(c, started, atOnce, who)
<1> DEFINE started == Started(c, roots)
           later == {u \in started : GoesAsync(c, u)}
           atOnce == started \ later
           fresh == {NewId(c, u) : u \in started}
<1>1. started \in SUBSET Types /\ atOnce \in SUBSET Types /\ atOnce \subseteq started
  BY StartedMissing
<1>2. later = started \ atOnce
  OBVIOUS
<1>3. \A u \in started : cache[c][u] = None /\ promise[c][u] = None
  BY StartedMissing, MissingEmpty
<1>4. \A u \in started : made[c][u] < MaxMade
  BY DEF Launch
<1>5. \A u \in started : NewId(c, u) \in Ids
  BY <1>1, <1>4, NewIdType
<1>6. phase' = [i \in Ids |->
             IF i \in fresh
               THEN IF i.t \in atOnce THEN "done" ELSE FirstPhase(c, i.t, later)
               ELSE IF i = who THEN "settling" ELSE phase[i]]
  BY DEF Launch
<1>7. \A u : FirstPhase(c, u, later) \in {"deps", "resolving"}
  BY DEF FirstPhase
<1>8. phase' \in [Ids -> Phases]
  BY <1>6, <1>7 DEF TypeOK, Phases
<1>9. \A i \in Ids :
        IF i \in fresh
        THEN IF i.t \in atOnce THEN phase'[i] = "done"
             ELSE phase'[i] \in {"deps", "resolving"}
        ELSE IF i = who THEN phase'[i] = "settling" ELSE phase'[i] = phase[i]
  BY <1>6, <1>7
<1>10. /\ made' = [made EXCEPT ![c] =
             [u \in Types |-> IF u \in started THEN made[c][u] + 1 ELSE made[c][u]]]
       /\ cache' = [cache EXCEPT ![c] =
             [u \in Types |-> IF u \in atOnce THEN NewId(c, u) ELSE cache[c][u]]]
       /\ promise' = [promise EXCEPT ![c] =
             [u \in Types |-> IF u \in later THEN NewId(c, u) ELSE promise[c][u]]]
       /\ creatingKeys' = [creatingKeys EXCEPT ![c] = @ \cup later]
       /\ published' = [published EXCEPT ![c] =
             [u \in Types |-> IF u \in atOnce THEN published[c][u] \cup {NewId(c, u)}
                              ELSE published[c][u]]]
  BY DEF Launch
<1> HIDE DEF started, atOnce, later, fresh
<1>11. fresh = {NewId(c, u) : u \in started}
  BY DEF fresh
<1>12. LaunchOutcome(c, started, atOnce, who)
  BY <1>1, <1>2, <1>3, <1>4, <1>5, <1>8, <1>9, <1>10, <1>11 DEF LaunchOutcome
<1> QED
  BY <1>1, <1>12

(* The types a call starts are closed under missing dependencies.           *)
LEMMA StartedClosed ==
    ASSUME NEW c, NEW roots, NEW u \in Started(c, roots)
    PROVE  Deps[u] \cap Missing(c) \subseteq Started(c, roots)
<1> SUFFICES ASSUME NEW d \in Deps[u] \cap Missing(c), NEW X \in SUBSET Missing(c),
                    roots \cap Missing(c) \subseteq X,
                    \A v \in X : Deps[v] \cap Missing(c) \subseteq X
             PROVE  d \in X
  BY Zenon DEF Started
<1>1. u \in X
  BY DEF Started
<1> QED
  BY <1>1

(* What a call asks for and misses is among what it starts.                 *)
LEMMA RootsStarted ==
    ASSUME NEW c, NEW roots
    PROVE  roots \cap Missing(c) \subseteq Started(c, roots)
  BY DEF Started

(* Whatever is asked for evaluates to an instance or the name of a promise. *)
LEMMA HandleType ==
    ASSUME TypeOK, NEW c \in Containers, NEW t \in Types,
           t \in Missing(c) => made[c][t] < MaxMade
    PROVE  Handle(c, t) \in Ids
<1>1. CASE Has(c, t)
  BY <1>1, GetType DEF Handle
<1>2. CASE ~Has(c, t) /\ promise[c][t] # None
  BY <1>2 DEF Handle, TypeOK
<1>3. CASE ~Has(c, t) /\ promise[c][t] = None
  <2>1. t \in Missing(c)
    BY <1>3 DEF Missing
  <2> QED
    BY <1>3, <2>1, NewIdType DEF Handle
<1> QED
  BY <1>1, <1>2, <1>3

(* A call that launches creations keeps the variables within their types.   *)
LEMMA LaunchType ==
    ASSUME TypeOK, NEW c \in Containers, NEW roots \in SUBSET Types,
           NEW who, Launch(c, roots, who)
    PROVE  /\ cache' \in [Containers -> [Types -> Ids \cup {None}]]
           /\ promise' \in [Containers -> [Types -> Ids \cup {None}]]
           /\ creatingKeys' \in [Containers -> SUBSET Types]
           /\ made' \in [Containers -> [Types -> 0..MaxMade]]
           /\ phase' \in [Ids -> Phases]
           /\ uses' \in [Ids -> SUBSET Ids]
           /\ value' \in [Ids -> Ids \cup {None}]
           /\ published' \in [Containers -> [Types -> SUBSET Ids]]
           /\ \A d \in roots : Handle(c, d) \in Ids
<1>1. PICK started, atOnce \in SUBSET Types : LaunchOutcome(c, started, atOnce, who)
  BY LaunchEffect
<1>2. cache' \in [Containers -> [Types -> Ids \cup {None}]]
  BY <1>1 DEF TypeOK, LaunchOutcome
<1>3. promise' \in [Containers -> [Types -> Ids \cup {None}]]
  BY <1>1 DEF TypeOK, LaunchOutcome
<1>4. creatingKeys' \in [Containers -> SUBSET Types]
  BY <1>1 DEF TypeOK, LaunchOutcome
<1>5. made' \in [Containers -> [Types -> 0..MaxMade]]
  <2>1. \A u \in Types : (IF u \in started THEN made[c][u] + 1 ELSE made[c][u]) \in 0..MaxMade
    BY <1>1, DiAssumption DEF TypeOK, LaunchOutcome
  <2> QED
    BY <1>1, <2>1 DEF TypeOK, LaunchOutcome
<1>6. published' \in [Containers -> [Types -> SUBSET Ids]]
  BY <1>1 DEF TypeOK, LaunchOutcome
<1>7. \A u \in Started(c, roots) : u \in Types /\ made[c][u] < MaxMade
  BY StartedMissing DEF Launch
<1>8. \A d \in roots : Handle(c, d) \in Ids
  BY <1>7, HandleType, RootsStarted
<1>9. \A u \in Started(c, roots) : \A d \in Deps[u] : Handle(c, d) \in Ids
  <2> SUFFICES ASSUME NEW u \in Started(c, roots), NEW d \in Deps[u]
               PROVE  Handle(c, d) \in Ids
    OBVIOUS
  <2>1. d \in Types
    BY <1>7, DiAssumption
  <2>2. d \in Missing(c) => made[c][d] < MaxMade
    BY <1>7, StartedClosed
  <2> QED
    BY <2>1, <2>2, HandleType
<1>10. \A i \in {NewId(c, u) : u \in Started(c, roots)} : i.t \in Started(c, roots)
  BY DEF NewId
<1>11. uses' \in [Ids -> SUBSET Ids]
  <2> DEFINE fresh == {NewId(c, u) : u \in Started(c, roots)}
             new(i) == IF i \in fresh THEN {Handle(c, d) : d \in Deps[i.t]}
                       ELSE IF i = who THEN uses[i] \cup {Handle(c, d) : d \in roots}
                       ELSE uses[i]
  <2>1. uses' = [i \in Ids |-> new(i)]
    BY Zenon DEF Launch
  <2>2. \A i \in Ids : new(i) \in SUBSET Ids
    <3> TAKE i \in Ids
    <3>1. uses[i] \in SUBSET Ids
      BY DEF TypeOK
    <3>2. i \in fresh => {Handle(c, d) : d \in Deps[i.t]} \in SUBSET Ids
      BY <1>9, <1>10
    <3>3. {Handle(c, d) : d \in roots} \in SUBSET Ids
      BY <1>8
    <3> HIDE DEF fresh
    <3> QED
      BY <3>1, <3>2, <3>3
  <2> HIDE DEF new
  <2> QED
    BY <2>1, <2>2
<1>12. value' \in [Ids -> Ids \cup {None}]
  <2>1. \E fresh, atOnceT : value' = [i \in Ids |->
             IF i \in fresh /\ i.t \in atOnceT THEN i ELSE value[i]]
    BY Zenon DEF Launch
  <2> QED
    BY <2>1 DEF TypeOK
<1> QED
  BY <1>1, <1>2, <1>3, <1>4, <1>5, <1>6, <1>8, <1>11, <1>12 DEF LaunchOutcome

-----------------------------------------------------------------------------
(* The fields of an instance.                                               *)
LEMMA IdsFields ==
    ASSUME NEW i \in Ids
    PROVE  i.c \in Containers /\ i.t \in Types /\ i.n \in 1..MaxMade
  BY DEF Ids

(* What a cache holds for an instance's key is an instance, if anything.    *)
LEMMA CachedType ==
    ASSUME TypeOK, NEW i \in Ids
    PROVE  Cached(i) \in Ids
  BY IdsFields DEF Cached, TypeOK

(* Every step keeps the variables within their types.                       *)
LEMMA TypeInductive == TypeOK /\ [Next]_vars => TypeOK'
<1> SUFFICES ASSUME TypeOK, [Next]_vars
             PROVE  TypeOK'
  OBVIOUS
<1>1. ASSUME NEW p \in Callers, NEW c \in Containers, NEW t \in Types, Resolve(p, c, t)
      PROVE  TypeOK'
  <2>1. Launch(c, {t}, None)
    BY <1>1 DEF Resolve
  <2>2. Handle(c, t) \in Ids
    BY <2>1, LaunchType
  <2>3. call' \in [Callers -> CallState]
    BY <1>1, <2>2 DEF Resolve, CallState, TypeOK
  <2>4. UNCHANGED <<disposing, attached, disposed, clears, before>>
    BY <1>1 DEF Resolve, disposeVars
  <2>5. /\ cache' \in [Containers -> [Types -> Ids \cup {None}]]
        /\ promise' \in [Containers -> [Types -> Ids \cup {None}]]
        /\ creatingKeys' \in [Containers -> SUBSET Types]
        /\ made' \in [Containers -> [Types -> 0..MaxMade]]
        /\ phase' \in [Ids -> Phases]
        /\ uses' \in [Ids -> SUBSET Ids]
        /\ value' \in [Ids -> Ids \cup {None}]
        /\ published' \in [Containers -> [Types -> SUBSET Ids]]
    BY <2>1, LaunchType
  <2> QED
    BY <2>3, <2>4, <2>5 DEF TypeOK
<1>2. ASSUME NEW p \in Callers, CallerGets(p)
      PROVE  TypeOK'
  <2>1. call[p] \in [st : {"waiting"}, c : Containers, t : Types, id : Ids]
    BY <1>2 DEF CallerGets, TypeOK, CallState, Idle
  <2>2. value[call[p].id] \in Ids \cup {None}
    BY <2>1 DEF TypeOK
  <2>3. call' \in [Callers -> CallState]
    BY <1>2, <2>1, <2>2 DEF CallerGets, TypeOK, CallState
  <2> QED
    BY <1>2, <2>3 DEF CallerGets, TypeOK, cacheVars, buildVars, disposeVars, ghostVars
<1>3. ASSUME NEW p \in Callers, CallerFails(p)
      PROVE  TypeOK'
  <2>1. call[p] \in [st : {"waiting"}, c : Containers, t : Types, id : Ids]
    BY <1>3 DEF CallerFails, TypeOK, CallState, Idle
  <2>2. call' \in [Callers -> CallState]
    BY <1>3, <2>1 DEF CallerFails, TypeOK, CallState
  <2> QED
    BY <1>3, <2>2 DEF CallerFails, TypeOK, cacheVars, buildVars, disposeVars, ghostVars
<1>4. ASSUME NEW i \in Ids, Construct(i)
      PROVE  TypeOK'
  BY <1>4 DEF Construct, TypeOK, Phases, cacheVars, disposeVars, ghostVars
<1>5. ASSUME NEW i \in Ids, ResolveLate(i)
      PROVE  TypeOK'
  <2>1. i.c \in Containers /\ Late[i.t] \in SUBSET Types
    BY IdsFields, DiAssumption
  <2>2. Launch(i.c, Late[i.t], i) /\ UNCHANGED <<call, disposing, attached, disposed, clears, before>>
    BY <1>5 DEF ResolveLate, disposeVars
  <2>3. /\ cache' \in [Containers -> [Types -> Ids \cup {None}]]
        /\ promise' \in [Containers -> [Types -> Ids \cup {None}]]
        /\ creatingKeys' \in [Containers -> SUBSET Types]
        /\ made' \in [Containers -> [Types -> 0..MaxMade]]
        /\ phase' \in [Ids -> Phases]
        /\ uses' \in [Ids -> SUBSET Ids]
        /\ value' \in [Ids -> Ids \cup {None}]
        /\ published' \in [Containers -> [Types -> SUBSET Ids]]
    BY <2>1, <2>2, LaunchType
  <2> QED
    BY <2>2, <2>3 DEF TypeOK
<1>6. ASSUME NEW i \in Ids, Finish(i)
      PROVE  TypeOK'
  <2>1. i.c \in Containers /\ i.t \in Types /\ Cached(i) \in Ids
    BY IdsFields, CachedType
  <2> QED
    BY <1>6, <2>1 DEF Finish, Unmark, Keep, TypeOK, Phases, disposeVars
<1>7. ASSUME NEW i \in Ids, Reject(i)
      PROVE  TypeOK'
  <2>1. i.c \in Containers /\ i.t \in Types
    BY IdsFields
  <2> QED
    BY <1>7, <2>1 DEF Reject, Unmark, TypeOK, Phases, disposeVars, ghostVars
<1>8. ASSUME NEW c \in Containers, Wipe(c), UNCHANGED <<buildVars, call>>,
             disposing' \subseteq Containers, attached' \in [Containers -> SUBSET Containers],
             disposed' = disposed
      PROVE  TypeOK'
  <2>1. clears' \in [Containers -> Nat] /\ before' \in [Containers -> [Types -> 0..MaxMade]]
    BY <1>8 DEF Wipe, TypeOK
  <2> QED
    BY <1>8, <2>1 DEF Wipe, TypeOK, buildVars
<1>9. ASSUME NEW c \in Containers, ClearCache(c)
      PROVE  TypeOK'
  <2>1. /\ Wipe(c) /\ UNCHANGED <<buildVars, call>> /\ disposing' \subseteq Containers
        /\ attached' \in [Containers -> SUBSET Containers] /\ disposed' = disposed
    BY <1>9 DEF ClearCache, disposeVars, TypeOK
  <2> QED
    BY <1>8, <2>1
<1>10. ASSUME NEW c \in Containers, BeginDispose(c)
       PROVE  TypeOK'
  BY <1>10 DEF BeginDispose, TypeOK, cacheVars, buildVars, ghostVars
<1>11. ASSUME NEW c \in Containers, EndDispose(c)
       PROVE  TypeOK'
  <2>1. /\ Wipe(c) /\ UNCHANGED <<buildVars, call>> /\ disposing' \subseteq Containers
        /\ attached' \in [Containers -> SUBSET Containers] /\ disposed' = disposed
    BY <1>11 DEF EndDispose, TypeOK
  <2> QED
    BY <1>8, <2>1
<1>12. ASSUME NEW c \in Containers, NEW t \in Types, DisposeService(c, t)
       PROVE  TypeOK'
  BY <1>12 DEF DisposeService, TypeOK, cacheVars, buildVars, ghostVars
<1>13. CASE UNCHANGED vars
  BY <1>13 DEF TypeOK, vars, cacheVars, buildVars, disposeVars, ghostVars
<1> QED
  BY <1>1, <1>2, <1>3, <1>4, <1>5, <1>6, <1>7, <1>9, <1>10, <1>11, <1>12, <1>13
     DEF Next, CreationStep

(* The variables of the container stay within their types.                  *)
THEOREM TypeCorrect == Spec => []TypeOK
<1>1. Init => TypeOK
  BY DiAssumption DEF Init, TypeOK, CallState, ChildrenOf, Phases
<1> QED
  BY <1>1, TypeInductive, PTL DEF Spec

-----------------------------------------------------------------------------
(* A call that launches creations keeps the invariant: the new instances    *)
(* are fresh, and each is the only one under its key.                       *)
LEMMA LaunchKeeps ==
    ASSUME IInv, TypeOK', NEW c \in Containers, NEW roots \in SUBSET Types,
           NEW who, who \in InFlight \/ who = None,
           Launch(c, roots, who), clears' = clears
    PROVE  IInv'
<1>0. /\ TypeOK /\ NextIsFresh /\ PromiseIsLive /\ CachedIsDone
      /\ OneCreationAtATime /\ HandedOutIsCached
  BY DEF IInv
<1>t. \A e \in Containers, t \in Types :
        /\ made[e][t] \in Nat
        /\ cache[e][t] \in Ids \cup {None}
        /\ published[e][t] \subseteq Ids
  <2>1. MaxMade \in Nat
    BY DiAssumption
  <2>2. TypeOK
    BY <1>0
  <2> SUFFICES ASSUME NEW e \in Containers, NEW t \in Types
               PROVE  /\ made[e][t] \in Nat
                      /\ cache[e][t] \in Ids \cup {None}
                      /\ published[e][t] \subseteq Ids
    OBVIOUS
  <2>3. made[e][t] \in 0..MaxMade
    BY <2>2 DEF TypeOK
  <2>4. cache[e][t] \in Ids \cup {None} /\ published[e][t] \subseteq Ids
    BY <2>2 DEF TypeOK
  <2> QED
    BY <2>1, <2>3, <2>4
<1>1. PICK started, atOnce \in SUBSET Types : LaunchOutcome(c, started, atOnce, who)
  BY <1>0, LaunchEffect
<1> DEFINE fresh == {NewId(c, u) : u \in started}
<1>2. \A u \in started : /\ NewId(c, u) \in Ids /\ NewId(c, u).c = c /\ NewId(c, u).t = u
                        /\ NewId(c, u).n = made[c][u] + 1
                        /\ phase[NewId(c, u)] = "none"
  <2> SUFFICES ASSUME NEW u \in started
               PROVE  /\ NewId(c, u) \in Ids /\ NewId(c, u).c = c /\ NewId(c, u).t = u
                      /\ NewId(c, u).n = made[c][u] + 1
                      /\ phase[NewId(c, u)] = "none"
    OBVIOUS
  <2>1. u \in Types /\ made[c][u] < MaxMade /\ made[c][u] \in Nat
    BY <1>1, <1>t DEF LaunchOutcome
  <2>2. /\ NewId(c, u) \in Ids /\ NewId(c, u).c = c /\ NewId(c, u).t = u
        /\ NewId(c, u).n = made[c][u] + 1
    BY <1>0, <2>1, NewIdType
  <2>3. made[c][u] + 1 > made[c][u]
    BY <2>1
  <2> QED
    BY <1>0, <2>1, <2>2, <2>3 DEF NextIsFresh
<1>3. \A i \in Ids : \/ i \in fresh /\ i.t \in atOnce /\ phase'[i] = "done"
                     \/ i \in fresh /\ i.t \notin atOnce /\ phase'[i] \in {"deps", "resolving"}
                     \/ i \notin fresh /\ i # who /\ phase'[i] = phase[i]
                     \/ i \notin fresh /\ i = who /\ phase'[i] = "settling"
  BY <1>1 DEF LaunchOutcome
<1>4. \A i \in fresh : i.c = c /\ i.t \in started /\ i = NewId(c, i.t) /\ phase[i] = "none"
  BY <1>2
<1>n. None \notin Ids
  BY DiAssumption
<1>5. \A i \in Ids \ fresh : i \in InFlight' <=> i \in InFlight
  <2> SUFFICES ASSUME NEW i \in Ids \ fresh
               PROVE  i \in InFlight' <=> i \in InFlight
    OBVIOUS
  <2>1. CASE i # who
    BY <1>3, <2>1 DEF InFlight
  <2>2. CASE i = who
    BY <1>3, <1>n, <2>2 DEF InFlight
  <2> QED
    BY <2>1, <2>2
<1>6. \A i \in fresh : i.t \notin atOnce => i \in InFlight'
  BY <1>2, <1>3 DEF InFlight
<1>7. \A i \in fresh : i.t \in atOnce => phase'[i] = "done"
  BY <1>2, <1>3
<1> DEFINE MadeAs(e, t) == IF e = c /\ t \in started THEN made[e][t] + 1 ELSE made[e][t]
           CacheAs(e, t) == IF e = c /\ t \in atOnce THEN NewId(c, t) ELSE cache[e][t]
           PromiseAs(e, t) == IF e = c /\ t \in started \ atOnce THEN NewId(c, t)
                              ELSE promise[e][t]
           PublishedAs(e, t) == IF e = c /\ t \in atOnce
                                THEN published[e][t] \cup {NewId(c, t)} ELSE published[e][t]
<1>8. \A e \in Containers, t \in Types :
        /\ made'[e][t] = MadeAs(e, t) /\ cache'[e][t] = CacheAs(e, t)
        /\ promise'[e][t] = PromiseAs(e, t) /\ published'[e][t] = PublishedAs(e, t)
  <2> SUFFICES ASSUME NEW e \in Containers, NEW t \in Types
        PROVE  /\ made'[e][t] = MadeAs(e, t) /\ cache'[e][t] = CacheAs(e, t)
               /\ promise'[e][t] = PromiseAs(e, t) /\ published'[e][t] = PublishedAs(e, t)
    OBVIOUS
  <2>1. TypeOK
    BY <1>0
  <2>2. made'[e][t] = MadeAs(e, t)
    BY <1>1, <2>1 DEF LaunchOutcome, TypeOK
  <2>3. cache'[e][t] = CacheAs(e, t)
    BY <1>1, <2>1 DEF LaunchOutcome, TypeOK
  <2>4. promise'[e][t] = PromiseAs(e, t)
    BY <1>1, <2>1 DEF LaunchOutcome, TypeOK
  <2>5. published'[e][t] = PublishedAs(e, t)
    <3>1. published' = [published EXCEPT ![c] =
             [u \in Types |-> IF u \in atOnce THEN published[c][u] \cup {NewId(c, u)}
                              ELSE published[c][u]]]
      BY <1>1 DEF LaunchOutcome
    <3>2. published \in [Containers -> [Types -> SUBSET Ids]]
      BY <2>1 DEF TypeOK
    <3> QED
      BY <3>1, <3>2
  <2> HIDE DEF MadeAs, CacheAs, PromiseAs, PublishedAs
  <2> QED
    BY <2>2, <2>3, <2>4, <2>5
<1>9. \A e \in Containers :
        creatingKeys'[e] = IF e = c THEN creatingKeys[e] \cup (started \ atOnce)
                           ELSE creatingKeys[e]
  BY <1>0, <1>1 DEF LaunchOutcome, TypeOK
<1>10. \A u \in started : cache[c][u] = None /\ promise[c][u] = None
  BY <1>1 DEF LaunchOutcome
<1>11. atOnce \subseteq started
  BY <1>1 DEF LaunchOutcome
<1> HIDE DEF fresh
<1>12. NextIsFresh'
  <2> SUFFICES ASSUME NEW i \in Ids, i.n > made'[i.c][i.t]
               PROVE  phase'[i] = "none"
    BY DEF NextIsFresh
  <2>1. i.c \in Containers /\ i.t \in Types /\ i.n \in Nat /\ made[i.c][i.t] \in Nat
    <3>1. i.c \in Containers /\ i.t \in Types /\ i.n \in 1..MaxMade
      BY IdsFields
    <3>2. MaxMade \in Nat
      BY DiAssumption
    <3> QED
      BY <3>1, <3>2, <1>t
  <2>2. i.n > made[i.c][i.t]
    <3>1. made'[i.c][i.t] \in {made[i.c][i.t], made[i.c][i.t] + 1}
      BY <2>1, <1>8
    <3> QED
      BY <3>1, <2>1
  <2>3. i \notin fresh
    <3>1. ASSUME i \in fresh
          PROVE  FALSE
      <4>1. i.c = c /\ i.t \in started /\ i.n = made[c][i.t] + 1
        BY <3>1, <1>2, <1>4
      <4>2. made'[i.c][i.t] = made[i.c][i.t] + 1
        BY <4>1, <2>1, <1>8
      <4> QED
        BY <4>1, <4>2, <2>1
    <3> QED
      BY <3>1
  <2>4. phase[i] = "none"
    BY <1>0, <2>2 DEF NextIsFresh
  <2>5. i # who
    BY <2>4, DiAssumption DEF InFlight
  <2> QED
    BY <1>3, <2>3, <2>4, <2>5
<1>13. PromiseIsLive'
  <2>1. ASSUME NEW e \in Containers
        PROVE  creatingKeys'[e] = {t \in Types : promise'[e][t] # None}
    <3>1. creatingKeys[e] = {t \in Types : promise[e][t] # None}
      BY <1>0 DEF PromiseIsLive
    <3>2. \A u \in started : NewId(c, u) # None
      BY <1>2, DiAssumption
    <3>3. \A t \in Types : promise'[e][t] # None <=>
             promise[e][t] # None \/ (e = c /\ t \in started \ atOnce)
      <4>1. \A t \in Types : promise'[e][t] = PromiseAs(e, t)
        BY <1>8
      <4>2. \A t \in started \ atOnce : promise[c][t] = None
        BY <1>1 DEF LaunchOutcome
      <4> QED
        BY <3>2, <4>1, <4>2
    <3> QED
      BY <3>1, <3>3, <1>9
  <2>2. ASSUME NEW e \in Containers, NEW t \in Types, promise'[e][t] # None
        PROVE  promise'[e][t] \in InFlight' /\ promise'[e][t].c = e /\ promise'[e][t].t = t
    <3>1. CASE e = c /\ t \in started \ atOnce
      <4>1. promise'[e][t] = NewId(c, t)
        BY <3>1, <1>8
      <4>2. NewId(c, t) \in fresh /\ NewId(c, t).c = c /\ NewId(c, t).t = t
        BY <3>1, <1>2 DEF fresh
      <4> QED
        BY <3>1, <4>1, <4>2, <1>6
    <3>2. CASE ~(e = c /\ t \in started \ atOnce)
      <4>1. promise'[e][t] = promise[e][t]
        BY <3>2, <1>8
      <4>2. promise[e][t] \in InFlight /\ promise[e][t].c = e /\ promise[e][t].t = t
        BY <1>0, <2>2, <4>1 DEF PromiseIsLive
      <4>3. promise[e][t] \notin fresh
        BY <4>2, <1>4 DEF InFlight
      <4> QED
        BY <4>1, <4>2, <4>3, <1>5 DEF InFlight
    <3> QED
      BY <3>1, <3>2
  <2> QED
    BY <2>1, <2>2 DEF PromiseIsLive
<1>14. CachedIsDone'
  <2> SUFFICES ASSUME NEW e \in Containers, NEW t \in Types, cache'[e][t] # None
               PROVE  /\ cache'[e][t].c = e /\ cache'[e][t].t = t
                      /\ phase'[cache'[e][t]] = "done"
    BY DEF CachedIsDone
  <2>1. CASE e = c /\ t \in atOnce
    <3>1. cache'[e][t] = NewId(c, t)
      BY <2>1, <1>8
    <3>2. NewId(c, t) \in fresh /\ NewId(c, t).c = c /\ NewId(c, t).t = t
      BY <2>1, <1>2, <1>11 DEF fresh
    <3> QED
      BY <2>1, <3>1, <3>2, <1>7
  <2>2. CASE ~(e = c /\ t \in atOnce)
    <3>1. cache'[e][t] = cache[e][t]
      BY <2>2, <1>8
    <3>2. cache[e][t].c = e /\ cache[e][t].t = t /\ phase[cache[e][t]] = "done" /\ cache[e][t] \in Ids
      BY <1>0, <1>t, <3>1 DEF CachedIsDone
    <3>3. cache[e][t] \notin fresh
      BY <3>2, <1>4
    <3> QED
      BY <3>1, <3>2, <3>3, <1>3 DEF InFlight
  <2> QED
    BY <2>1, <2>2
<1>15. OneCreationAtATime'
  <2> SUFFICES ASSUME NEW i \in InFlight', clears[i.c] = 0
               PROVE  promise'[i.c][i.t] = i /\ cache'[i.c][i.t] = None
    BY DEF OneCreationAtATime
  <2>1. i \in Ids /\ i.c \in Containers /\ i.t \in Types
    BY IdsFields DEF InFlight
  <2>2. CASE i \in fresh
    <3>1. i.c = c /\ i.t \in started /\ i = NewId(c, i.t)
      BY <2>2, <1>4
    <3>2. i.t \notin atOnce
      BY <2>1, <2>2, <1>7 DEF InFlight
    <3> QED
      BY <3>1, <3>2, <2>1, <1>8, <1>10
  <2>3. CASE i \notin fresh
    <3>1. i \in InFlight
      BY <2>1, <2>3, <1>5
    <3>2. promise[i.c][i.t] = i /\ cache[i.c][i.t] = None
      BY <1>0, <3>1 DEF OneCreationAtATime
    <3>3. ~(i.c = c /\ i.t \in started)
      BY <3>2, <1>10, <2>1, DiAssumption
    <3> QED
      <4>1. promise'[i.c][i.t] = promise[i.c][i.t]
        BY <3>3, <2>1, <1>8
      <4>2. cache'[i.c][i.t] = cache[i.c][i.t]
        <5>1. ~(i.c = c /\ i.t \in atOnce)
          BY <3>3, <1>11
        <5> QED
          BY <5>1, <2>1, <1>8
      <4> QED
        BY <3>2, <4>1, <4>2
  <2> QED
    BY <2>2, <2>3
<1>16. HandedOutIsCached'
  <2> SUFFICES ASSUME NEW e \in Containers, NEW t \in Types
               PROVE  published'[e][t] \subseteq {cache'[e][t]}
    BY DEF HandedOutIsCached
  <2>1. published[e][t] \subseteq {cache[e][t]} /\ published[e][t] \subseteq Ids
    BY <1>0, <1>t DEF HandedOutIsCached
  <2>2. ASSUME e = c, t \in atOnce
        PROVE  published[e][t] = {}
    <3>1. cache[e][t] = None
      BY <2>2, <1>10, <1>11
    <3> QED
      BY <3>1, <2>1, DiAssumption
  <2> QED
    BY <2>1, <2>2, <1>8
<1> QED
  BY <1>12, <1>13, <1>14, <1>15, <1>16 DEF IInv

(* The fulfilled promise of a creation: unless the container was cleared    *)
(* meanwhile it deletes its own entry, so no other creation loses its mark. *)
LEMMA FinishKeeps ==
    ASSUME IInv, TypeOK', NEW i \in Ids, Finish(i)
    PROVE  IInv'
<1>0. /\ TypeOK /\ NextIsFresh /\ PromiseIsLive /\ CachedIsDone
      /\ OneCreationAtATime /\ HandedOutIsCached
  BY DEF IInv
<1>1. i.c \in Containers /\ i.t \in Types /\ i \in InFlight /\ i # None
  BY IdsFields, DiAssumption DEF Finish, InFlight
<1>t. /\ cache \in [Containers -> [Types -> Ids \cup {None}]]
      /\ promise \in [Containers -> [Types -> Ids \cup {None}]]
      /\ published \in [Containers -> [Types -> SUBSET Ids]]
  BY <1>0 DEF TypeOK
<1>2. \A e \in Containers, t \in Types :
        /\ promise'[e][t] = IF e = i.c /\ t = i.t THEN None ELSE promise[e][t]
        /\ cache'[e][t] = IF e = i.c /\ t = i.t THEN Cached(i) ELSE cache[e][t]
        /\ published'[e][t] = IF e = i.c /\ t = i.t THEN published[e][t] \cup {Cached(i)}
                              ELSE published[e][t]
  <2> SUFFICES ASSUME NEW e \in Containers, NEW t \in Types
               PROVE  /\ promise'[e][t] = IF e = i.c /\ t = i.t THEN None ELSE promise[e][t]
                      /\ cache'[e][t] = IF e = i.c /\ t = i.t THEN Cached(i) ELSE cache[e][t]
                      /\ published'[e][t] =
                           IF e = i.c /\ t = i.t THEN published[e][t] \cup {Cached(i)}
                           ELSE published[e][t]
    OBVIOUS
  <2>1. /\ promise' = [promise EXCEPT ![i.c][i.t] = None]
        /\ cache' = [cache EXCEPT ![i.c][i.t] = Cached(i)]
        /\ published' = [published EXCEPT ![i.c][i.t] = @ \cup {Cached(i)}]
    BY DEF Finish, Unmark, Keep
  <2>2. promise'[e][t] = IF e = i.c /\ t = i.t THEN None ELSE promise[e][t]
    BY <1>t, <1>1, <2>1
  <2>3. cache'[e][t] = IF e = i.c /\ t = i.t THEN Cached(i) ELSE cache[e][t]
    BY <1>t, <1>1, <2>1
  <2>4. published'[e][t] = IF e = i.c /\ t = i.t THEN published[e][t] \cup {Cached(i)}
                           ELSE published[e][t]
    BY <1>t, <1>1, <2>1
  <2> QED
    BY <2>2, <2>3, <2>4
<1>3. \A e \in Containers :
        creatingKeys'[e] = IF e = i.c THEN creatingKeys[e] \ {i.t} ELSE creatingKeys[e]
  BY <1>0 DEF Finish, Unmark, TypeOK
<1>4. /\ phase'[i] = "done"
      /\ \A j \in Ids : j # i => phase'[j] = phase[j]
  BY <1>0 DEF Finish, TypeOK
<1>5. InFlight' = InFlight \ {i}
  BY <1>4 DEF InFlight
<1>6. /\ Cached(i).c = i.c /\ Cached(i).t = i.t /\ phase'[Cached(i)] = "done"
      /\ Cached(i) \in Ids
  BY <1>0, <1>1, <1>4, CachedType DEF Cached, CachedIsDone
<1>7. made' = made /\ clears' = clears
  BY DEF Finish
<1>8. NextIsFresh'
  <2>1. phase[i] # "none"
    BY DEF Finish
  <2> QED
    BY <1>0, <1>4, <1>7, <2>1 DEF NextIsFresh
<1>9. PromiseIsLive'
  <2>1. ASSUME NEW e \in Containers
        PROVE  creatingKeys'[e] = {t \in Types : promise'[e][t] # None}
    <3>1. creatingKeys[e] = {t \in Types : promise[e][t] # None}
      BY <1>0 DEF PromiseIsLive
    <3>2. \A t \in Types :
            promise'[e][t] # None <=> promise[e][t] # None /\ ~(e = i.c /\ t = i.t)
      BY <1>2
    <3> QED
      BY <3>1, <3>2, <1>3
  <2>2. ASSUME NEW e \in Containers, NEW t \in Types, promise'[e][t] # None
        PROVE  promise'[e][t] \in InFlight' /\ promise'[e][t].c = e /\ promise'[e][t].t = t
    <3>1. ~(e = i.c /\ t = i.t) /\ promise'[e][t] = promise[e][t]
      BY <1>2, <2>2
    <3>2. promise[e][t] \in InFlight /\ promise[e][t].c = e /\ promise[e][t].t = t
      BY <1>0, <2>2, <3>1 DEF PromiseIsLive
    <3> QED
      BY <3>1, <3>2, <1>5
  <2> QED
    BY <2>1, <2>2 DEF PromiseIsLive
<1>10. CachedIsDone'
  <2> SUFFICES ASSUME NEW e \in Containers, NEW t \in Types, cache'[e][t] # None
               PROVE  /\ cache'[e][t].c = e /\ cache'[e][t].t = t
                      /\ phase'[cache'[e][t]] = "done"
    BY DEF CachedIsDone
  <2>1. CASE e = i.c /\ t = i.t
    BY <2>1, <1>2, <1>6
  <2>2. CASE ~(e = i.c /\ t = i.t)
    <3>1. cache'[e][t] = cache[e][t]
      BY <2>2, <1>2
    <3>2. cache[e][t] \in Ids
      BY <3>1, <1>t
    <3>3. cache[e][t].c = e /\ cache[e][t].t = t /\ phase[cache[e][t]] = "done"
      BY <3>1, <1>0 DEF CachedIsDone
    <3> QED
      BY <3>1, <3>2, <3>3, <1>4
  <2> QED
    BY <2>1, <2>2
<1>11. OneCreationAtATime'
  <2> SUFFICES ASSUME NEW j \in InFlight', clears[j.c] = 0
               PROVE  promise'[j.c][j.t] = j /\ cache'[j.c][j.t] = None
    BY <1>7 DEF OneCreationAtATime
  <2>1. j \in InFlight /\ j # i /\ j.c \in Containers /\ j.t \in Types
    BY <1>5, IdsFields DEF InFlight
  <2>2. promise[j.c][j.t] = j /\ cache[j.c][j.t] = None
    BY <1>0, <2>1 DEF OneCreationAtATime
  <2>3. ~(j.c = i.c /\ j.t = i.t)
    BY <1>0, <1>1, <2>1, <2>2 DEF OneCreationAtATime
  <2> QED
    BY <1>2, <2>1, <2>2, <2>3
<1>12. HandedOutIsCached'
  <2> SUFFICES ASSUME NEW e \in Containers, NEW t \in Types
               PROVE  published'[e][t] \subseteq {cache'[e][t]}
    BY DEF HandedOutIsCached
  <2>1. published[e][t] \subseteq {cache[e][t]} /\ published[e][t] \subseteq Ids
    BY <1>0 DEF HandedOutIsCached, TypeOK
  <2>2. CASE e = i.c /\ t = i.t
    <3>1. published[e][t] \subseteq {Cached(i)}
      BY <2>1, <2>2, DiAssumption DEF Cached
    <3> QED
      BY <3>1, <2>2, <1>2
  <2>3. CASE ~(e = i.c /\ t = i.t)
    BY <2>1, <2>3, <1>2
  <2> QED
    BY <2>2, <2>3
<1> QED
  BY <1>8, <1>9, <1>10, <1>11, <1>12 DEF IInv

(* A rejected creation publishes nothing and frees its key for a retry.     *)
LEMMA RejectKeeps ==
    ASSUME IInv, TypeOK', NEW i \in Ids, Reject(i)
    PROVE  IInv'
<1>0. /\ TypeOK /\ NextIsFresh /\ PromiseIsLive /\ CachedIsDone
      /\ OneCreationAtATime /\ HandedOutIsCached
  BY DEF IInv
<1>1. i.c \in Containers /\ i.t \in Types /\ i \in InFlight /\ i # None
  BY IdsFields, DiAssumption DEF Reject, Rejects, DependencyFails, ServiceFails, InFlight
<1>2. \A e \in Containers, t \in Types :
        promise'[e][t] = IF e = i.c /\ t = i.t THEN None ELSE promise[e][t]
  BY <1>0 DEF Reject, Unmark, TypeOK
<1>3. \A e \in Containers :
        creatingKeys'[e] = IF e = i.c THEN creatingKeys[e] \ {i.t} ELSE creatingKeys[e]
  BY <1>0 DEF Reject, Unmark, TypeOK
<1>4. /\ phase'[i] = "failed"
      /\ \A j \in Ids : j # i => phase'[j] = phase[j]
  BY <1>0 DEF Reject, TypeOK
<1>5. InFlight' = InFlight \ {i}
  BY <1>4 DEF InFlight
<1>6. cache' = cache /\ made' = made /\ clears' = clears /\ published' = published
  BY DEF Reject, ghostVars
<1>7. NextIsFresh'
  <2>1. phase[i] # "none"
    BY <1>1 DEF InFlight
  <2> QED
    BY <1>0, <1>4, <1>6, <2>1 DEF NextIsFresh
<1>8. PromiseIsLive'
  <2>1. ASSUME NEW e \in Containers
        PROVE  creatingKeys'[e] = {t \in Types : promise'[e][t] # None}
    <3>1. creatingKeys[e] = {t \in Types : promise[e][t] # None}
      BY <1>0 DEF PromiseIsLive
    <3>2. \A t \in Types :
            promise'[e][t] # None <=> promise[e][t] # None /\ ~(e = i.c /\ t = i.t)
      BY <1>2
    <3> QED
      BY <3>1, <3>2, <1>3
  <2>2. ASSUME NEW e \in Containers, NEW t \in Types, promise'[e][t] # None
        PROVE  promise'[e][t] \in InFlight' /\ promise'[e][t].c = e /\ promise'[e][t].t = t
    <3>1. ~(e = i.c /\ t = i.t) /\ promise'[e][t] = promise[e][t]
      BY <1>2, <2>2
    <3>2. promise[e][t] \in InFlight /\ promise[e][t].c = e /\ promise[e][t].t = t
      BY <1>0, <2>2, <3>1 DEF PromiseIsLive
    <3> QED
      BY <3>1, <3>2, <1>5
  <2> QED
    BY <2>1, <2>2 DEF PromiseIsLive
<1>9. CachedIsDone'
  <2> SUFFICES ASSUME NEW e \in Containers, NEW t \in Types, cache[e][t] # None
               PROVE  /\ cache[e][t].c = e /\ cache[e][t].t = t
                      /\ phase'[cache[e][t]] = "done"
    BY <1>6 DEF CachedIsDone
  <2>1. cache[e][t] \in Ids
    BY <1>0 DEF TypeOK
  <2>2. phase[i] # "done"
    BY <1>1 DEF InFlight
  <2> QED
    BY <1>0, <1>4, <2>1, <2>2 DEF CachedIsDone
<1>10. OneCreationAtATime'
  <2> SUFFICES ASSUME NEW j \in InFlight', clears[j.c] = 0
               PROVE  promise'[j.c][j.t] = j /\ cache[j.c][j.t] = None
    BY <1>6 DEF OneCreationAtATime
  <2>1. j \in InFlight /\ j # i /\ j.c \in Containers /\ j.t \in Types
    BY <1>5, IdsFields DEF InFlight
  <2>2. promise[j.c][j.t] = j /\ cache[j.c][j.t] = None
    BY <1>0, <2>1 DEF OneCreationAtATime
  <2>3. ~(j.c = i.c /\ j.t = i.t)
    BY <1>0, <1>1, <2>1, <2>2 DEF OneCreationAtATime
  <2> QED
    BY <1>2, <2>1, <2>2, <2>3
<1>11. HandedOutIsCached'
  BY <1>0, <1>6 DEF HandedOutIsCached
<1> QED
  BY <1>7, <1>8, <1>9, <1>10, <1>11 DEF IInv

(* Clearing forgets everything of one container.                            *)
LEMMA WipeKeeps ==
    ASSUME IInv, TypeOK', NEW c \in Containers, Wipe(c), UNCHANGED buildVars
    PROVE  IInv'
<1>0. /\ TypeOK /\ NextIsFresh /\ PromiseIsLive /\ CachedIsDone
      /\ OneCreationAtATime /\ HandedOutIsCached
  BY DEF IInv
<1>1. made' = made /\ phase' = phase /\ InFlight' = InFlight
  BY DEF buildVars, InFlight
<1>2. \A e \in Containers, t \in Types :
        /\ promise'[e][t] = IF e = c THEN None ELSE promise[e][t]
        /\ cache'[e][t] = IF e = c THEN None ELSE cache[e][t]
        /\ published'[e][t] = IF e = c THEN {} ELSE published[e][t]
  BY <1>0 DEF Wipe, TypeOK
<1>3. \A e \in Containers :
        /\ creatingKeys'[e] = IF e = c THEN {} ELSE creatingKeys[e]
        /\ clears'[e] = IF e = c THEN clears[e] + 1 ELSE clears[e]
        /\ clears[e] \in Nat
  BY <1>0 DEF Wipe, TypeOK
<1>4. NextIsFresh'
  BY <1>0, <1>1 DEF NextIsFresh
<1>5. PromiseIsLive'
  BY <1>0, <1>1, <1>2, <1>3 DEF PromiseIsLive
<1>6. CachedIsDone'
  BY <1>0, <1>1, <1>2 DEF CachedIsDone
<1>7. OneCreationAtATime'
  <2> SUFFICES ASSUME NEW j \in InFlight, clears'[j.c] = 0
               PROVE  promise'[j.c][j.t] = j /\ cache'[j.c][j.t] = None
    BY <1>1 DEF OneCreationAtATime
  <2>1. j.c \in Containers /\ j.t \in Types
    BY IdsFields DEF InFlight
  <2>2. j.c # c /\ clears[j.c] = 0
    BY <1>3, <2>1
  <2> QED
    BY <1>0, <1>2, <2>1, <2>2 DEF OneCreationAtATime
<1>8. HandedOutIsCached'
  BY <1>0, <1>2 DEF HandedOutIsCached
<1> QED
  BY <1>4, <1>5, <1>6, <1>7, <1>8 DEF IInv

(* Every step of the container keeps the invariant.                         *)
LEMMA Inductive == IInv /\ [Next]_vars => IInv'
<1> SUFFICES ASSUME IInv, [Next]_vars
             PROVE  IInv'
  OBVIOUS
<1>0. TypeOK /\ TypeOK'
  BY TypeInductive DEF IInv
<1> USE <1>0
<1>1. ASSUME NEW p \in Callers, NEW c \in Containers, NEW t \in Types, Resolve(p, c, t)
      PROVE  IInv'
  BY <1>1, LaunchKeeps DEF Resolve
<1>2. ASSUME NEW i \in Ids, ResolveLate(i)
      PROVE  IInv'
  <2>1. i.c \in Containers /\ Late[i.t] \in SUBSET Types /\ i \in InFlight
    BY <1>2, IdsFields, DiAssumption DEF ResolveLate, InFlight
  <2> QED
    BY <1>2, <2>1, LaunchKeeps DEF ResolveLate
<1>3. ASSUME NEW i \in Ids, Finish(i) \/ Reject(i)
      PROVE  IInv'
  BY <1>3, FinishKeeps, RejectKeeps
<1>4. ASSUME NEW i \in Ids, Construct(i)
      PROVE  IInv'
  <2>1. /\ \A j \in Ids : j # i => phase'[j] = phase[j]
        /\ phase[i] = "deps" /\ phase'[i] \in {"resolving", "settling"}
    BY <1>4 DEF Construct, TypeOK
  <2>2. InFlight' = InFlight
    BY <2>1 DEF InFlight
  <2>3. UNCHANGED <<cache, promise, creatingKeys, made, published, clears>>
    BY <1>4 DEF Construct, cacheVars, ghostVars
  <2>4. NextIsFresh'
    BY <2>1, <2>3 DEF NextIsFresh, IInv
  <2>5. CachedIsDone'
    BY <2>1, <2>3 DEF CachedIsDone, IInv, TypeOK
  <2> QED
    BY <2>2, <2>3, <2>4, <2>5
       DEF IInv, PromiseIsLive, OneCreationAtATime, HandedOutIsCached
<1>5. ASSUME NEW c \in Containers, ClearCache(c) \/ EndDispose(c)
      PROVE  IInv'
  BY <1>5, WipeKeeps DEF ClearCache, EndDispose
<1>6. ASSUME UNCHANGED <<cacheVars, buildVars, ghostVars>>
      PROVE  IInv'
  <2>1. UNCHANGED <<cache, promise, creatingKeys, made, phase, published, clears>>
    BY <1>6 DEF cacheVars, buildVars, ghostVars
  <2> QED
    BY <2>1 DEF IInv, NextIsFresh, PromiseIsLive, CachedIsDone, OneCreationAtATime,
                HandedOutIsCached, InFlight
<1>7. ASSUME NEW p \in Callers, CallerGets(p) \/ CallerFails(p)
      PROVE  IInv'
  BY <1>6, <1>7 DEF CallerGets, CallerFails
<1>8. ASSUME NEW c \in Containers, BeginDispose(c)
      PROVE  IInv'
  BY <1>6, <1>8 DEF BeginDispose
<1>9. ASSUME NEW c \in Containers, NEW t \in Types, DisposeService(c, t)
      PROVE  IInv'
  BY <1>6, <1>9 DEF DisposeService
<1>10. CASE UNCHANGED vars
  BY <1>6, <1>10 DEF vars
<1> QED
  BY <1>1, <1>2, <1>3, <1>4, <1>5, <1>7, <1>8, <1>9, <1>10 DEF Next, CreationStep

(* The invariant holds in every reachable state.                            *)
LEMMA InvariantHolds == Spec => []IInv
<1>1. Init => IInv
  <2> SUFFICES ASSUME Init
               PROVE  IInv
    OBVIOUS
  <2>1. TypeOK
    BY DiAssumption DEF Init, TypeOK, CallState, ChildrenOf, Phases
  <2>2. InFlight = {}
    BY DEF Init, InFlight
  <2> QED
    BY <2>1, <2>2 DEF Init, IInv, NextIsFresh, PromiseIsLive, CachedIsDone,
                      OneCreationAtATime, HandedOutIsCached
<1> QED
  BY <1>1, Inductive, PTL DEF Spec

(* No settled creation leaves a promise or a creation mark behind.          *)
THEOREM PromisesAreLive == Spec => []PromiseIsLive
<1>1. IInv => PromiseIsLive
  BY DEF IInv
<1> QED
  BY <1>1, InvariantHolds, PTL

(* Before its first clear a container runs one creation per key at most.    *)
THEOREM NoDuplicateCreation == Spec => []OneCreationAtATime
<1>1. IInv => OneCreationAtATime
  BY DEF IInv
<1> QED
  BY <1>1, InvariantHolds, PTL

(* What a container answers is what it caches, across clears too.           *)
THEOREM AnswersFromCache == Spec => []HandedOutIsCached
<1>1. IInv => HandedOutIsCached
  BY DEF IInv
<1> QED
  BY <1>1, InvariantHolds, PTL
-----------------------------------------------------------------------------
(* The refinement: a call that creates services at once and a creation that *)
(* ends are answers of the store, a clear forgets, the rest is invisible.   *)

(* A call that launches creations answers with the synchronous ones.        *)
LEMMA LaunchAnswers ==
    ASSUME TypeOK, NEW c \in Containers, NEW roots \in SUBSET Types,
           NEW who, Launch(c, roots, who)
    PROVE  Store!Answer(c)
<1>1. PICK started, atOnce \in SUBSET Types : LaunchOutcome(c, started, atOnce, who)
  BY LaunchEffect
<1>2. ASSUME NEW e \in Containers, NEW t \in Types
      PROVE  /\ cache'[e][t] = IF e = c /\ t \in atOnce THEN NewId(c, t) ELSE cache[e][t]
             /\ published'[e][t] = IF e = c /\ t \in atOnce
                                   THEN published[e][t] \cup {NewId(c, t)} ELSE published[e][t]
  <2>1. cache'[e][t] = IF e = c /\ t \in atOnce THEN NewId(c, t) ELSE cache[e][t]
    BY <1>1 DEF LaunchOutcome, TypeOK
  <2>2. published'[e][t] = IF e = c /\ t \in atOnce
                           THEN published[e][t] \cup {NewId(c, t)} ELSE published[e][t]
    BY <1>1 DEF LaunchOutcome, TypeOK
  <2> QED
    BY <2>1, <2>2
<1>3. \A t \in atOnce : cache[c][t] = None /\ NewId(c, t) \in Ids
  BY <1>1 DEF LaunchOutcome
<1>4. ASSUME NEW t \in Types
      PROVE  Store!Answered(c, t) \/ Store!Untouched(c, t)
  BY <1>2, <1>3 DEF Store!Answered, Store!Untouched
<1>5. ASSUME NEW e \in Containers \ {c}, NEW t \in Types
      PROVE  Store!Untouched(e, t)
  BY <1>2 DEF Store!Untouched
<1> QED
  BY <1>4, <1>5 DEF Store!Answer

(* A fulfilled creation is the answer of one cell.                          *)
LEMMA FinishAnswers ==
    ASSUME TypeOK, NEW i \in Ids, Finish(i)
    PROVE  Store!Answer(i.c)
<1>1. i.c \in Containers /\ i.t \in Types
  BY IdsFields
<1>2. Cached(i) \in Ids /\ cache[i.c][i.t] \in {None, Cached(i)}
  BY CachedType DEF Cached
<1>3. ASSUME NEW e \in Containers, NEW t \in Types
      PROVE  /\ cache'[e][t] = IF e = i.c /\ t = i.t THEN Cached(i) ELSE cache[e][t]
             /\ published'[e][t] = IF e = i.c /\ t = i.t
                                   THEN published[e][t] \cup {Cached(i)} ELSE published[e][t]
  <2>1. /\ cache \in [Containers -> [Types -> Ids \cup {None}]]
        /\ published \in [Containers -> [Types -> SUBSET Ids]]
    BY DEF TypeOK
  <2>2. /\ cache' = [cache EXCEPT ![i.c][i.t] = Cached(i)]
        /\ published' = [published EXCEPT ![i.c][i.t] = @ \cup {Cached(i)}]
    BY DEF Finish, Keep
  <2>3. cache'[e][t] = IF e = i.c /\ t = i.t THEN Cached(i) ELSE cache[e][t]
    BY <1>1, <2>1, <2>2
  <2>4. published'[e][t] = IF e = i.c /\ t = i.t
                           THEN published[e][t] \cup {Cached(i)} ELSE published[e][t]
    BY <1>1, <2>1, <2>2
  <2> QED
    BY <2>3, <2>4
<1>4. ASSUME NEW t \in Types
      PROVE  Store!Answered(i.c, t) \/ Store!Untouched(i.c, t)
  BY <1>1, <1>2, <1>3 DEF Store!Answered, Store!Untouched
<1>5. ASSUME NEW e \in Containers \ {i.c}, NEW t \in Types
      PROVE  Store!Untouched(e, t)
  BY <1>3 DEF Store!Untouched
<1> QED
  BY <1>4, <1>5 DEF Store!Answer

(* Clearing a container empties its cells and no others.                    *)
LEMMA WipeForgets ==
    ASSUME TypeOK, NEW c \in Containers, Wipe(c)
    PROVE  Store!Forget(c)
<1>1. ASSUME NEW e \in Containers, NEW t \in Types
      PROVE  /\ cache'[e][t] = IF e = c THEN None ELSE cache[e][t]
             /\ published'[e][t] = IF e = c THEN {} ELSE published[e][t]
  BY DEF Wipe, TypeOK
<1> QED
  BY <1>1 DEF Store!Forget, Store!Untouched

(* Every step is a step of the store or leaves the store unchanged.         *)
LEMMA StepRefines == TypeOK /\ [Next]_vars => [Store!Next]_(Store!vars)
<1> SUFFICES ASSUME TypeOK, [Next]_vars
             PROVE  Store!Next \/ UNCHANGED Store!vars
  OBVIOUS
<1>1. ASSUME NEW p \in Callers, NEW c \in Containers, NEW t \in Types, Resolve(p, c, t)
      PROVE  Store!Next
  BY <1>1, LaunchAnswers DEF Resolve, Store!Next
<1>2. ASSUME NEW i \in Ids, ResolveLate(i)
      PROVE  Store!Next
  <2>1. i.c \in Containers /\ Late[i.t] \in SUBSET Types
    BY IdsFields, DiAssumption
  <2> QED
    BY <1>2, <2>1, LaunchAnswers DEF ResolveLate, Store!Next
<1>3. ASSUME NEW i \in Ids, Finish(i)
      PROVE  Store!Next
  BY <1>3, FinishAnswers, IdsFields DEF Store!Next
<1>4. ASSUME NEW c \in Containers, ClearCache(c) \/ EndDispose(c)
      PROVE  Store!Next
  BY <1>4, WipeForgets DEF ClearCache, EndDispose, Store!Next
<1>5. ASSUME UNCHANGED <<cache, published>>
      PROVE  UNCHANGED Store!vars
  BY <1>5 DEF Store!vars
<1>6. ASSUME NEW i \in Ids, Construct(i) \/ Reject(i)
      PROVE  UNCHANGED Store!vars
  BY <1>5, <1>6 DEF Construct, Reject, cacheVars, ghostVars
<1>7. ASSUME NEW p \in Callers, CallerGets(p) \/ CallerFails(p)
      PROVE  UNCHANGED Store!vars
  BY <1>5, <1>7 DEF CallerGets, CallerFails, cacheVars, ghostVars
<1>8. ASSUME NEW c \in Containers, NEW t \in Types, DisposeService(c, t)
      PROVE  UNCHANGED Store!vars
  BY <1>5, <1>8 DEF DisposeService, cacheVars, ghostVars
<1>9. ASSUME NEW c \in Containers, BeginDispose(c)
      PROVE  UNCHANGED Store!vars
  BY <1>5, <1>9 DEF BeginDispose, cacheVars, ghostVars
<1>10. CASE UNCHANGED vars
  BY <1>5, <1>10 DEF vars, cacheVars, ghostVars
<1> QED
  BY <1>1, <1>2, <1>3, <1>4, <1>6, <1>7, <1>8, <1>9, <1>10 DEF Next, CreationStep

(* The container implements the store of single instances: for any tree,    *)
(* any services and any interleaving of calls, failures and clears.         *)
THEOREM ContainerImplementsStore == Spec => ImplementsStore
<1>1. Init => Store!Init
  BY DEF Init, Store!Init
<1> QED
  BY <1>1, StepRefines, TypeCorrect, PTL DEF Spec, ImplementsStore, Store!Spec
==============================================================================
