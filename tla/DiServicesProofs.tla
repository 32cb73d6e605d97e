--------------------------- MODULE DiServicesProofs ---------------------------
(***************************************************************************)
(* What a container shares of a @PerInstanceCheck service, and which       *)
(* implementations it finds behind a type, for any names, containers and   *)
(* number of constructions.                                                *)
(***************************************************************************)
EXTENDS DiInstanceCheck, DiRegistry, FilterProofs

-----------------------------------------------------------------------------
(* DiInstanceCheck.                                                         *)

(* The instance that is made next is in no use yet.                         *)
NextIsUnused == \A i \in Services : i.n > built => phase[i] = "none"

(* The inductive invariant behind the theorems.                             *)
CheckInv == CheckTypeOK /\ NextIsUnused /\ CacheFilledOnce

(* What making an instance does: one that was not in use is resolving now.  *)
LEMMA CreateEffect ==
    ASSUME CheckTypeOK, NextIsUnused,
           NEW p \in Callers, NEW name \in Names, NEW i \in Services, Create(p, name, i)
    PROVE  /\ built' \in 0..MaxBuilt
           /\ call' \in [Callers -> Calls]
           /\ phase' \in [Services -> {"none", "resolving", "done", "failed"}]
           /\ phase[i] = "none" /\ phase'[i] = "resolving"
           /\ \A j \in Services \ {i} : phase'[j] = phase[j]
           /\ NextIsUnused'
<1>0. MaxBuilt \in Nat /\ built \in 0..MaxBuilt
  BY CheckAssumption DEF CheckTypeOK
<1>1. /\ built < MaxBuilt /\ built' = built + 1
      /\ i = [n |-> built + 1, name |-> name]
      /\ phase' = [phase EXCEPT ![i] = "resolving"]
      /\ call' = [call EXCEPT ![p] = [st |-> "waiting", name |-> name, id |-> i]]
  BY DEF Create, Waits
<1>2. built' \in 0..MaxBuilt
  BY <1>0, <1>1
<1>3. call' \in [Callers -> Calls]
  BY <1>1 DEF CheckTypeOK, Calls
<1>4. /\ phase' \in [Services -> {"none", "resolving", "done", "failed"}]
      /\ phase'[i] = "resolving"
      /\ \A j \in Services \ {i} : phase'[j] = phase[j]
  BY <1>1 DEF CheckTypeOK
<1>5. i.n = built + 1
  BY <1>1
<1>6. phase[i] = "none"
  BY <1>0, <1>5 DEF NextIsUnused
<1>7. NextIsUnused'
  <2> SUFFICES ASSUME NEW j \in Services, j.n > built'
               PROVE  phase'[j] = "none"
    BY DEF NextIsUnused
  <2>1. j.n \in Nat
    BY <1>0 DEF Services
  <2>2. j # i /\ j.n > built
    BY <1>0, <1>1, <1>5, <2>1
  <2> QED
    BY <1>4, <2>2 DEF NextIsUnused
<1> QED
  BY <1>2, <1>3, <1>4, <1>6, <1>7

(* Nothing is cached before the first resolve.                              *)
LEMMA CheckInitially == CheckInit => CheckInv
<1> SUFFICES ASSUME CheckInit
             PROVE  CheckInv
  OBVIOUS
<1>1. CheckTypeOK
  BY CheckAssumption DEF CheckInit, CheckTypeOK, Calls
<1>2. NextIsUnused
  BY DEF CheckInit, NextIsUnused
<1>3. CacheFilledOnce
  BY DEF CheckInit, CacheFilledOnce
<1> QED
  BY <1>1, <1>2, <1>3 DEF CheckInv

(* The end of a creation fills the cache only when it is empty, since a     *)
(* creation that is offered to the cache was started while it was.          *)
LEMMA ResolvedKeeps ==
    ASSUME CheckInv, NEW i \in Services, Resolved(i)
    PROVE  CheckInv'
<1>0. CheckTypeOK /\ NextIsUnused /\ CacheFilledOnce
  BY DEF CheckInv
<1>1. /\ phase[i] = "resolving" /\ phase' = [phase EXCEPT ![i] = "done"]
      /\ pending' = IF pending = i THEN NoService ELSE pending
      /\ cached' = IF pending = i THEN i ELSE cached
      /\ UNCHANGED <<built, call, shared>>
  BY DEF Resolved, Settle
<1>2. phase'[i] = "done" /\ \A j \in Services \ {i} : phase'[j] = phase[j]
  BY <1>0, <1>1 DEF CheckTypeOK
<1>n. NoService \notin Services
  BY CheckAssumption
<1>3. CheckTypeOK'
  BY <1>0, <1>1 DEF CheckTypeOK
<1>4. NextIsUnused'
  BY <1>0, <1>1, <1>2 DEF NextIsUnused
<1>5. CASE pending = i
  <2>1. cached = NoService
    BY <1>0, <1>5, <1>n DEF CacheFilledOnce
  <2>2. shared = {}
    BY <1>0, <1>n, <2>1 DEF CacheFilledOnce, CheckTypeOK
  <2> QED
    BY <1>1, <1>2, <1>3, <1>4, <1>5, <2>2 DEF CheckInv, CacheFilledOnce
<1>6. CASE pending # i
  <2>1. cached # NoService => phase'[cached] = "done"
    BY <1>0, <1>1, <1>2 DEF CacheFilledOnce, CheckTypeOK
  <2>2. pending # NoService => phase'[pending] = "resolving"
    BY <1>0, <1>2, <1>6 DEF CacheFilledOnce, CheckTypeOK
  <2> QED
    BY <1>0, <1>1, <1>3, <1>4, <1>6, <2>1, <2>2 DEF CheckInv, CacheFilledOnce
<1> QED
  BY <1>5, <1>6

(* A creation that fails leaves the cache alone and frees the key.          *)
LEMMA FailureKeeps ==
    ASSUME CheckInv, NEW i \in Services, ResolveFails(i)
    PROVE  CheckInv'
<1>0. CheckTypeOK /\ NextIsUnused /\ CacheFilledOnce
  BY DEF CheckInv
<1>1. /\ phase[i] = "resolving" /\ phase' = [phase EXCEPT ![i] = "failed"]
      /\ pending' = IF pending = i THEN NoService ELSE pending
      /\ UNCHANGED <<cached, built, call, shared>>
  BY DEF ResolveFails, Settle
<1>2. \A j \in Services \ {i} : phase'[j] = phase[j]
  BY <1>0, <1>1 DEF CheckTypeOK
<1>3. CheckTypeOK'
  BY <1>0, <1>1 DEF CheckTypeOK
<1>4. NextIsUnused'
  BY <1>0, <1>1, <1>2 DEF NextIsUnused
<1>5. cached # NoService => pending' = NoService /\ phase'[cached] = "done"
  BY <1>0, <1>1, <1>2 DEF CacheFilledOnce, CheckTypeOK
<1>6. pending' # NoService => phase'[pending'] = "resolving"
  BY <1>0, <1>1, <1>2 DEF CacheFilledOnce, CheckTypeOK
<1> QED
  BY <1>0, <1>1, <1>3, <1>4, <1>5, <1>6 DEF CheckInv, CacheFilledOnce

(* Every step of a caller or a creation keeps the invariant.                *)
LEMMA CheckInductive == CheckInv /\ [CheckNext]_checkVars => CheckInv'
<1> SUFFICES ASSUME CheckInv, [CheckNext]_checkVars
             PROVE  CheckInv'
  OBVIOUS
<1>0. CheckTypeOK /\ NextIsUnused /\ CacheFilledOnce
  BY DEF CheckInv
<1>n. NoService \notin Services
  BY CheckAssumption
<1>1. ASSUME NEW p \in Callers, NEW name \in Names, ResolveFound(p, name)
      PROVE  CheckInv'
  <2>1. /\ cached # NoService /\ shared' = shared \cup {cached}
        /\ call' = [call EXCEPT ![p] = [st |-> "got", name |-> name, id |-> cached]]
        /\ UNCHANGED <<cached, pending, phase, built>>
    BY <1>1 DEF ResolveFound, Found
  <2>2. CheckTypeOK'
    BY <1>0, <2>1 DEF CheckTypeOK, Calls
  <2> QED
    BY <1>0, <2>1, <2>2 DEF CheckInv, NextIsUnused, CacheFilledOnce
<1>2. ASSUME NEW p \in Callers, NEW name \in Names, ResolveBeside(p, name)
      PROVE  CheckInv'
  <2>1. PICK i \in Services : Create(p, name, i)
    BY <1>2 DEF ResolveBeside
  <2>2. cached # NoService /\ UNCHANGED <<cached, pending, shared>>
    BY <1>2 DEF ResolveBeside
  <2>3. CheckTypeOK'
    BY <1>0, <2>1, <2>2, CreateEffect DEF CheckTypeOK
  <2>4. phase'[cached] = "done" /\ pending = NoService
    BY <1>0, <2>1, <2>2, CreateEffect DEF CacheFilledOnce, CheckTypeOK
  <2> QED
    BY <1>0, <2>1, <2>2, <2>3, <2>4, CreateEffect DEF CheckInv, CacheFilledOnce
<1>3. ASSUME NEW p \in Callers, NEW name \in Names, ResolveJoins(p, name)
      PROVE  CheckInv'
  <2>1. /\ pending # NoService
        /\ call' = [call EXCEPT ![p] = [st |-> "waiting", name |-> name, id |-> pending]]
        /\ UNCHANGED <<cached, pending, phase, built, shared>>
    BY <1>3 DEF ResolveJoins, Waits
  <2>2. CheckTypeOK'
    BY <1>0, <2>1 DEF CheckTypeOK, Calls
  <2> QED
    BY <1>0, <2>1, <2>2 DEF CheckInv, NextIsUnused, CacheFilledOnce
<1>4. ASSUME NEW p \in Callers, NEW name \in Names, ResolveCreates(p, name)
      PROVE  CheckInv'
  <2>1. PICK i \in Services : Create(p, name, i) /\ pending' = i
    BY <1>4 DEF ResolveCreates
  <2>2. cached = NoService /\ UNCHANGED <<cached, shared>>
    BY <1>4 DEF ResolveCreates
  <2>3. CheckTypeOK'
    BY <1>0, <2>1, <2>2, CreateEffect DEF CheckTypeOK
  <2> QED
    BY <1>0, <2>1, <2>2, <2>3, CreateEffect DEF CheckInv, CacheFilledOnce
<1>5. ASSUME NEW i \in Services, Resolved(i) \/ ResolveFails(i)
      PROVE  CheckInv'
  BY <1>5, ResolvedKeeps, FailureKeeps
<1>6. ASSUME NEW p \in Callers, CallerGets(p) \/ CallerFails(p)
      PROVE  CheckInv'
  <2>1. UNCHANGED <<cached, pending, phase, built, shared>>
    BY <1>6 DEF CallerGets, CallerFails
  <2>2. call' \in [Callers -> Calls]
    BY <1>0, <1>6 DEF CallerGets, CallerFails, CheckTypeOK, Calls
  <2> QED
    BY <1>0, <2>1, <2>2 DEF CheckInv, CheckTypeOK, NextIsUnused, CacheFilledOnce
<1>7. CASE UNCHANGED checkVars
  BY <1>0, <1>7 DEF checkVars, CheckInv, CheckTypeOK, NextIsUnused, CacheFilledOnce
<1> QED
  BY <1>1, <1>2, <1>3, <1>4, <1>5, <1>6, <1>7 DEF CheckNext

(* The invariant holds in every reachable state.                            *)
LEMMA CheckInvHolds == CheckSpec => []CheckInv
  BY CheckInitially, CheckInductive, PTL DEF CheckSpec

(* The cache of a checked service is filled once, by a creation that found  *)
(* it empty, and nothing else is ever shared: every other instance belongs  *)
(* to the callers of the one request it was made for.                       *)
THEOREM SharedIsCached == CheckSpec => []CacheFilledOnce
<1>1. CheckInv => CacheFilledOnce
  BY DEF CheckInv
<1> QED
  BY <1>1, CheckInvHolds, PTL

(* Once the cache is filled, whoever asks gets an instance with the options *)
(* that were asked for.                                                     *)
THEOREM LateCallersServed == CheckSpec => LateCallersGetTheirs
<1>1. CheckTypeOK /\ [CheckNext]_checkVars =>
        [\A p \in Callers :
           cached # NoService /\ call[p].st = "idle" /\ call'[p].st # "idle"
           => call'[p].id.name = call'[p].name]_checkVars
  <2> SUFFICES ASSUME CheckTypeOK, CheckNext, NEW p \in Callers,
                      cached # NoService, call[p].st = "idle", call'[p].st # "idle"
               PROVE  call'[p].id.name = call'[p].name
    OBVIOUS
  <2>0. call \in [Callers -> Calls]
    BY DEF CheckTypeOK
  <2>1. ASSUME NEW q \in Callers, NEW name \in Names, ResolveFound(q, name)
        PROVE  call'[p].id.name = call'[p].name
    <3>1. call' = [call EXCEPT ![q] = [st |-> "got", name |-> name, id |-> cached]]
          /\ cached.name = name
      BY <2>1 DEF ResolveFound, Found
    <3>2. p = q
      BY <2>0, <3>1
    <3> QED
      BY <2>0, <3>1, <3>2
  <2>2. ASSUME NEW q \in Callers, NEW name \in Names, ResolveBeside(q, name)
        PROVE  call'[p].id.name = call'[p].name
    <3>1. PICK i \in Services : Create(q, name, i)
      BY <2>2 DEF ResolveBeside
    <3>2. call' = [call EXCEPT ![q] = [st |-> "waiting", name |-> name, id |-> i]]
          /\ i.name = name
      BY <3>1 DEF Create, Waits
    <3>3. p = q
      BY <2>0, <3>2
    <3> QED
      BY <2>0, <3>2, <3>3
  <2>3. ASSUME NEW q \in Callers, NEW name \in Names,
               ResolveJoins(q, name) \/ ResolveCreates(q, name)
        PROVE  FALSE
    BY <2>3 DEF ResolveJoins, ResolveCreates
  <2>4. ASSUME NEW i \in Services, Resolved(i) \/ ResolveFails(i)
        PROVE  FALSE
    BY <2>4 DEF Resolved, ResolveFails
  <2>5. ASSUME NEW q \in Callers, CallerGets(q) \/ CallerFails(q)
        PROVE  FALSE
    BY <2>0, <2>5 DEF CallerGets, CallerFails
  <2> QED
    BY <2>1, <2>2, <2>3, <2>4, <2>5 DEF CheckNext
<1>2. CheckInv => CheckTypeOK
  BY DEF CheckInv
<1> QED
  BY <1>1, <1>2, CheckInvHolds, PTL DEF CheckSpec, LateCallersGetTheirs

-----------------------------------------------------------------------------
(* DiRegistry.                                                              *)

(* Variables within their types, whatever the registries list.              *)
RegVarsOK ==
    /\ registry \in [Containers -> {None} \cup Seq(Impls)]
    /\ single \in [Containers -> [Impls -> Instances \cup {None}]]
    /\ list \in [Containers -> Seq(Instances)]
    /\ made \in 0..MaxMade
    /\ told \in [Containers -> [Impls -> SUBSET Instances]]

(* A registry lists a type once, a list has one instance of a class.        *)
OneOfEach(s) == \A j, k \in DOMAIN s : s[j].i = s[k].i => j = k
ListedOnce ==
    \A c \in Containers :
        /\ registry[c] # None => Distinct(registry[c])
        /\ OneOfEach(list[c])

(* The k-th container of the line of c is the first that holds i.           *)
Nearest(c, i, k) == k \in Holders(c, i) /\ \A l \in Holders(c, i) : k <= l
ToldTheNearest ==
    \A c \in Containers, i \in Impls :
        told[c][i] # {} =>
            /\ i \notin Fresh
            /\ \E k \in Holders(c, i) : Nearest(c, i, k) /\ told[c][i] = {single[Line[c][k]][i]}

RegistryInv == RegVarsOK /\ ListedOnce /\ ToldTheNearest

(* Containers of a line, and the lines that begin there.                    *)
LEMMA LineFacts ==
    ASSUME NEW c \in Containers
    PROVE  /\ Len(Line[c]) \in Nat \ {0} /\ DOMAIN Line[c] = 1..Len(Line[c]) /\ 1 \in DOMAIN Line[c]
           /\ Line[c][1] = c
           /\ \A k \in DOMAIN Line[c] : Line[c][k] \in Containers
           /\ \A k, l \in DOMAIN Line[c] : k <= l =>
                 /\ l - k + 1 \in DOMAIN Line[Line[c][k]]
                 /\ Line[Line[c][k]][l - k + 1] = Line[c][l]
<1>1. Line[c] \in Seq(Containers) /\ Len(Line[c]) > 0 /\ Line[c][1] = c
  BY RegistryAssumption
<1>2. /\ Len(Line[c]) \in Nat \ {0} /\ DOMAIN Line[c] = 1..Len(Line[c]) /\ 1 \in DOMAIN Line[c]
      /\ \A k \in DOMAIN Line[c] : Line[c][k] \in Containers
  BY <1>1, LenProperties, ElementOfSeq
<1>3. ASSUME NEW k \in DOMAIN Line[c], NEW l \in DOMAIN Line[c], k <= l
      PROVE  /\ l - k + 1 \in DOMAIN Line[Line[c][k]]
             /\ Line[Line[c][k]][l - k + 1] = Line[c][l]
  <2> DEFINE n == Len(Line[c])
             rest == SubSeq(Line[c], k, n)
  <2>1. k \in 1..n /\ l \in 1..n /\ n \in Nat /\ k \in Int /\ n \in Int /\ k <= n
    BY <1>2
  <2>2. \A j \in k..n : Line[c][j] \in Containers
    BY <1>2, <2>1
  <2>4. Line[Line[c][k]] = rest
    BY RegistryAssumption
  <2> HIDE DEF n
  <2>3. /\ rest \in Seq(Containers) /\ Len(rest) = n - k + 1
        /\ \A j \in 1..(n - k + 1) : rest[j] = Line[c][k + j - 1]
    BY <2>1, <2>2, SubSeqProperties
  <2> HIDE DEF rest
  <2>5. DOMAIN rest = 1..(n - k + 1) /\ l - k + 1 \in 1..(n - k + 1) /\ k + (l - k + 1) - 1 = l
    BY <1>3, <2>1, <2>3, LenProperties
  <2> QED
    BY <2>3, <2>4, <2>5
<1> QED
  BY <1>1, <1>2, <1>3

(* A set of numbers has a least one.                                        *)
LEMMA Least ==
    ASSUME NEW S \in SUBSET Nat, S # {}
    PROVE  \E k \in S : \A l \in S : k <= l
<1>1. PICK k \in S : \A l \in S : <<l, k>> \notin OpToRel(<, Nat)
  BY WFMin, NatLessThanWellFounded, Zenon
<1>2. \A l \in S : ~(l < k)
  BY <1>1, Zenon DEF OpToRel
<1> QED
  BY <1>2

(* What getOrCreate answers is in the nearest container that holds it.      *)
LEMMA GetsNearest ==
    ASSUME NEW c \in Containers, NEW i \in Impls, Has(c, i)
    PROVE  \E k \in Holders(c, i) : Nearest(c, i, k) /\ Get(c, i) = single[Line[c][k]][i]
<1>1. Holders(c, i) \in SUBSET Nat /\ Holders(c, i) # {}
  BY LineFacts DEF Holders, Search, Has
<1>2. PICK k \in Holders(c, i) : \A l \in Holders(c, i) : k <= l
  BY <1>1, Least
<1>3. Min(Holders(c, i)) = k
  BY <1>1, <1>2 DEF Min
<1> QED
  BY <1>2, <1>3 DEF Nearest, Get

(* At most one container of a line is the nearest that registers.           *)
LEMMA NearestOne ==
    ASSUME NEW c \in Containers, NEW i \in Impls, NEW k, NEW l, Nearest(c, i, k), Nearest(c, i, l)
    PROVE  k = l
BY LineFacts DEF Nearest, Holders, Search

(* The registry a container asks lists types, each once.                    *)
LEMMA RegisteredOnce ==
    ASSUME RegVarsOK, ListedOnce, NEW c \in Containers, Registries(c) # {}
    PROVE  Registered(c) \in Seq(Impls) /\ Distinct(Registered(c))
<1>1. Registries(c) \in SUBSET Nat
  BY LineFacts DEF Registries
<1>2. PICK k \in Registries(c) : \A l \in Registries(c) : k <= l
  BY <1>1, Least
<1>3. Min(Registries(c)) = k
  BY <1>1, <1>2 DEF Min
<1>4. Line[c][k] \in Containers /\ registry[Line[c][k]] # None /\ Registered(c) = registry[Line[c][k]]
  BY <1>3, LineFacts DEF Registries, Registered
<1> QED
  BY <1>4 DEF RegVarsOK, ListedOnce

(* What is registered is listed once, if what is added is.                  *)
LEMMA WithOnce ==
    ASSUME NEW types \in {None} \cup Seq(Impls), types # None => Distinct(types),
           NEW s \in Seq(Impls), Distinct(s)
    PROVE  /\ With(types, s) \in {None} \cup Seq(Impls)
           /\ With(types, s) # None => Distinct(With(types, s))
<1> DEFINE old == IF types = None THEN << >> ELSE types
           more == Filtered(s, Impls \ ToSet(old))
<1>1. old \in Seq(Impls) /\ Distinct(old)
  BY DEF Distinct
<1> HIDE DEF old
<1>2. FilterOK(more, s, Impls, Impls \ ToSet(old))
  BY FilteredFacts
<1>3. /\ more \in Seq(Impls) /\ Distinct(more)
      /\ \A j \in DOMAIN more : \A k \in DOMAIN old : more[j] # old[k]
  BY <1>2 DEF FilterOK, TakenFrom, ToSet
<1> HIDE DEF more
<1>4. old \o more \in Seq(Impls) /\ Distinct(old \o more)
  <2>1. /\ old \o more \in Seq(Impls) /\ Len(old \o more) = Len(old) + Len(more)
        /\ \A j \in 1..(Len(old) + Len(more)) :
              (old \o more)[j] = IF j <= Len(old) THEN old[j] ELSE more[j - Len(old)]
    BY <1>1, <1>3, ConcatProperties
  <2>2. /\ DOMAIN (old \o more) = 1..(Len(old) + Len(more))
        /\ DOMAIN old = 1..Len(old) /\ DOMAIN more = 1..Len(more)
        /\ Len(old) \in Nat /\ Len(more) \in Nat
    BY <1>1, <1>3, <2>1, LenProperties
  <2> DEFINE all == old \o more
  <2> HIDE DEF all
  <2>3. \A j \in DOMAIN all :
           \/ j \in DOMAIN old /\ all[j] = old[j]
           \/ j - Len(old) \in DOMAIN more /\ all[j] = more[j - Len(old)]
    BY <2>1, <2>2 DEF all
  <2>4. Distinct(all)
    <3> SUFFICES ASSUME NEW j \in DOMAIN all, NEW k \in DOMAIN all, all[j] = all[k]
                 PROVE  j = k
      BY DEF Distinct
    <3>1. j \in Nat /\ k \in Nat /\ Len(old) \in Nat
      BY <2>2 DEF all
    <3> QED
      BY <1>1, <1>3, <2>3, <3>1 DEF Distinct
  <2> QED
    BY <2>1, <2>4 DEF all
<1>5. With(types, s) = types \/ With(types, s) = old \o more
  BY DEF With, old, more
<1> QED
  BY <1>4, <1>5

(* A sequence of one element has it once.                                   *)
LEMMA OneElement ==
    ASSUME NEW S, NEW x \in S
    PROVE  <<x>> \in Seq(S) /\ Distinct(<<x>>)
BY DEF Distinct

(* Nothing has been registered, made or told.                               *)
LEMMA RegistryInvInit == Init => RegistryInv
<1> SUFFICES ASSUME Init
             PROVE  RegistryInv
  OBVIOUS
<1>1. RegVarsOK
  BY RegistryAssumption DEF Init, RegVarsOK
<1>2. ListedOnce
  BY DEF Init, ListedOnce, OneOfEach
<1>3. ToldTheNearest
  BY DEF Init, ToldTheNearest
<1> QED
  BY <1>1, <1>2, <1>3 DEF RegistryInv

(* register and unregister leave the caches alone.                          *)
LEMMA RegisterKeeps ==
    ASSUME RegistryInv, NEW c \in Containers, NEW i \in Impls, Register(c, i) \/ Unregister(c, i)
    PROVE  RegistryInv'
<1>0. RegVarsOK /\ ListedOnce /\ ToldTheNearest
  BY DEF RegistryInv
<1>1. UNCHANGED <<single, list, made, told>>
  BY DEF Register, Unregister
<1>2. PICK types \in {None} \cup Seq(Impls) :
         registry' = [registry EXCEPT ![c] = types] /\ (types # None => Distinct(types))
  <2>1. registry[c] \in {None} \cup Seq(Impls) /\ (registry[c] # None => Distinct(registry[c]))
    BY <1>0 DEF RegVarsOK, ListedOnce
  <2>2. CASE Register(c, i)
    <3>1. registry' = [registry EXCEPT ![c] = With(registry[c], <<i>>)]
      BY <1>0, <2>2 DEF Register, RegVarsOK
    <3> QED
      BY <2>1, <3>1, WithOnce, OneElement, Zenon
  <2>3. CASE Unregister(c, i)
    <3>1. /\ registry[c] \in Seq(Impls) /\ Distinct(registry[c])
          /\ registry' = [registry EXCEPT ![c] = Filtered(registry[c], Impls \ {i})]
      BY <1>0, <2>1, <2>3 DEF Unregister, RegVarsOK
    <3>2. FilterOK(Filtered(registry[c], Impls \ {i}), registry[c], Impls, Impls \ {i})
      BY <3>1, FilteredFacts
    <3> QED
      BY <3>1, <3>2, Zenon DEF FilterOK
  <2> QED
    BY <2>2, <2>3
<1>3. RegVarsOK'
  BY <1>0, <1>1, <1>2 DEF RegVarsOK
<1>4. ListedOnce'
  BY <1>0, <1>1, <1>2 DEF ListedOnce, RegVarsOK
<1>5. ToldTheNearest'
  BY <1>0, <1>1 DEF ToldTheNearest, Nearest, Holders, Search
<1> QED
  BY <1>3, <1>4, <1>5 DEF RegistryInv

(* What is uncached is forgotten by all who might have been told of it.     *)
LEMMA UncacheKeeps ==
    ASSUME RegistryInv, NEW c \in Containers, NEW i \in Impls, Uncache(c, i)
    PROVE  RegistryInv'
<1>0. RegVarsOK /\ ListedOnce /\ ToldTheNearest
  BY DEF RegistryInv
<1>1. /\ single' = [single EXCEPT ![c][i] = None]
      /\ told' = [d \in Containers |->
           IF c \in ToSet(Line[d]) THEN [told[d] EXCEPT ![i] = {}] ELSE told[d]]
      /\ UNCHANGED <<registry, list, made>>
  BY DEF Uncache
<1>2. RegVarsOK'
  BY <1>0, <1>1 DEF RegVarsOK
<1>3. ListedOnce'
  BY <1>0, <1>1 DEF ListedOnce
<1>4. ToldTheNearest'
  <2> SUFFICES ASSUME NEW d \in Containers, NEW j \in Impls, told'[d][j] # {}
               PROVE  /\ j \notin Fresh
                      /\ \E k \in Holders(d, j)' : Nearest(d, j, k)' /\ told'[d][j] = {single'[Line[d][k]][j]}
    BY DEF ToldTheNearest
  <2>1. told'[d][j] = told[d][j] /\ (j = i => \A k \in DOMAIN Line[d] : Line[d][k] # c)
    BY <1>0, <1>1 DEF RegVarsOK, ToSet
  <2>2. \A k \in DOMAIN Line[d] : single'[Line[d][k]][j] = single[Line[d][k]][j]
    BY <1>0, <1>1, <2>1, LineFacts DEF RegVarsOK
  <2>3. Search(d, j) \subseteq DOMAIN Line[d]
    BY LineFacts DEF Search
  <2>4. Holders(d, j)' = Holders(d, j)
    BY <2>2, <2>3 DEF Holders, Search
  <2>5. PICK k \in Holders(d, j) : Nearest(d, j, k) /\ told[d][j] = {single[Line[d][k]][j]}
    BY <1>0, <2>1 DEF ToldTheNearest
  <2>6. k \in DOMAIN Line[d]
    BY <2>3 DEF Holders
  <2>7. j \notin Fresh
    BY <1>0, <2>1 DEF ToldTheNearest
  <2>8. Nearest(d, j, k)' /\ k \in Holders(d, j)'
    BY <2>4, <2>5 DEF Nearest
  <2> QED
    BY <2>1, <2>2, <2>5, <2>6, <2>7, <2>8
<1> QED
  BY <1>2, <1>3, <1>4 DEF RegistryInv

(* A container makes an instance of a class none on its line holds: those   *)
(* below that were told of one had it from nearer.                          *)
LEMMA MakingKeepsTold ==
    ASSUME RegVarsOK, ToldTheNearest, NEW c \in Containers, NEW i \in Impls \ Fresh, ~Has(c, i),
           NEW x \in Instances, single' = [single EXCEPT ![c][i] = x],
           told' = [told EXCEPT ![c][i] = @ \cup {x}]
    PROVE  ToldTheNearest'
<1> SUFFICES ASSUME NEW d \in Containers, NEW j \in Impls, told'[d][j] # {}
             PROVE  /\ j \notin Fresh
                    /\ \E k \in Holders(d, j)' : Nearest(d, j, k)' /\ told'[d][j] = {single'[Line[d][k]][j]}
  BY DEF ToldTheNearest
<1>0. Search(d, j) \subseteq DOMAIN Line[d] /\ Search(d, j) \subseteq Nat /\ Search(d, j)' = Search(d, j)
  BY LineFacts DEF Search
<1>1. x # None
  BY RegistryAssumption
<1>2. \A k \in DOMAIN Line[d] :
         single'[Line[d][k]][j] = IF Line[d][k] = c /\ j = i THEN x ELSE single[Line[d][k]][j]
  BY LineFacts DEF RegVarsOK
<1>3. CASE d = c /\ j = i
  <2>1. told[c][i] = {}
    BY DEF ToldTheNearest, Has
  <2>2. told'[c][i] = {x}
    BY <2>1 DEF RegVarsOK
  <2>3. 1 \in Search(c, i) /\ single'[Line[c][1]][i] = x
    BY <1>2, <1>3, LineFacts DEF Search
  <2>4. 1 \in Holders(c, i)' /\ \A l \in Holders(c, i)' : 1 <= l
    BY <1>0, <1>1, <1>3, <2>3, LineFacts DEF Holders
  <2> QED
    BY <1>3, <2>2, <2>3, <2>4 DEF Nearest
<1>4. CASE ~(d = c /\ j = i)
  <2>1. told'[d][j] = told[d][j]
    BY <1>4 DEF RegVarsOK
  <2>2. PICK k \in Holders(d, j) : Nearest(d, j, k) /\ told[d][j] = {single[Line[d][k]][j]}
    BY <2>1 DEF ToldTheNearest
  <2>3. j \notin Fresh
    BY <2>1 DEF ToldTheNearest
  <2>4. k \in DOMAIN Line[d] /\ k \in Search(d, j) /\ single[Line[d][k]][j] # None
    BY <1>0, <2>2 DEF Holders
  <2>5. ASSUME NEW m \in Search(d, j), Line[d][m] = c, j = i
        PROVE  k < m
    <3> SUFFICES ASSUME ~(k < m)
                 PROVE  FALSE
      OBVIOUS
    <3>0. m \in DOMAIN Line[d] /\ m <= k
      BY <1>0, <2>4
    <3>1. CASE i \in PerChild
      <4>1. m = 1
        BY <2>5, <3>1 DEF Search
      <4> QED
        BY <1>4, <2>5, <4>1, LineFacts
    <3>2. CASE i \notin PerChild
      <4>1. k - m + 1 \in DOMAIN Line[c] /\ Line[c][k - m + 1] = Line[d][k]
        BY <2>4, <2>5, <3>0, LineFacts
      <4>2. k - m + 1 \in Holders(c, i)
        BY <2>4, <2>5, <3>2, <4>1 DEF Holders, Search
      <4> QED
        BY <4>2 DEF Has
    <3> QED
      BY <3>1, <3>2
  <2>6. Line[d][k] # c \/ j # i
    BY <1>0, <2>4, <2>5
  <2>7. k \in Holders(d, j)'
    BY <1>0, <1>2, <2>4, <2>6 DEF Holders
  <2>8. ASSUME NEW l \in Holders(d, j)'
        PROVE  k <= l
    <3>1. l \in Search(d, j) /\ l \in DOMAIN Line[d] /\ l \in Nat /\ single'[Line[d][l]][j] # None
      BY <1>0 DEF Holders
    <3>2. CASE Line[d][l] = c /\ j = i
      BY <1>0, <2>4, <2>5, <3>1, <3>2
    <3>3. CASE ~(Line[d][l] = c /\ j = i)
      <4>1. l \in Holders(d, j)
        BY <1>2, <3>1, <3>3 DEF Holders
      <4> QED
        BY <2>2, <4>1 DEF Nearest
    <3> QED
      BY <3>2, <3>3
  <2>9. Nearest(d, j, k)'
    BY <2>7, <2>8 DEF Nearest
  <2> QED
    BY <1>2, <2>1, <2>2, <2>3, <2>4, <2>6, <2>7, <2>9
<1> QED
  BY <1>3, <1>4

(* One class is resolved.                                                   *)
LEMMA ResolveTypeKeeps ==
    ASSUME RegistryInv, NEW c \in Containers, NEW i \in Impls, NEW asBase \in BOOLEAN,
           ResolveType(c, i, asBase)
    PROVE  RegistryInv'
<1>0. RegVarsOK /\ ListedOnce /\ ToldTheNearest
  BY DEF RegistryInv
<1>1. CASE /\ i \notin Fresh /\ Has(c, i)
           /\ Tell(c, i, Get(c, i))
           /\ UNCHANGED <<registry, single, list, made>>
  <2>1. PICK k \in Holders(c, i) : Nearest(c, i, k) /\ Get(c, i) = single[Line[c][k]][i]
    BY <1>1, GetsNearest
  <2>2. Get(c, i) \in Instances
    BY <1>0, <2>1, LineFacts DEF Holders, Search, RegVarsOK
  <2>3. told' = [told EXCEPT ![c][i] = @ \cup {Get(c, i)}]
    BY <1>1 DEF Tell
  <2>4. RegVarsOK'
    BY <1>0, <1>1, <2>2, <2>3 DEF RegVarsOK
  <2>5. ToldTheNearest'
    <3> SUFFICES ASSUME NEW d \in Containers, NEW j \in Impls, told'[d][j] # {}
                 PROVE  /\ j \notin Fresh
                        /\ \E l \in Holders(d, j)' : Nearest(d, j, l)' /\ told'[d][j] = {single'[Line[d][l]][j]}
      BY DEF ToldTheNearest
    <3>0. \A l : Nearest(d, j, l)' <=> Nearest(d, j, l)
      BY <1>1 DEF Nearest, Holders, Search
    <3>1. CASE d = c /\ j = i
      <4>1. told[c][i] \subseteq {Get(c, i)}
        BY <1>0, <2>1, NearestOne DEF ToldTheNearest
      <4>2. told'[c][i] = {Get(c, i)}
        BY <1>0, <2>3, <4>1 DEF RegVarsOK
      <4> QED
        BY <1>1, <2>1, <3>0, <3>1, <4>2 DEF Nearest
    <3>2. CASE ~(d = c /\ j = i)
      <4>1. told'[d][j] = told[d][j]
        BY <1>0, <2>3, <3>2 DEF RegVarsOK
      <4>2. PICK l \in Holders(d, j) : Nearest(d, j, l) /\ told[d][j] = {single[Line[d][l]][j]}
        BY <1>0, <4>1 DEF ToldTheNearest
      <4>3. j \notin Fresh
        BY <1>0, <4>1 DEF ToldTheNearest
      <4> QED
        BY <1>1, <3>0, <4>1, <4>2, <4>3 DEF Nearest
    <3> QED
      BY <3>1, <3>2
  <2>6. ListedOnce'
    BY <1>0, <1>1 DEF ListedOnce
  <2> QED
    BY <2>4, <2>5, <2>6 DEF RegistryInv
<1>2. CASE /\ made < MaxMade /\ i \in Fresh
           /\ Tell(c, i, New(c, i, 1))
           /\ made' = made + 1
           /\ UNCHANGED <<registry, single, list>>
  <2>1. told' = told
    BY <1>0, <1>2 DEF Tell, RegVarsOK
  <2>2. RegVarsOK'
    BY <1>0, <1>2, <2>1, RegistryAssumption DEF RegVarsOK
  <2> QED
    BY <1>0, <1>2, <2>1, <2>2 DEF RegistryInv, ListedOnce, ToldTheNearest, Nearest, Holders, Search
<1>3. CASE /\ made < MaxMade /\ i \notin Fresh /\ ~Has(c, i)
           /\ single' = [single EXCEPT ![c][i] = New(c, i, 1)]
           /\ Tell(c, i, New(c, i, 1))
           /\ made' = made + 1
           /\ registry' = IF asBase THEN [registry EXCEPT ![c] = With(@, <<i>>)] ELSE registry
           /\ UNCHANGED list
  <2>1. New(c, i, 1) \in Instances /\ made' \in 0..MaxMade
    BY <1>0, <1>3, RegistryAssumption DEF New, Instances, RegVarsOK
  <2>2. told' = [told EXCEPT ![c][i] = @ \cup {New(c, i, 1)}]
    BY <1>3 DEF Tell
  <2>3. ToldTheNearest'
    BY <1>0, <1>3, <2>1, <2>2, MakingKeepsTold
  <2>4. PICK types \in {None} \cup Seq(Impls) :
           registry' = [registry EXCEPT ![c] = types] /\ (types # None => Distinct(types))
    <3>1. registry[c] \in {None} \cup Seq(Impls) /\ (registry[c] # None => Distinct(registry[c]))
      BY <1>0 DEF RegVarsOK, ListedOnce
    <3>2. \/ registry' = [registry EXCEPT ![c] = With(registry[c], <<i>>)]
          \/ registry' = [registry EXCEPT ![c] = registry[c]]
      BY <1>0, <1>3 DEF RegVarsOK
    <3> QED
      BY <3>1, <3>2, WithOnce, OneElement, Zenon
  <2>5. RegVarsOK'
    BY <1>0, <1>3, <2>1, <2>2, <2>4 DEF RegVarsOK
  <2>6. ListedOnce'
    BY <1>0, <1>3, <2>4 DEF ListedOnce, RegVarsOK
  <2> QED
    BY <2>3, <2>5, <2>6 DEF RegistryInv
<1> QED
  BY <1>1, <1>2, <1>3 DEF ResolveType

(* The base is resolved: the type registered last.                          *)
LEMMA ResolveBaseKeeps ==
    ASSUME RegistryInv, NEW c \in Containers, ResolveBase(c)
    PROVE  RegistryInv'
<1>1. Registered(c) \in Seq(Impls) /\ Registered(c) # << >>
  BY RegisteredOnce DEF ResolveBase, RegistryInv
<1>2. Len(Registered(c)) \in Nat \ {0}
  BY <1>1, EmptySeq
<1>3. Last(Registered(c)) \in Impls
  BY <1>1, <1>2, ElementOfSeq DEF Last
<1> QED
  BY <1>3, ResolveTypeKeeps DEF ResolveBase

(* All of the base are resolved: one instance of each class is kept.        *)
LEMMA ResolveAllKeeps ==
    ASSUME RegistryInv, NEW c \in Containers, ResolveAll(c)
    PROVE  RegistryInv'
<1>0. RegVarsOK /\ ListedOnce /\ ToldTheNearest
  BY DEF RegistryInv
<1> DEFINE wanted == {i \in Impls : i \in Fresh \/ ~Has(c, i)}
           n == Len(ToMake(c))
           new == [k \in DOMAIN ToMake(c) |-> New(c, ToMake(c)[k], k)]
           kept == Filtered(new, {x \in Instances : x.i \notin Fresh})
           types == [k \in DOMAIN kept |-> kept[k].i]
<1>1. /\ Registries(c) # {} /\ made + n <= MaxMade /\ made' = made + n
      /\ list' = [list EXCEPT ![c] = kept]
      /\ registry' = [registry EXCEPT ![c] = With(@, types)]
      /\ UNCHANGED <<single, told>>
  BY DEF ResolveAll
<1>2. Registered(c) \in Seq(Impls) /\ Distinct(Registered(c))
  BY <1>0, <1>1, RegisteredOnce
<1>3. ToMake(c) = Filtered(Registered(c), wanted)
  BY DEF ToMake
<1> HIDE DEF wanted
<1>4. ToMake(c) \in Seq(Impls) /\ Distinct(ToMake(c))
  BY <1>2, <1>3, FilteredFacts DEF FilterOK
<1>5. n \in Nat /\ DOMAIN ToMake(c) = 1..n /\ \A k \in 1..n : ToMake(c)[k] \in Impls
  BY <1>4, LenProperties, ElementOfSeq
<1>6. made' \in 0..MaxMade
  BY <1>0, <1>1, <1>5 DEF RegVarsOK
<1>7. \A k \in 1..n : new[k] \in Instances /\ new[k].i = ToMake(c)[k]
  <2> SUFFICES ASSUME NEW k \in 1..n
               PROVE  New(c, ToMake(c)[k], k) \in Instances /\ New(c, ToMake(c)[k], k).i = ToMake(c)[k]
    BY <1>5
  <2>1. made + k \in 1..MaxMade
    BY <1>0, <1>1, <1>5, RegistryAssumption DEF RegVarsOK
  <2> QED
    BY <1>5, <2>1 DEF New, Instances
<1>8. new \in [1..n -> Instances]
  BY <1>5, <1>7
<1>9. new \in Seq(Instances) /\ DOMAIN new = 1..n
  BY <1>5, <1>8, FunctionIsSeq
<1> HIDE DEF n, new
<1>10. FilterOK(kept, new, Instances, {x \in Instances : x.i \notin Fresh})
  BY <1>9, FilteredFacts
<1>11. Distinct(new)
  BY <1>4, <1>5, <1>7, <1>9 DEF Distinct
<1>12. kept \in Seq(Instances) /\ Distinct(kept) /\ \A k \in DOMAIN kept : \E j \in 1..n : kept[k] = new[j]
  BY <1>9, <1>10, <1>11 DEF FilterOK, TakenFrom
<1> HIDE DEF kept
<1>13. OneOfEach(kept)
  <2> SUFFICES ASSUME NEW j \in DOMAIN kept, NEW k \in DOMAIN kept, kept[j].i = kept[k].i
               PROVE  j = k
    BY DEF OneOfEach
  <2>1. PICK a \in 1..n : kept[j] = new[a]
    BY <1>12
  <2>2. PICK b \in 1..n : kept[k] = new[b]
    BY <1>12
  <2>3. a = b
    BY <1>4, <1>5, <1>7, <2>1, <2>2 DEF Distinct
  <2> QED
    BY <1>12, <2>1, <2>2, <2>3 DEF Distinct
<1>14. types \in Seq(Impls) /\ Distinct(types)
  <2>1. Len(kept) \in Nat /\ DOMAIN kept = 1..Len(kept) /\ \A k \in 1..Len(kept) : kept[k] \in Instances
    BY <1>12, LenProperties, ElementOfSeq
  <2>2. types \in [1..Len(kept) -> Impls]
    BY <2>1 DEF Instances
  <2>3. types \in Seq(Impls)
    BY <2>1, <2>2, FunctionIsSeq
  <2>4. Distinct(types)
    BY <1>13 DEF Distinct, OneOfEach
  <2> QED
    BY <2>3, <2>4
<1> HIDE DEF types
<1>15. PICK all \in {None} \cup Seq(Impls) :
          registry' = [registry EXCEPT ![c] = all] /\ (all # None => Distinct(all))
  <2>1. registry[c] \in {None} \cup Seq(Impls) /\ (registry[c] # None => Distinct(registry[c]))
    BY <1>0 DEF RegVarsOK, ListedOnce
  <2>2. registry' = [registry EXCEPT ![c] = With(registry[c], types)]
    BY <1>0, <1>1 DEF RegVarsOK
  <2> QED
    BY <1>14, <2>1, <2>2, WithOnce, Zenon
<1>16. RegVarsOK'
  BY <1>0, <1>1, <1>6, <1>12, <1>15 DEF RegVarsOK
<1>17. ListedOnce'
  BY <1>0, <1>1, <1>13, <1>15 DEF ListedOnce, RegVarsOK
<1>18. ToldTheNearest'
  BY <1>0, <1>1 DEF ToldTheNearest, Nearest, Holders, Search
<1> QED
  BY <1>16, <1>17, <1>18 DEF RegistryInv

(* Every step keeps it.                                                     *)
LEMMA RegistryInvNext == RegistryInv /\ [Next]_vars => RegistryInv'
<1> SUFFICES ASSUME RegistryInv, [Next]_vars
             PROVE  RegistryInv'
  OBVIOUS
<1>1. CASE UNCHANGED vars
  <2>1. UNCHANGED <<registry, single, list, made, told>>
    BY <1>1 DEF vars
  <2>2. RegVarsOK' /\ ListedOnce'
    BY <2>1 DEF RegistryInv, RegVarsOK, ListedOnce
  <2>3. ToldTheNearest'
    BY <2>1 DEF RegistryInv, ToldTheNearest, Nearest, Holders, Search
  <2> QED
    BY <2>2, <2>3 DEF RegistryInv
<1>2. CASE Next
  BY <1>2, RegisterKeeps, UncacheKeeps, ResolveTypeKeeps, ResolveBaseKeeps, ResolveAllKeeps
     DEF Next, ResolveClass
<1> QED
  BY <1>1, <1>2

(* All resolves of a shared class in one container answer one instance,     *)
(* for any tree of containers and any classes.                              *)
THEOREM LookupsAlwaysAgree == Spec => []LookupsAgree
<1>1. RegistryInv => LookupsAgree
  <2> SUFFICES ASSUME RegistryInv, NEW c \in Containers
               PROVE  /\ \A i \in Impls : Cardinality(told[c][i]) <= 1
                      /\ registry[c] # None => IsInjective(registry[c])
                      /\ IsInjective([k \in DOMAIN list[c] |-> list[c][k].i])
    BY DEF LookupsAgree
  <2>1. ASSUME NEW i \in Impls
        PROVE  Cardinality(told[c][i]) <= 1
    <3>1. CASE told[c][i] = {}
      BY <3>1, FS_EmptySet
    <3>2. CASE told[c][i] # {}
      <4>1. PICK x : told[c][i] = {x}
        BY <3>2 DEF RegistryInv, ToldTheNearest
      <4> QED
        BY <4>1, FS_Singleton
    <3> QED
      BY <3>1, <3>2
  <2>2. registry[c] # None => IsInjective(registry[c])
    BY DEF RegistryInv, ListedOnce, Distinct, IsInjective
  <2>3. IsInjective([k \in DOMAIN list[c] |-> list[c][k].i])
    BY DEF RegistryInv, ListedOnce, OneOfEach, IsInjective
  <2> QED
    BY <2>1, <2>2, <2>3
<1> QED
  BY <1>1, RegistryInvInit, RegistryInvNext, PTL DEF Spec
===============================================================================
