----------------------------- MODULE DiRegistry -----------------------------
(***************************************************************************)
(* The registry of packages/di: classes registered under one base in a     *)
(* tree of containers, and what resolve(Base) and resolve(Array.ofType(    *)
(* Base)) answer from the registries and the caches.  The services are     *)
(* synchronous, so every call is one step.                                 *)
(***************************************************************************)
EXTENDS Filters, Naturals, Sequences, SequencesExt

CONSTANTS
    Containers,  \* the containers of the tree
    Line,        \* Line[c] = <<c, parent of c, ..., root>>
    Impls,       \* the classes that may be registered under the base
    PerChild,    \* those declared @PerChildInstance
    Fresh,       \* those declared @NewInstance
    None,        \* undefined, a registry without an entry
    MaxMade      \* bound: instances made

Instances == [i : Impls, c : Containers, n : 1..MaxMade]

ASSUME RegistryAssumption ==
    /\ \A c \in Containers :
          /\ Line[c] \in Seq(Containers) /\ Len(Line[c]) > 0 /\ Line[c][1] = c
          /\ \A k \in DOMAIN Line[c] : Line[Line[c][k]] = SubSeq(Line[c], k, Len(Line[c]))
    /\ PerChild \subseteq Impls
    /\ Fresh \subseteq Impls \ PerChild
    /\ None \notin Instances
    /\ MaxMade \in Nat

VARIABLES
    registry,  \* registry[c]: the types registered under the base in c, or None
    single,    \* single[c][i]: the instance cached under the class i, or None
    list,      \* list[c]: the instances cached under the base by Array.ofType
    made,      \* instances made so far
    told       \* history: told[c][i]: what resolves of i in c answered

vars == <<registry, single, list, made, told>>

Init ==
    /\ registry = [c \in Containers |-> None]
    /\ single = [c \in Containers |-> [i \in Impls |-> None]]
    /\ list = [c \in Containers |-> <<>>]
    /\ made = 0
    /\ told = [c \in Containers |-> [i \in Impls |-> {}]]

-----------------------------------------------------------------------------
(* Registry.getTypes: the nearest registry of the line that has an entry.   *)
Registries(c) == {k \in DOMAIN Line[c] : registry[Line[c][k]] # None}
Registered(c) == registry[Line[c][Min(Registries(c))]]

(* Registry.register of the types s, no two of which are one: a type is     *)
(* listed once.                                                             *)
With(types, s) ==
    LET old == IF types = None THEN <<>> ELSE types
    IN  IF s = <<>> THEN types ELSE old \o Filtered(s, Impls \ ToSet(old))

(* ContainerCache.has and get with the parent walk of getOrCreate.          *)
Search(c, i) == IF i \in PerChild THEN {1} ELSE DOMAIN Line[c]
Holders(c, i) == {k \in Search(c, i) : single[Line[c][k]][i] # None}
Has(c, i) == Holders(c, i) # {}

(* Mutant: the parents are asked before the container itself.               *)
FarthestFirst(c, i) == single[Line[c][Max(Holders(c, i))]][i]
Get(c, i) == single[Line[c][Min(Holders(c, i))]][i]

New(c, i, k) == [i |-> i, c |-> c, n |-> made + k]

Tell(c, i, x) == told' = [told EXCEPT ![c][i] = IF i \in Fresh THEN @ ELSE @ \cup {x}]

-----------------------------------------------------------------------------
(* register(i).as(Base) on c.                                               *)
Register(c, i) ==
    /\ registry' = [registry EXCEPT ![c] = With(@, <<i>>)]
    /\ UNCHANGED <<single, list, made, told>>

(* unregister(i) on c: the entry stays, if only empty.                      *)
Unregister(c, i) ==
    /\ registry[c] # None
    /\ Contains(registry[c], i)
    /\ registry' = [registry EXCEPT ![c] = Filtered(@, Impls \ {i})]
    /\ UNCHANGED <<single, list, made, told>>

(* uncache(i) on c; the history of every container that looks there starts  *)
(* anew.                                                                    *)
Uncache(c, i) ==
    /\ single[c][i] # None
    /\ single' = [single EXCEPT ![c][i] = None]
    /\ told' = [d \in Containers |->
         IF c \in ToSet(Line[d]) THEN [told[d] EXCEPT ![i] = {}] ELSE told[d]]
    /\ UNCHANGED <<registry, list, made>>

(* resolve of one class i, for the request `as`: its own name, or the base. *)
(* A class that is made is registered in c under the name it was asked by.  *)
ResolveType(c, i, asBase) ==
    \/ /\ i \notin Fresh
       /\ Has(c, i)
       /\ Tell(c, i, Get(c, i))
       /\ UNCHANGED <<registry, single, list, made>>
    \/ /\ made < MaxMade
       /\ i \in Fresh
       /\ Tell(c, i, New(c, i, 1))
       /\ made' = made + 1
       /\ UNCHANGED <<registry, single, list>>
    \/ /\ made < MaxMade
       /\ i \notin Fresh
       /\ ~Has(c, i)
       /\ single' = [single EXCEPT ![c][i] = New(c, i, 1)]
       /\ Tell(c, i, New(c, i, 1))
       /\ made' = made + 1
       /\ registry' = IF asBase THEN [registry EXCEPT ![c] = With(@, <<i>>)] ELSE registry
       /\ UNCHANGED list

ResolveClass(c, i) == ResolveType(c, i, FALSE)

(* resolve(Base): the type registered last.                                 *)
ResolveBase(c) ==
    /\ Registries(c) # {}
    /\ Registered(c) # <<>>
    /\ ResolveType(c, Last(Registered(c)), TRUE)

(* The types that resolve() of the list constructs.                         *)
ToMake(c) == Filtered(Registered(c), {i \in Impls : i \in Fresh \/ ~Has(c, i)})

(* resolve(Array.ofType(Base)): a container that has a list answers it, and *)
(* one without registrations answers nothing.  Otherwise every registered   *)
(* type is resolved; what is made goes under the base, not under its class, *)
(* a @NewInstance object nowhere, and the answer is what the base holds.    *)
ResolveAll(c) ==
    /\ list[c] = <<>>
    /\ Registries(c) # {}
    /\ made + Len(ToMake(c)) <= MaxMade
    /\ LET new == [k \in DOMAIN ToMake(c) |-> New(c, ToMake(c)[k], k)]
           kept == Filtered(new, {x \in Instances : x.i \notin Fresh})
       IN  /\ list' = [list EXCEPT ![c] = kept]
           /\ registry' = [registry EXCEPT ![c] = With(@, [k \in DOMAIN kept |-> kept[k].i])]
    /\ made' = made + Len(ToMake(c))
    /\ UNCHANGED <<single, told>>

Next ==
    \E c \in Containers :
        \/ \E i \in Impls : Register(c, i) \/ Unregister(c, i) \/ Uncache(c, i)
        \/ \E i \in Impls : ResolveClass(c, i)
        \/ ResolveBase(c)
        \/ ResolveAll(c)

Spec == Init /\ [][Next]_vars
-----------------------------------------------------------------------------
TypeOK ==
    /\ registry \in [Containers -> {None} \cup SeqOf(Impls, Cardinality(Impls))]
    /\ single \in [Containers -> [Impls -> Instances \cup {None}]]
    /\ \A c \in Containers : ToSet(list[c]) \subseteq Instances
    /\ made \in 0..MaxMade
    /\ told \in [Containers -> [Impls -> SUBSET Instances]]

(* However the tree is used, all the resolves of a shared class in one      *)
(* container answer the same instance until it is uncached on their line,   *)
(* even when an ancestor makes one of its own later; and a type is listed   *)
(* once in a registry although resolving registers again, the list of a     *)
(* container holding one instance of a class at most.                       *)
LookupsAgree ==
    \A c \in Containers :
        /\ \A i \in Impls : Cardinality(told[c][i]) <= 1
        /\ registry[c] # None => IsInjective(registry[c])
        /\ IsInjective([k \in DOMAIN list[c] |-> list[c][k].i])
==============================================================================
