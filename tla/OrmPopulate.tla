----------------------------- MODULE OrmPopulate -----------------------------
(***************************************************************************)
(* populate(): a query for the rows of one model (heads), with one of its  *)
(* relations, of each kind, awaited once or several times while others     *)
(* write to both tables.  A query runs whenever it is awaited, but its     *)
(* relation object and that one's query are made and compiled only once.   *)
(***************************************************************************)
EXTENDS Naturals, FiniteSets

CONSTANTS
    Heads,      \* primary keys of the model queried
    RelRows,    \* rows of the related model
    NoHead,
    Awaits,     \* times the query is awaited
    MaxWrites   \* bound: writes of others

ASSUME PopulateAssumption == NoHead \notin Heads

VARIABLES
    shape,     \* kind of the relation
    found,     \* the heads in the table
    ref,       \* ref[h]: the head h belongs to, by a foreign key
    link,      \* link[r]: the heads related row r is linked to
    writes,
    turn,      \* turn[w]: idle, querying, relating, refused, done, rejected
    wants,     \* wants[w][h]: for the model of h read by w, the key its relation asks for
    limits,    \* limits[w]: the keys to which w's relation query is restricted
    left,      \* left[w]: relation queries of w under way
    compiles,  \* times the query has been compiled
    keys,      \* the sets of keys whereIn() was called with on the relation query
    hydrators, \* the awaits whose hydrating middleware is on it
    given      \* given[w][h]: the relation of w's model h

populateDb == <<shape, found, ref, link>>
populateVars == <<populateDb, writes, turn, wants, limits, left, compiles, keys, hydrators, given>>

Shapes == {"many", "manytomany", "belongs", "recursive", "query"}

(* Not read, or read and not populated.                                     *)
Unset == [h \in Heads |-> {NoHead}]

PopulateInit ==
    /\ shape \in Shapes
    /\ found = Heads
    /\ ref \in [Heads -> {NoHead} \cup Heads]
    /\ \A h \in Heads : ref[h] # NoHead => ref[ref[h]] = NoHead
    /\ link \in [RelRows -> SUBSET Heads]
    /\ shape # "manytomany" => \A r \in RelRows : Cardinality(link[r]) <= 1
    /\ writes = 0
    /\ turn = [w \in Awaits |-> "idle"]
    /\ wants = [w \in Awaits |-> [h \in Heads |-> NoHead]]
    /\ limits = [w \in Awaits |-> {}]
    /\ left = [w \in Awaits |-> 0]
    /\ compiles = 0
    /\ keys = {} /\ hydrators = {}
    /\ given = [w \in Awaits |-> Unset]

(* Another process links a row elsewhere, or deletes or inserts a head.     *)
Write ==
    /\ writes < MaxWrites
    /\ writes' = writes + 1
    /\ \/ \E r \in RelRows, h \in Heads : link' = [link EXCEPT ![r] = {h}] /\ UNCHANGED <<found, ref>>
       \/ \E h \in Heads :
            /\ found' = IF h \in found THEN found \ {h} ELSE found \cup {h}
            /\ UNCHANGED <<ref, link>>
    /\ UNCHANGED <<shape, turn, wants, limits, left, compiles, keys, hydrators, given>>

(* then(): toDB() compiles the relations first.  All but those by a query   *)
(* of the application remember that they were.                              *)
Await(w) ==
    /\ turn[w] = "idle"
    /\ turn' = [turn EXCEPT ![w] = "querying"]
    /\ compiles' = IF shape = "query" THEN compiles + 1 ELSE 1
    /\ UNCHANGED <<populateDb, writes, wants, limits, left, keys, hydrators, given>>

(* What the relation of a model asks for: its own wants, or, for a relation   *)
(* of the model it belongs to and was joined with, the key of that one.     *)
KeyOf(h) ==
    CASE h \notin found -> NoHead
      [] shape = "belongs" -> IF ref[h] \in found THEN ref[h] ELSE NoHead
      [] OTHER -> h

(* Mutant: the relation query gets its middleware once.                     *)
FirstHydrator(w) == IF hydrators = {} THEN {w} ELSE hydrators
Hydrators(w) == hydrators \cup {w}

(* A relation by a query of the application has as many callbacks as the    *)
(* query was compiled.                                                      *)
RunCallbacks(w) ==
    /\ turn' = [turn EXCEPT ![w] = "relating"]
    /\ left' = [left EXCEPT ![w] = compiles]
    /\ UNCHANGED <<limits, keys, hydrators>>

(* The one relation query is restricted once more, and given one more       *)
(* middleware.  The statement for a tree joins a table that is none, see    *)
(* OrmSelect, so every database refuses it.                                 *)
AskRelated(w, ks) ==
    /\ keys' = keys \cup {ks}
    /\ hydrators' = Hydrators(w)
    /\ limits' = [limits EXCEPT ![w] = {h \in Heads : \A s \in keys' : h \in s}]
    /\ left' = [left EXCEPT ![w] = 1]
    /\ turn' = [turn EXCEPT ![w] = IF shape = "recursive" THEN "refused" ELSE "relating"]

AskNothing(w) ==
    /\ turn' = [turn EXCEPT ![w] = "done"]
    /\ UNCHANGED <<limits, left, keys, hydrators>>

(* The models are there: afterHydration() of the middlewares.               *)
ModelsRead(w) ==
    LET ks == {KeyOf(h) : h \in Heads} \ {NoHead}
    IN  /\ turn[w] = "querying"
        /\ wants' = [wants EXCEPT ![w] = [h \in Heads |-> KeyOf(h)]]
        /\ \/ shape = "query" /\ RunCallbacks(w)
           \/ shape # "query" /\ (ks # {} \/ shape = "recursive") /\ AskRelated(w, ks)
           \/ shape \notin {"query", "recursive"} /\ ks = {} /\ AskNothing(w)
        /\ UNCHANGED <<populateDb, writes, compiles, given>>

Linked(h) == {r \in RelRows : h \in link[r]}

Ends(w) ==
    /\ left' = [left EXCEPT ![w] = @ - 1]
    /\ turn' = [turn EXCEPT ![w] = IF left[w] = 1 THEN "done" ELSE @]

Rejects(w) ==
    /\ turn' = [turn EXCEPT ![w] = "rejected"]
    /\ left' = [left EXCEPT ![w] = 0]

(* A relation query is answered: every middleware on it gives the models of *)
(* its await what these rows hold for them.                                 *)
Distribute(w) ==
    given' = [b \in Awaits |-> [h \in Heads |->
              IF b \in hydrators /\ wants[b][h] # NoHead
              THEN IF wants[b][h] \in limits[w] THEN Linked(wants[b][h]) ELSE {}
              ELSE given[b][h]]]

HasMany(w) ==
    /\ shape \in {"many", "belongs"}
    /\ Distribute(w)
    /\ Ends(w)

(* The middlewares of a many to many relation turn each row inside out: two *)
(* of them lose its wants, so one finds nothing, and then the other throws.   *)
HasManyToMany(w) ==
    /\ shape = "manytomany"
    /\ IF hydrators = {w} \/ \A h \in limits[w] : Linked(h) = {}
       THEN Distribute(w) /\ Ends(w)
       ELSE /\ \E b \in hydrators :
                 given' = [given EXCEPT ![b] = [h \in Heads |->
                            IF wants[b][h] # NoHead THEN {} ELSE @[h]]]
            /\ Rejects(w)

(* The application's own query and mapper.                                  *)
ByQuery(w) ==
    /\ shape = "query"
    /\ given' = [given EXCEPT ![w] = [h \in Heads |-> IF wants[w][h] # NoHead THEN Linked(h) ELSE @[h]]]
    /\ Ends(w)

Related(w) ==
    /\ turn[w] = "relating"
    /\ HasMany(w) \/ HasManyToMany(w) \/ ByQuery(w)
    /\ UNCHANGED <<populateDb, writes, wants, limits, compiles, keys, hydrators>>

AwaitFails(w) ==
    /\ turn[w] \in {"querying", "relating", "refused"}
    /\ Rejects(w)
    /\ UNCHANGED <<populateDb, writes, wants, limits, compiles, keys, hydrators, given>>

PopulateNext ==
    \/ Write
    \/ \E w \in Awaits : Await(w) \/ ModelsRead(w) \/ Related(w) \/ AwaitFails(w)

PopulateSpec == PopulateInit /\ [][PopulateNext]_populateVars
-----------------------------------------------------------------------------
(* When populate() is done, each model has exactly the related rows there   *)
(* were when its last relation query was answered, whatever was written     *)
(* since the models were read, and however often and with whatever overlap  *)
(* the query is awaited: unless an earlier await has restricted the         *)
(* relation query to keys without this one.  Of a tree it says nothing: no  *)
(* await of one is ever done.                                               *)
PopulatedExactly ==
    [][\A w \in Awaits : turn[w] # "done" /\ turn'[w] = "done" =>
         \A h \in Heads : wants'[w][h] # NoHead /\ (\A s \in keys : wants[w][h] \in s) =>
            given'[w][h] = Linked(wants[w][h])]_populateVars
==============================================================================
