----------------------------- MODULE OrmRelation -----------------------------
(***************************************************************************)
(* A one-to-many relation list of a saved owner: the list is edited in     *)
(* memory with push, union, set, remove, clear, diff and intersection;     *)
(* update() inserts or updates its dirty items one by one, and sync() then *)
(* deletes the rows of the owner the list does not name.  Calls may        *)
(* overlap each other and the editing.                                     *)
(***************************************************************************)
EXTENDS Naturals, FiniteSets

CONSTANTS
    Items,    \* models of the target type
    Owner,    \* the owner of the list
    Stranger, \* another owner
    NoItem,   \* no owner, no item
    Syncs,    \* calls of update and sync
    MaxKey,   \* bound: primary keys the table hands out
    MaxEdits  \* bound: edits of the list and of items

ASSUME RelationAssumption ==
    /\ Owner # Stranger /\ NoItem \notin Items \cup {Owner, Stranger}
    /\ {MaxKey, MaxEdits} \subseteq Nat
    /\ IsFiniteSet(Items) /\ Cardinality(Items) <= MaxKey

RowKeys == 1..MaxKey
NoKey == 0

VARIABLES
    list,      \* the items of the list, without their order
    key,       \* key[i]: PrimaryKeyValue, or NoKey
    fk,        \* fk[i]: the foreign key in memory
    dirty,     \* dirty[i]: IsDirty
    rowOwner,  \* rowOwner[n]: the foreign key of row n, or NoItem without row
    lastKey,   \* keys handed out so far
    syncing,   \* syncing[s]: idle, update, insert, stored, delete
    removes,   \* removes[s]: the call is sync() and not only update()
    todo,      \* todo[s]: items still to be inserted or updated
    item,      \* item[s]: the one whose query is under way
    sentKey,   \* sentKey[s]: its key in that query, or the key it was given
    keep,      \* keep[s]: the keys the DELETE leaves
    edits,     \* edits so far
    alone,     \* history: nothing else happened since the call began
    wanted     \* history: the items that were to be saved when it began

relationVars == <<list, key, fk, dirty, rowOwner, lastKey, syncing, removes, todo,
                  item, sentKey, keep, edits, alone, wanted>>

(* Items are new, or have a row of this or of another owner.                *)
RelationInit ==
    /\ list = {} /\ edits = 0
    /\ \E rows \in [Items -> {NoItem, Owner, Stranger}] :
          \E numbers \in [Items -> 0..Cardinality(Items)] :
            /\ \A i \in Items : (numbers[i] = NoKey) = (rows[i] = NoItem)
            /\ \A i, j \in Items : i # j /\ numbers[i] # NoKey => numbers[i] # numbers[j]
            /\ lastKey = Cardinality({i \in Items : numbers[i] # NoKey})
            /\ \A i \in Items : numbers[i] <= lastKey
            /\ key = numbers
            /\ fk = rows
            /\ rowOwner = [n \in RowKeys |->
                  IF n <= lastKey THEN rows[CHOOSE i \in Items : numbers[i] = n] ELSE NoItem]
    /\ dirty = [i \in Items |-> FALSE]
    /\ syncing = [s \in Syncs |-> "idle"]
    /\ removes = [s \in Syncs |-> FALSE]
    /\ todo = [s \in Syncs |-> {}]
    /\ item = [s \in Syncs |-> NoItem]
    /\ sentKey = [s \in Syncs |-> NoKey]
    /\ keep = [s \in Syncs |-> {}]
    /\ alone = [s \in Syncs |-> FALSE]
    /\ wanted = [s \in Syncs |-> {}]

relationTable == <<rowOwner, lastKey>>
memory == <<list, key, fk, dirty>>
progress == <<syncing, todo, item, sentKey, keep>>
fixed == <<removes, wanted>>

Go(s, where) == syncing' = [syncing EXCEPT ![s] = where]
KeysOf(S) == {key[i] : i \in S}

(* Whatever s does disturbs the other calls.                                *)
Disturb(s) == alone' = [t \in Syncs |-> t = s /\ alone[t]]

(* lodash compares items by their primary key; all new ones are equal.      *)
Without(S, T) == {i \in S : key[i] \notin KeysOf(T)}
DiffWith(dataset) == Without(dataset, list) \cup Without(list, dataset)
IntersectionWith(dataset) == {i \in dataset : key[i] \in KeysOf(list)}

(* push and union, remove, clear, and set with a dataset or with diff or    *)
(* intersection as its callback.                                            *)
EditList(dataset) ==
    /\ edits < MaxEdits /\ edits' = edits + 1
    /\ list' \in {list \cup dataset, list \ dataset, dataset,
                  DiffWith(dataset), IntersectionWith(dataset)}
    /\ alone' = [s \in Syncs |-> FALSE]
    /\ UNCHANGED <<key, fk, dirty, relationTable, progress, fixed>>

(* A property of an item is assigned.                                       *)
EditItem(i) ==
    /\ edits < MaxEdits /\ edits' = edits + 1
    /\ dirty' = [dirty EXCEPT ![i] = TRUE]
    /\ alone' = [s \in Syncs |-> FALSE]
    /\ UNCHANGED <<list, key, fk, relationTable, progress, fixed>>

(* update() picks the items to save and then sets the foreign key of all of *)
(* them, which makes those dirty whose key changes, too late to be picked.  *)
StartUpdate(s, all) ==
    LET picked == {i \in list : dirty[i] \/ key[i] = NoKey}
    IN  /\ syncing[s] = "idle"
        /\ Go(s, "update")
        /\ removes' = [removes EXCEPT ![s] = all]
        /\ todo' = [todo EXCEPT ![s] = picked]
        /\ wanted' = [wanted EXCEPT ![s] = picked]
        /\ dirty' = [i \in Items |-> dirty[i] \/ (i \in list /\ fk[i] # Owner)]
        /\ fk' = [i \in Items |-> IF i \in list THEN Owner ELSE fk[i]]
        /\ alone' = [t \in Syncs |-> t = s /\ \A u \in Syncs : syncing[u] = "idle"]
        /\ UNCHANGED <<list, key, relationTable, item, sentKey, keep, edits>>

(* The next item: insert() builds the query and marks the item clean.       *)
InsertItem(s, i) ==
    /\ syncing[s] = "update" /\ i \in todo[s]
    /\ Go(s, "insert")
    /\ todo' = [todo EXCEPT ![s] = @ \ {i}]
    /\ item' = [item EXCEPT ![s] = i]
    /\ sentKey' = [sentKey EXCEPT ![s] = key[i]]
    /\ dirty' = [dirty EXCEPT ![i] = FALSE]
    /\ Disturb(s)
    /\ UNCHANGED <<list, key, fk, relationTable, keep, edits, fixed>>

(* The database inserts a new row, or updates the row of the key, which may *)
(* have been deleted meanwhile and is then inserted again.                  *)
StoreItem(s) ==
    /\ syncing[s] = "insert"
    /\ sentKey[s] = NoKey => lastKey < MaxKey
    /\ LET n == IF sentKey[s] = NoKey THEN lastKey + 1 ELSE sentKey[s]
       IN  /\ rowOwner' = [rowOwner EXCEPT ![n] = Owner]
           /\ lastKey' = IF sentKey[s] = NoKey THEN n ELSE lastKey
           /\ sentKey' = [sentKey EXCEPT ![s] = n]
    /\ Go(s, "stored")
    /\ Disturb(s)
    /\ UNCHANGED <<memory, todo, item, keep, edits, fixed>>

(* The answer: an item that has a key already keeps it.                     *)
ItemStored(s) ==
    /\ syncing[s] = "stored"
    /\ Go(s, "update")
    /\ key' = IF key[item[s]] = NoKey THEN [key EXCEPT ![item[s]] = sentKey[s]] ELSE key
    /\ item' = [item EXCEPT ![s] = NoItem]
    /\ sentKey' = [sentKey EXCEPT ![s] = NoKey]
    /\ Disturb(s)
    /\ UNCHANGED <<list, fk, dirty, relationTable, todo, keep, edits, fixed>>

Finish(s) ==
    /\ Go(s, "idle")
    /\ todo' = [todo EXCEPT ![s] = {}]
    /\ item' = [item EXCEPT ![s] = NoItem]
    /\ sentKey' = [sentKey EXCEPT ![s] = NoKey]
    /\ keep' = [keep EXCEPT ![s] = {}]
    /\ wanted' = [wanted EXCEPT ![s] = {}]
    /\ alone' = [t \in Syncs |-> FALSE]
    /\ UNCHANGED <<memory, lastKey, edits, removes>>

(* A query is refused and the call throws.                                  *)
SyncFails(s) ==
    /\ syncing[s] \in {"insert", "delete"}
    /\ Finish(s)
    /\ UNCHANGED rowOwner

UpdateEnds(s) ==
    /\ syncing[s] = "update" /\ todo[s] = {} /\ ~removes[s]
    /\ Finish(s)
    /\ UNCHANGED rowOwner

(* Mutant: the keys are read from the items that were not to be saved.      *)
DiffSentEarly(s) ==
    /\ syncing[s] = "update" /\ todo[s] = {} /\ removes[s]
    /\ Go(s, "delete")
    /\ keep' = [keep EXCEPT ![s] = KeysOf(list \ wanted[s]) \ {NoKey}]
    /\ Disturb(s)
    /\ UNCHANGED <<memory, relationTable, todo, item, sentKey, edits, fixed>>

(* _dbDiff reads the keys of the list as it is now.                         *)
DiffSent(s) ==
    /\ syncing[s] = "update" /\ todo[s] = {} /\ removes[s]
    /\ Go(s, "delete")
    /\ keep' = [keep EXCEPT ![s] = KeysOf(list) \ {NoKey}]
    /\ Disturb(s)
    /\ UNCHANGED <<memory, relationTable, todo, item, sentKey, edits, fixed>>

(* The rows of the owner that are not kept are deleted, and sync() ends.    *)
DiffRuns(s) ==
    /\ syncing[s] = "delete"
    /\ rowOwner' = [n \in RowKeys |->
          IF rowOwner[n] = Owner /\ n \notin keep[s] THEN NoItem ELSE rowOwner[n]]
    /\ Finish(s)

RelationNext ==
    \/ \E dataset \in SUBSET Items : EditList(dataset)
    \/ \E i \in Items : EditItem(i)
    \/ \E s \in Syncs :
          \/ \E all \in BOOLEAN : StartUpdate(s, all)
          \/ \E i \in Items : InsertItem(s, i)
          \/ StoreItem(s) \/ ItemStored(s) \/ SyncFails(s)
          \/ UpdateEnds(s) \/ DiffSent(s) \/ DiffRuns(s)

RelationSpec == RelationInit /\ [][RelationNext]_relationVars
-----------------------------------------------------------------------------
RelationTypeOK ==
    /\ list \subseteq Items
    /\ key \in [Items -> 0..MaxKey]
    /\ rowOwner \in [RowKeys -> {NoItem, Owner, Stranger}]
    /\ lastKey \in 0..MaxKey
    /\ syncing \in [Syncs -> {"idle", "update", "insert", "stored", "delete"}]

OwnedRows == {n \in RowKeys : rowOwner[n] = Owner}

(* When a sync() that nothing disturbed ends, the owner has no row the list *)
(* does not name, and every item that was dirty or new has its own row,     *)
(* however many edits, failures and overlapping calls came before.          *)
SyncLeavesTheList ==
    [][\A s \in Syncs : DiffRuns(s) /\ alone[s] =>
          /\ OwnedRows' \subseteq KeysOf(list)
          /\ KeysOf(wanted[s]) \subseteq OwnedRows'
          /\ Cardinality(KeysOf(wanted[s])) = Cardinality(wanted[s])]_relationVars
==============================================================================
