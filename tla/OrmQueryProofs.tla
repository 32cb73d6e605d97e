--------------------------- MODULE OrmQueryProofs ---------------------------
(***************************************************************************)
(* Safety of the relation lists, of the compilers of selects and of writes *)
(* and of populated relations, for every value of their constants.         *)
(***************************************************************************)
EXTENDS OrmRelation, OrmSelect, OrmWrite, OrmPopulate, FilterProofs

-----------------------------------------------------------------------------
(* OrmRelation.                                                             *)

Syncing == {"update", "insert", "stored", "delete"}

(* The lists of what a call is at are items, its keys such as the table has *)
(* handed out.                                                              *)
RelVarsOK ==
    /\ list \subseteq Items
    /\ key \in [Items -> Nat] /\ lastKey \in 0..MaxKey
    /\ \A i \in Items : key[i] <= lastKey
    /\ DOMAIN rowOwner = RowKeys
    /\ syncing \in [Syncs -> Syncing \cup {"idle"}]
    /\ todo \in [Syncs -> SUBSET Items] /\ wanted \in [Syncs -> SUBSET Items]
    /\ item \in [Syncs -> Items \cup {NoItem}]
    /\ sentKey \in [Syncs -> Nat] /\ \A s \in Syncs : sentKey[s] <= lastKey
    /\ keep \in [Syncs -> SUBSET Nat]
    /\ alone \in [Syncs -> BOOLEAN]

(* No two items have one key.  A query that updates names the key of its    *)
(* item; one that inserted has the key of its item or one that nobody has.  *)
KeysApart ==
    /\ \A i, j \in Items : key[i] = key[j] /\ key[i] # NoKey => i = j
    /\ \A s \in Syncs : syncing[s] \in {"insert", "stored"} => item[s] \in Items
    /\ \A s \in Syncs : syncing[s] = "insert" /\ sentKey[s] # NoKey => key[item[s]] = sentKey[s]
    /\ \A s \in Syncs : syncing[s] = "stored" =>
          /\ sentKey[s] # NoKey
          /\ key[item[s]] # sentKey[s] =>
               /\ \A i \in Items : key[i] # sentKey[s]
               /\ \A t \in Syncs \ {s} : syncing[t] = "stored" => sentKey[t] # sentKey[s]

Saved(i) == key[i] # NoKey /\ rowOwner[key[i]] = Owner

(* An undisturbed call is the only one; what it was to save is in the list, *)
(* and is still to be saved, is being saved or has its row.                 *)
Undisturbed(s) ==
    /\ syncing[s] \in Syncing
    /\ \A t \in Syncs \ {s} : syncing[t] = "idle"
    /\ wanted[s] \subseteq list
    /\ \A i \in wanted[s] :
          i \in todo[s] \/ Saved(i) \/ (syncing[s] \in {"insert", "stored"} /\ item[s] = i)
    /\ syncing[s] = "insert" => key[item[s]] = sentKey[s]
    /\ syncing[s] = "stored" =>
          rowOwner[sentKey[s]] = Owner /\ key[item[s]] \in {NoKey, sentKey[s]}
    /\ syncing[s] = "delete" => todo[s] = {} /\ keep[s] = KeysOf(list) \ {NoKey}

AloneSaves == \A s \in Syncs : alone[s] => Undisturbed(s)

RelInv == RelVarsOK /\ KeysApart /\ AloneSaves

(* Items without a key of another, no call, nothing to save.                *)
LEMMA RelInvInit == RelationInit => RelInv
<1> SUFFICES ASSUME RelationInit
             PROVE  RelInv
  OBVIOUS
<1>1. PICK rows \in [Items -> {NoItem, Owner, Stranger}], numbers \in [Items -> 0..Cardinality(Items)] :
         /\ \A i, j \in Items : i # j /\ numbers[i] # NoKey => numbers[i] # numbers[j]
         /\ lastKey = Cardinality({i \in Items : numbers[i] # NoKey})
         /\ \A i \in Items : numbers[i] <= lastKey
         /\ key = numbers
         /\ DOMAIN rowOwner = RowKeys
  BY DEF RelationInit
<1>2. lastKey \in 0..MaxKey
  <2>1. IsFiniteSet(Items) /\ Cardinality(Items) <= MaxKey /\ MaxKey \in Nat
    BY RelationAssumption
  <2>2. /\ Cardinality(Items) \in Nat
        /\ lastKey \in Nat /\ lastKey <= Cardinality(Items)
    BY <1>1, <2>1, FS_Subset, FS_CardinalityType
  <2> QED
    BY <2>1, <2>2
<1>3. key \in [Items -> Nat]
  <2>1. Cardinality(Items) \in Nat
    BY RelationAssumption, FS_CardinalityType
  <2> QED
    BY <1>1, <2>1
<1>4. RelVarsOK
  <2>1. /\ list = {} /\ syncing = [s \in Syncs |-> "idle"]
        /\ todo = [s \in Syncs |-> {}] /\ wanted = [s \in Syncs |-> {}]
        /\ item = [s \in Syncs |-> NoItem] /\ sentKey = [s \in Syncs |-> NoKey]
        /\ keep = [s \in Syncs |-> {}] /\ alone = [s \in Syncs |-> FALSE]
    BY DEF RelationInit
  <2>2. sentKey \in [Syncs -> Nat] /\ \A s \in Syncs : sentKey[s] <= lastKey
    BY <1>2, <2>1 DEF NoKey
  <2>3. \A i \in Items : key[i] <= lastKey
    BY <1>1
  <2> QED
    BY <1>1, <1>2, <1>3, <2>1, <2>2, <2>3 DEF RelVarsOK, Syncing
<1>5. KeysApart
  <2>1. \A i, j \in Items : key[i] = key[j] /\ key[i] # NoKey => i = j
    BY <1>1
  <2>2. \A s \in Syncs : syncing[s] = "idle"
    BY DEF RelationInit
  <2> QED
    BY <2>1, <2>2 DEF KeysApart
<1>6. AloneSaves
  BY DEF RelationInit, AloneSaves
<1> QED
  BY <1>4, <1>5, <1>6 DEF RelInv

(* An edit leaves keys and rows alone, and no call undisturbed.             *)
LEMMA EditsKeepRel ==
    ASSUME RelInv,
           (\E dataset \in SUBSET Items : EditList(dataset)) \/ (\E i \in Items : EditItem(i))
    PROVE  RelInv'
<1>1. /\ UNCHANGED <<key, relationTable, progress, wanted>>
      /\ list' \subseteq Items
      /\ alone' = [s \in Syncs |-> FALSE]
  BY DEF RelInv, RelVarsOK, EditList, EditItem, fixed, DiffWith, IntersectionWith, Without
<1>2. RelVarsOK'
  BY <1>1 DEF RelInv, RelVarsOK, relationTable, progress
<1>3. KeysApart'
  BY <1>1 DEF RelInv, KeysApart, relationTable, progress
<1>4. AloneSaves'
  BY <1>1 DEF AloneSaves
<1> QED
  BY <1>2, <1>3, <1>4 DEF RelInv

(* A call begins: what it picks is in the list and still to be saved.       *)
LEMMA StartKeepsRel ==
    ASSUME RelInv, NEW s \in Syncs, NEW all \in BOOLEAN, StartUpdate(s, all)
    PROVE  RelInv'
<1> DEFINE picked == {i \in list : dirty[i] \/ key[i] = NoKey}
<1>1. /\ UNCHANGED <<list, key, rowOwner, lastKey, item, sentKey, keep>>
      /\ syncing[s] = "idle" /\ syncing' = [syncing EXCEPT ![s] = "update"]
      /\ todo' = [todo EXCEPT ![s] = picked] /\ wanted' = [wanted EXCEPT ![s] = picked]
      /\ alone' = [t \in Syncs |-> t = s /\ \A u \in Syncs : syncing[u] = "idle"]
  BY DEF StartUpdate, Go, relationTable
<1>2. picked \subseteq list /\ picked \subseteq Items
  BY DEF RelInv, RelVarsOK
<1> HIDE DEF picked
<1>3. RelVarsOK'
  BY <1>1, <1>2 DEF RelInv, RelVarsOK, Syncing
<1>4. KeysApart'
  BY <1>1 DEF RelInv, RelVarsOK, KeysApart
<1>5. AloneSaves'
  <2> SUFFICES ASSUME NEW t \in Syncs, alone'[t]
               PROVE  Undisturbed(t)'
    BY DEF AloneSaves
  <2>1. t = s /\ \A u \in Syncs : syncing[u] = "idle"
    BY <1>1
  <2> QED
    BY <1>1, <1>2, <2>1 DEF RelInv, RelVarsOK, Syncing, Undisturbed
<1> QED
  BY <1>3, <1>4, <1>5 DEF RelInv

(* The next item is under way, with the key it has.                         *)
LEMMA InsertKeepsRel ==
    ASSUME RelInv, NEW s \in Syncs, NEW i \in Items, InsertItem(s, i)
    PROVE  RelInv'
<1>0. RelVarsOK /\ KeysApart /\ AloneSaves
  BY DEF RelInv
<1>1. /\ UNCHANGED <<list, key, rowOwner, lastKey, wanted, keep>>
      /\ syncing[s] = "update" /\ i \in todo[s]
      /\ syncing' = [syncing EXCEPT ![s] = "insert"]
      /\ todo' = [todo EXCEPT ![s] = @ \ {i}]
      /\ item' = [item EXCEPT ![s] = i] /\ sentKey' = [sentKey EXCEPT ![s] = key[i]]
      /\ alone' = [t \in Syncs |-> t = s /\ alone[t]]
  BY DEF InsertItem, Go, Disturb, relationTable, fixed
<1>2. RelVarsOK'
  BY <1>0, <1>1 DEF RelVarsOK, Syncing
<1>3. /\ syncing'[s] = "insert" /\ item'[s] = i /\ sentKey'[s] = key[i]
      /\ todo'[s] = todo[s] \ {i}
      /\ \A t \in Syncs \ {s} : /\ syncing'[t] = syncing[t] /\ item'[t] = item[t]
                                /\ sentKey'[t] = sentKey[t]
  BY <1>0, <1>1 DEF RelVarsOK
<1>4. KeysApart'
  BY <1>0, <1>1, <1>3 DEF KeysApart
<1>5. AloneSaves'
  <2> SUFFICES ASSUME alone[s]
               PROVE  Undisturbed(s)'
    BY <1>1 DEF AloneSaves
  <2>1. Undisturbed(s)
    BY <1>0 DEF AloneSaves
  <2> QED
    BY <1>1, <1>3, <2>1 DEF Undisturbed, Saved, Syncing
<1> QED
  BY <1>2, <1>4, <1>5 DEF RelInv

(* The row is the owner's, under the key sent or one nobody has had.        *)
LEMMA StoreKeepsRel ==
    ASSUME RelInv, NEW s \in Syncs, StoreItem(s)
    PROVE  RelInv'
<1> DEFINE n == IF sentKey[s] = NoKey THEN lastKey + 1 ELSE sentKey[s]
<1>0. RelVarsOK /\ KeysApart /\ AloneSaves
  BY DEF RelInv
<1>1. /\ UNCHANGED <<list, key, item, todo, wanted, keep>>
      /\ syncing[s] = "insert" /\ (sentKey[s] = NoKey => lastKey < MaxKey)
      /\ syncing' = [syncing EXCEPT ![s] = "stored"]
      /\ rowOwner' = [rowOwner EXCEPT ![n] = Owner]
      /\ lastKey' = IF sentKey[s] = NoKey THEN n ELSE lastKey
      /\ sentKey' = [sentKey EXCEPT ![s] = n]
      /\ alone' = [t \in Syncs |-> t = s /\ alone[t]]
  BY DEF StoreItem, Go, Disturb, memory, fixed
<1>2. /\ lastKey \in Nat /\ MaxKey \in Nat /\ lastKey <= MaxKey
      /\ sentKey[s] \in Nat /\ sentKey[s] <= lastKey
      /\ \A i \in Items : key[i] \in Nat /\ key[i] <= lastKey
      /\ \A t \in Syncs : sentKey[t] \in Nat /\ sentKey[t] <= lastKey
  BY <1>0, RelationAssumption DEF RelVarsOK
<1>3. n \in RowKeys /\ n \in Nat /\ n # NoKey /\ n <= lastKey'
  BY <1>1, <1>2 DEF RowKeys, NoKey
<1>4. /\ sentKey[s] = NoKey => n = lastKey + 1
      /\ sentKey[s] # NoKey => n = sentKey[s] /\ key[item[s]] = n
  BY <1>0, <1>1 DEF KeysApart
<1>5. lastKey' \in 0..MaxKey /\ lastKey <= lastKey'
  BY <1>1, <1>2
<1> HIDE DEF n
<1>6. /\ syncing'[s] = "stored" /\ sentKey'[s] = n /\ rowOwner'[n] = Owner
      /\ \A t \in Syncs \ {s} : syncing'[t] = syncing[t] /\ sentKey'[t] = sentKey[t]
      /\ \A k \in RowKeys : rowOwner[k] = Owner => rowOwner'[k] = Owner
      /\ DOMAIN rowOwner' = RowKeys
  BY <1>0, <1>1, <1>3 DEF RelVarsOK
<1>7. RelVarsOK'
  <2>1. \A i \in Items : key'[i] <= lastKey'
    BY <1>1, <1>2, <1>5
  <2>2. \A t \in Syncs : sentKey'[t] <= lastKey'
    BY <1>2, <1>3, <1>5, <1>6
  <2>3. sentKey' \in [Syncs -> Nat] /\ syncing' \in [Syncs -> Syncing \cup {"idle"}]
    BY <1>0, <1>1, <1>3 DEF RelVarsOK, Syncing
  <2> QED
    BY <1>0, <1>1, <1>5, <1>6, <2>1, <2>2, <2>3 DEF RelVarsOK
<1>8. KeysApart'
  <2>1. \A i \in Items : sentKey[s] = NoKey => key[i] # n
    BY <1>2, <1>4
  <2>2. \A t \in Syncs : sentKey[s] = NoKey => sentKey[t] # n
    BY <1>2, <1>4
  <2>3. \A t \in Syncs \ {s} : syncing[t] = "stored" /\ key[item[t]] # sentKey[t] => sentKey[t] # n
    BY <1>0, <1>1, <1>4, <2>2 DEF KeysApart
  <2> QED
    BY <1>0, <1>1, <1>3, <1>4, <1>6, <2>1, <2>2, <2>3 DEF KeysApart
<1>9. AloneSaves'
  <2> SUFFICES ASSUME alone[s]
               PROVE  Undisturbed(s)'
    BY <1>1 DEF AloneSaves
  <2>1. Undisturbed(s)
    BY <1>0 DEF AloneSaves
  <2>2. \A i \in Items : Saved(i) => Saved(i)'
    <3>1. \A i \in Items : key[i] # NoKey => key[i] \in RowKeys
      BY <1>2 DEF RowKeys, NoKey
    <3> QED
      BY <1>1, <1>6, <3>1 DEF Saved
  <2>3. wanted[s] \subseteq Items
    BY <1>0 DEF RelVarsOK
  <2>4. key[item[s]] \in {NoKey, n}
    BY <1>1, <1>4, <2>1 DEF Undisturbed
  <2> QED
    BY <1>1, <1>6, <2>1, <2>2, <2>3, <2>4 DEF Undisturbed, Syncing
<1> QED
  BY <1>7, <1>8, <1>9 DEF RelInv

(* The answer gives the key of the row to an item that has none.            *)
LEMMA AnswerKeepsRel ==
    ASSUME RelInv, NEW s \in Syncs, ItemStored(s)
    PROVE  RelInv'
<1> DEFINE it == item[s]
<1>0. RelVarsOK /\ KeysApart /\ AloneSaves
  BY DEF RelInv
<1>1. /\ UNCHANGED <<list, rowOwner, lastKey, todo, wanted, keep>>
      /\ syncing[s] = "stored" /\ syncing' = [syncing EXCEPT ![s] = "update"]
      /\ key' = IF key[it] = NoKey THEN [key EXCEPT ![it] = sentKey[s]] ELSE key
      /\ item' = [item EXCEPT ![s] = NoItem]
      /\ sentKey' = [sentKey EXCEPT ![s] = NoKey]
      /\ alone' = [t \in Syncs |-> t = s /\ alone[t]]
  BY DEF ItemStored, Go, Disturb, relationTable, fixed
<1>2. /\ it \in Items /\ sentKey[s] # NoKey /\ sentKey[s] \in Nat /\ sentKey[s] <= lastKey
      /\ key[it] = NoKey =>
           /\ \A i \in Items : key[i] # sentKey[s]
           /\ \A t \in Syncs \ {s} : syncing[t] = "stored" => sentKey[t] # sentKey[s]
  BY <1>0, <1>1 DEF KeysApart, RelVarsOK
<1>3. /\ syncing'[s] = "update"
      /\ \A t \in Syncs \ {s} : /\ syncing'[t] = syncing[t] /\ item'[t] = item[t]
                                /\ sentKey'[t] = sentKey[t]
  BY <1>0, <1>1 DEF RelVarsOK
<1>4. /\ \A i \in Items : key[i] # NoKey => key'[i] = key[i]
      /\ \A i \in Items \ {it} : key'[i] = key[i]
      /\ key[it] = NoKey => key'[it] = sentKey[s]
      /\ key' \in [Items -> Nat]
  BY <1>0, <1>1, <1>2 DEF RelVarsOK
<1>5. RelVarsOK'
  <2>1. \A i \in Items : key'[i] <= lastKey
    BY <1>0, <1>2, <1>4 DEF RelVarsOK
  <2>2. \A t \in Syncs : sentKey'[t] <= lastKey
    BY <1>0, <1>1, <1>3 DEF RelVarsOK, NoKey
  <2>3. /\ sentKey' \in [Syncs -> Nat] /\ syncing' \in [Syncs -> Syncing \cup {"idle"}]
        /\ item' \in [Syncs -> Items \cup {NoItem}]
    BY <1>0, <1>1 DEF RelVarsOK, Syncing, NoKey
  <2> QED
    BY <1>0, <1>1, <1>4, <2>1, <2>2, <2>3 DEF RelVarsOK
<1> HIDE DEF it
<1>6. KeysApart'
  <2>1. ASSUME NEW i \in Items, NEW j \in Items, key'[i] = key'[j], key'[i] # NoKey
        PROVE  i = j
    BY <1>0, <1>2, <1>4, <2>1 DEF KeysApart
  <2>2. ASSUME NEW t \in Syncs, syncing'[t] \in {"insert", "stored"}
        PROVE  /\ t # s /\ syncing[t] = syncing'[t] /\ item'[t] = item[t] /\ item[t] \in Items
               /\ sentKey'[t] = sentKey[t]
    BY <1>0, <1>3, <2>2 DEF KeysApart
  <2>3. ASSUME NEW t \in Syncs, syncing'[t] = "insert", sentKey'[t] # NoKey
        PROVE  key'[item'[t]] = sentKey'[t]
    BY <1>0, <1>4, <2>2, <2>3 DEF KeysApart
  <2>4. ASSUME NEW t \in Syncs, syncing'[t] = "stored"
        PROVE  /\ sentKey'[t] # NoKey
               /\ key'[item'[t]] # sentKey'[t] =>
                    /\ \A i \in Items : key'[i] # sentKey'[t]
                    /\ \A u \in Syncs \ {t} : syncing'[u] = "stored" => sentKey'[u] # sentKey'[t]
    <3>1. /\ t # s /\ syncing[t] = "stored" /\ item'[t] = item[t] /\ item[t] \in Items
          /\ sentKey'[t] = sentKey[t] /\ sentKey[t] # NoKey
      BY <1>0, <2>2, <2>4 DEF KeysApart
    <3>2. CASE key[item[t]] = sentKey[t]
      BY <1>4, <3>1, <3>2
    <3>3. CASE key[item[t]] # sentKey[t]
      <4>1. /\ \A i \in Items : key[i] # sentKey[t]
            /\ \A u \in Syncs \ {t} : syncing[u] = "stored" => sentKey[u] # sentKey[t]
        BY <1>0, <3>1, <3>3 DEF KeysApart
      <4>2. sentKey[s] # sentKey[t]
        BY <1>1, <3>1, <4>1
      <4>3. \A i \in Items : key'[i] # sentKey[t]
        BY <1>4, <4>1, <4>2
      <4> QED
        BY <1>3, <3>1, <4>1, <4>3
    <3> QED
      BY <3>2, <3>3
  <2> QED
    BY <2>1, <2>2, <2>3, <2>4 DEF KeysApart
<1>7. AloneSaves'
  <2> SUFFICES ASSUME alone[s]
               PROVE  Undisturbed(s)'
    BY <1>1 DEF AloneSaves
  <2>1. Undisturbed(s)
    BY <1>0 DEF AloneSaves
  <2>2. \A i \in Items : Saved(i) => Saved(i)'
    BY <1>1, <1>4 DEF Saved
  <2>3. key'[it] # NoKey /\ rowOwner'[key'[it]] = Owner
    BY <1>1, <1>2, <1>4, <2>1 DEF Undisturbed, it
  <2>4. wanted[s] \subseteq Items
    BY <1>0 DEF RelVarsOK
  <2> QED
    BY <1>1, <1>3, <2>1, <2>2, <2>3, <2>4 DEF Undisturbed, Saved, Syncing, it
<1> QED
  BY <1>5, <1>6, <1>7 DEF RelInv

(* The list is read: its keys are those the DELETE leaves.                  *)
LEMMA DiffSentKeepsRel ==
    ASSUME RelInv, NEW s \in Syncs, DiffSent(s)
    PROVE  RelInv'
<1>0. RelVarsOK /\ KeysApart /\ AloneSaves
  BY DEF RelInv
<1>1. /\ UNCHANGED <<list, key, rowOwner, lastKey, todo, item, sentKey, wanted>>
      /\ syncing[s] = "update" /\ todo[s] = {}
      /\ syncing' = [syncing EXCEPT ![s] = "delete"]
      /\ keep' = [keep EXCEPT ![s] = KeysOf(list) \ {NoKey}]
      /\ alone' = [t \in Syncs |-> t = s /\ alone[t]]
  BY DEF DiffSent, Go, Disturb, memory, relationTable, fixed
<1>2. /\ syncing'[s] = "delete" /\ keep'[s] = KeysOf(list) \ {NoKey}
      /\ \A t \in Syncs \ {s} : syncing'[t] = syncing[t]
  BY <1>0, <1>1 DEF RelVarsOK
<1>3. KeysOf(list) \subseteq Nat
  BY <1>0 DEF RelVarsOK, KeysOf
<1>4. RelVarsOK'
  BY <1>0, <1>1, <1>3 DEF RelVarsOK, Syncing
<1>5. KeysApart'
  BY <1>0, <1>1, <1>2 DEF KeysApart
<1>6. AloneSaves'
  <2> SUFFICES ASSUME alone[s]
               PROVE  Undisturbed(s)'
    BY <1>1 DEF AloneSaves
  <2>1. Undisturbed(s)
    BY <1>0 DEF AloneSaves
  <2>2. KeysOf(list)' = KeysOf(list)
    BY <1>1 DEF KeysOf
  <2> QED
    BY <1>1, <1>2, <2>1, <2>2 DEF Undisturbed, Saved, Syncing
<1> QED
  BY <1>4, <1>5, <1>6 DEF RelInv

(* A call that ends, done or refused, leaves no call undisturbed.           *)
LEMMA EndKeepsRel ==
    ASSUME RelInv, NEW s \in Syncs, SyncFails(s) \/ UpdateEnds(s) \/ DiffRuns(s)
    PROVE  RelInv'
<1>0. RelVarsOK /\ KeysApart /\ AloneSaves
  BY DEF RelInv
<1>1. /\ UNCHANGED <<list, key, lastKey>> /\ DOMAIN rowOwner' = RowKeys
      /\ syncing' = [syncing EXCEPT ![s] = "idle"]
      /\ todo' = [todo EXCEPT ![s] = {}] /\ item' = [item EXCEPT ![s] = NoItem]
      /\ sentKey' = [sentKey EXCEPT ![s] = NoKey] /\ keep' = [keep EXCEPT ![s] = {}]
      /\ wanted' = [wanted EXCEPT ![s] = {}] /\ alone' = [t \in Syncs |-> FALSE]
  BY <1>0 DEF SyncFails, UpdateEnds, DiffRuns, Finish, Go, memory, RelVarsOK
<1>2. /\ syncing'[s] = "idle" /\ \A t \in Syncs : sentKey'[t] <= lastKey
      /\ \A t \in Syncs \ {s} : /\ syncing'[t] = syncing[t] /\ item'[t] = item[t]
                                /\ sentKey'[t] = sentKey[t]
  BY <1>0, <1>1 DEF RelVarsOK, NoKey
<1>3. RelVarsOK'
  BY <1>0, <1>1, <1>2 DEF RelVarsOK, Syncing, NoKey
<1>4. KeysApart'
  BY <1>0, <1>1, <1>2 DEF KeysApart
<1>5. AloneSaves'
  BY <1>1 DEF AloneSaves
<1> QED
  BY <1>3, <1>4, <1>5 DEF RelInv

(* Every step keeps it.                                                     *)
LEMMA RelInvNext == RelInv /\ [RelationNext]_relationVars => RelInv'
<1> SUFFICES ASSUME RelInv, [RelationNext]_relationVars
             PROVE  RelInv'
  OBVIOUS
<1>1. CASE UNCHANGED relationVars
  <2>1. RelVarsOK' /\ KeysApart'
    BY <1>1 DEF relationVars, RelInv, RelVarsOK, KeysApart
  <2>2. AloneSaves'
    BY <1>1 DEF relationVars, RelInv, AloneSaves, Undisturbed, Saved, KeysOf
  <2> QED
    BY <2>1, <2>2 DEF RelInv
<1>2. CASE RelationNext
  BY <1>2, EditsKeepRel, StartKeepsRel, InsertKeepsRel, StoreKeepsRel, AnswerKeepsRel,
     DiffSentKeepsRel, EndKeepsRel DEF RelationNext
<1> QED
  BY <1>1, <1>2

(* Items without two of one key have as many keys as they are.              *)
LEMMA KeysOfSaved ==
    ASSUME RelInv, NEW S \in SUBSET Items, \A i \in S : key[i] # NoKey
    PROVE  Cardinality(KeysOf(S)) = Cardinality(S)
<1> DEFINE f == [i \in S |-> key[i]]
<1>1. IsFiniteSet(S)
  BY RelationAssumption, FS_Subset
<1>2. f \in Bijection(S, KeysOf(S))
  <2>1. f \in Surjection(S, KeysOf(S))
    BY DEF KeysOf, Surjection
  <2>2. f \in Injection(S, KeysOf(S))
    BY <2>1 DEF RelInv, KeysApart, Injection, IsInjective, Surjection
  <2> QED
    BY <2>1, <2>2 DEF Bijection
<1> QED
  BY <1>1, <1>2, FS_Bijection DEF ExistsBijection

(* A sync() that nothing disturbed leaves the owner the rows of the list and*)
(* no other, and what it was to save has its row, each item one of its own. *)
THEOREM SyncKeepsToTheList == RelationSpec => SyncLeavesTheList
<1> DEFINE Leaves ==
        \A s \in Syncs : DiffRuns(s) /\ alone[s] =>
            /\ OwnedRows' \subseteq KeysOf(list)
            /\ KeysOf(wanted[s]) \subseteq OwnedRows'
            /\ Cardinality(KeysOf(wanted[s])) = Cardinality(wanted[s])
<1>1. ASSUME RelInv, NEW s \in Syncs, DiffRuns(s), alone[s]
      PROVE  /\ OwnedRows' \subseteq KeysOf(list)
             /\ KeysOf(wanted[s]) \subseteq OwnedRows'
             /\ Cardinality(KeysOf(wanted[s])) = Cardinality(wanted[s])
  <2>1. /\ Undisturbed(s) /\ syncing[s] = "delete"
        /\ rowOwner' = [n \in RowKeys |->
             IF rowOwner[n] = Owner /\ n \notin keep[s] THEN NoItem ELSE rowOwner[n]]
    BY <1>1 DEF RelInv, AloneSaves, DiffRuns
  <2>2. keep[s] = KeysOf(list) \ {NoKey} /\ wanted[s] \subseteq list /\ wanted[s] \subseteq Items
    BY <1>1, <2>1 DEF Undisturbed, RelInv, RelVarsOK
  <2>3. \A i \in wanted[s] : key[i] # NoKey /\ rowOwner[key[i]] = Owner
    BY <2>1 DEF Undisturbed, Saved
  <2>4. OwnedRows' \subseteq KeysOf(list)
    BY <2>1, <2>2, RelationAssumption DEF OwnedRows
  <2>5. KeysOf(wanted[s]) \subseteq OwnedRows'
    <3> SUFFICES ASSUME NEW i \in wanted[s]
                 PROVE  key[i] \in OwnedRows'
      BY DEF KeysOf
    <3>1. key[i] \in RowKeys
      <4>1. /\ key[i] \in Nat /\ key[i] <= lastKey /\ lastKey \in Nat /\ lastKey <= MaxKey
            /\ MaxKey \in Nat
        BY <1>1, <2>2, RelationAssumption DEF RelInv, RelVarsOK
      <4> QED
        BY <2>3, <4>1 DEF RowKeys, NoKey
    <3>2. key[i] \in keep[s]
      BY <2>2, <2>3 DEF KeysOf
    <3> QED
      BY <2>1, <2>3, <3>1, <3>2 DEF OwnedRows
  <2>6. Cardinality(KeysOf(wanted[s])) = Cardinality(wanted[s])
    BY <1>1, <2>2, <2>3, KeysOfSaved
  <2> QED
    BY <2>4, <2>5, <2>6
<1>2. RelInv => Leaves
  BY <1>1
<1>3. RelInv /\ [RelationNext]_relationVars => [Leaves]_relationVars
  BY <1>2
<1> QED
  BY RelInvInit, RelInvNext, <1>3, PTL DEF RelationSpec, SyncLeavesTheList

-----------------------------------------------------------------------------
(* OrmSelect.                                                               *)

(* What stands for a placeholder: the values of a statement, LIMIT, OFFSET. *)
Parts == {"columns", "joins", "wheres", "groups", "relation", "related"}
QueryValue == {"limit", "offset"} \cup (Parts \X Nat \X Nat)
Kinds == {"where", "having", "raw", "nested", "exists", "other", "column", "table", "misnamed"}
Statements == [kind : Kinds, values : Seq(QueryValue), qualified : BOOLEAN]

Queries == [columns : Seq(Statements), joins : Seq(Statements), wheres : Seq(Statements),
            groups : Seq(Statements), limit : Seq(QueryValue), offset : Seq(QueryValue),
            alias : {"", "own", "model", "exists", "recursive"},
            relation : {"none", "pending", "merged"},
            relWheres : Seq(Statements), recursive : BOOLEAN]

Named(stmts) ==
    \A i \in DOMAIN stmts : stmts[i].kind \in {"where", "having", "column"} => stmts[i].qualified

(* The alias a query was given, or the one of a populated relation, is that *)
(* of all its conditions and columns, and of those the relation brings.     *)
AliasTaken(q) ==
    /\ q.alias \in {"own", "model"} => Named(q.columns) /\ Named(q.wheres)
    /\ Named(q.relWheres)
    /\ q.relation = "merged" => q.alias # ""
    /\ q.alias # "recursive"

SelectVarsOK ==
    /\ query \in Queries
    /\ copy # NoQuery => copy \in Queries
    /\ related \in Seq(Statements)

SelectInv == SelectVarsOK /\ AliasTaken(query) /\ StatementFits

(* The values of statements are a sequence of values.                       *)
LEMMA BindingsType ==
    ASSUME NEW stmts \in Seq(Statements)
    PROVE  Bindings(stmts) \in Seq(QueryValue)
<1> DEFINE n == Len(stmts)
           f == [i \in DOMAIN stmts |-> stmts[i].values]
<1>1. n \in Nat /\ DOMAIN stmts = 1..n /\ \A i \in 1..n : stmts[i] \in Statements
  BY LenProperties, ElementOfSeq
<1>2. \A i \in 1..n : stmts[i].values \in Seq(QueryValue)
  BY <1>1 DEF Statements
<1>3. f \in [1..n -> Seq(QueryValue)]
  BY <1>1, <1>2, Zenon
<1>4. f \in Seq(Seq(QueryValue))
  BY <1>1, <1>3, FunctionIsSeq
<1> HIDE DEF f
<1>5. Seqs!FlattenSeq(f) \in Seq(QueryValue)
  BY <1>4, FlattenType
<1> QED
  BY <1>5, Zenon DEF f, Bindings

(* No statement has no value.                                               *)
LEMMA BindingsNone == Bindings(<< >>) = << >>
<1> DEFINE f == [i \in DOMAIN << >> |-> << >>[i].values]
<1>1. f \in [1..0 -> Seq(QueryValue)]
  OBVIOUS
<1>2. f \in Seq(Seq(QueryValue)) /\ DOMAIN f = 1..0
  BY <1>1, FunctionIsSeq
<1>3. Bindings(<< >>) = Seqs!FlattenSeq(f)
  BY Zenon DEF Bindings
<1> HIDE DEF f
<1>4. f = << >>
  BY <1>2, EmptySeq, LenProperties
<1> QED
  BY <1>3, <1>4, FlattenEmpty

(* A statement without values adds none.                                    *)
LEMMA BindingsOfOneMore ==
    ASSUME NEW stmts \in Seq(Statements), NEW s \in Statements, s.values = << >>
    PROVE  Bindings(Append(stmts, s)) = Bindings(stmts)
<1> DEFINE t == Append(stmts, s)
           n == Len(stmts)
           f == [i \in DOMAIN stmts |-> stmts[i].values]
           g == [i \in DOMAIN t |-> t[i].values]
<1>1. /\ n \in Nat /\ DOMAIN stmts = 1..n /\ DOMAIN t = 1..(n + 1) /\ t[n + 1] = s
      /\ \A i \in 1..n : t[i] = stmts[i] /\ stmts[i] \in Statements
  BY LenProperties, ElementOfSeq, AppendProperties
<1>2. \A i \in 1..n : stmts[i].values \in Seq(QueryValue)
  BY <1>1 DEF Statements
<1>3. f \in [1..n -> Seq(QueryValue)]
  BY <1>1, <1>2, Zenon
<1>4. f \in Seq(Seq(QueryValue)) /\ Len(f) = n /\ \A i \in 1..n : f[i] = stmts[i].values
  BY <1>1, <1>3, FunctionIsSeq
<1>5. DOMAIN g = 1..(n + 1) /\ \A i \in 1..(n + 1) : g[i] = IF i = n + 1 THEN << >> ELSE stmts[i].values
  BY <1>1
<1>6. Bindings(stmts) = Seqs!FlattenSeq(f) /\ Bindings(t) = Seqs!FlattenSeq(g)
  BY Zenon DEF Bindings
<1>7. g = [i \in 1..(n + 1) |-> g[i]]
  BY <1>5, Zenon
<1> HIDE DEF f, g, t
<1>8. g = Append(f, << >>)
  <2>1. << >> \in Seq(QueryValue)
    OBVIOUS
  <2>2. /\ Append(f, << >>) \in Seq(Seq(QueryValue)) /\ Len(Append(f, << >>)) = n + 1
        /\ Append(f, << >>)[n + 1] = << >> /\ \A i \in 1..n : Append(f, << >>)[i] = f[i]
    BY <1>1, <1>4, <2>1, AppendProperties
  <2>3. \A i \in 1..(n + 1) : g[i] \in Seq(QueryValue)
    <3> SUFFICES ASSUME NEW i \in 1..(n + 1)
                 PROVE  g[i] \in Seq(QueryValue)
      OBVIOUS
    <3>1. CASE i = n + 1
      BY <1>5, <2>1, <3>1
    <3>2. CASE i # n + 1
      <4>1. i \in 1..n
        BY <1>1, <3>2
      <4>2. g[i] = stmts[i].values
        BY <1>5, <3>2
      <4> QED
        BY <1>2, <4>1, <4>2
    <3> QED
      BY <3>1, <3>2
  <2>4. g \in [1..(n + 1) -> Seq(QueryValue)]
    BY <1>7, <2>3, Zenon
  <2>5. n + 1 \in Nat
    BY <1>1
  <2>6. g \in Seq(Seq(QueryValue)) /\ Len(g) = n + 1
    BY <2>4, <2>5, FunctionIsSeq
  <2>7. \A i \in 1..(n + 1) : g[i] = Append(f, << >>)[i]
    BY <1>1, <1>4, <1>5, <2>2
  <2> QED
    BY <2>2, <2>6, <2>7, SeqEqual
<1>9. Seqs!FlattenSeq(g) = Seqs!FlattenSeq(f) \o << >> /\ Seqs!FlattenSeq(f) \in Seq(QueryValue)
  <2>1. << >> \in Seq(QueryValue)
    OBVIOUS
  <2>2. Seqs!FlattenSeq(Append(f, << >>)) = Seqs!FlattenSeq(f) \o << >>
    BY <1>4, <2>1, FlattenAppend
  <2> QED
    BY <1>4, <1>8, <2>2, FlattenType
<1> QED
  BY <1>6, <1>9, ConcatEmptySeq DEF t

(* The conditions of WHERE are statements of the query, an EXISTS with the  *)
(* values of the related query; those of HAVING are statements of it.       *)
LEMMA WhereType ==
    ASSUME NEW q \in Queries, NEW conditions \in Seq(Statements)
    PROVE  /\ WhereOf(q, conditions) \in Seq(Statements)
           /\ Named(q.wheres) => Named(WhereOf(q, conditions))
<1> DEFINE stmts == Filtered(q.wheres, Seqs!ToSet(q.wheres) \ Having(q.wheres))
           f == [i \in DOMAIN stmts |-> Built(stmts[i], conditions)]
           n == Len(stmts)
<1>1. q.wheres \in Seq(Statements)
  BY DEF Queries
<1>2. FilterOK(stmts, q.wheres, Statements, Seqs!ToSet(q.wheres) \ Having(q.wheres))
  BY <1>1, FilteredFacts
<1>3. stmts \in Seq(Statements) /\ \A i \in DOMAIN stmts : \E j \in DOMAIN q.wheres : stmts[i] = q.wheres[j]
  BY <1>2 DEF FilterOK, TakenFrom
<1> HIDE DEF stmts
<1>4. n \in Nat /\ DOMAIN stmts = 1..n /\ \A i \in 1..n : stmts[i] \in Statements
  BY <1>3, LenProperties, ElementOfSeq
<1>5. \A s \in Statements : /\ Built(s, conditions) \in Statements
                            /\ Built(s, conditions).kind = s.kind
                            /\ Built(s, conditions).qualified = s.qualified
  BY BindingsType DEF Built, Statements
<1>6. f \in [1..n -> Statements]
  BY <1>4, <1>5, Zenon
<1>7. f \in Seq(Statements) /\ DOMAIN f = 1..n
  BY <1>4, <1>6, FunctionIsSeq
<1>8. Named(q.wheres) => Named(f)
  <2>1. \A i \in 1..n : f[i] = Built(stmts[i], conditions)
    BY <1>4
  <2> HIDE DEF f
  <2> QED
    BY <1>3, <1>4, <1>5, <1>7, <2>1 DEF Named
<1>9. WhereOf(q, conditions) = f
  BY Zenon DEF WhereOf, stmts
<1> QED
  BY <1>7, <1>8, <1>9

(* Columns and groups without values: the placeholders are those that are   *)
(* listed.                                                                  *)
LEMMA MarksAreBound ==
    ASSUME NEW q \in Queries, NEW conditions \in Seq(Statements),
           Bindings(q.columns) = << >>, Bindings(q.groups) = << >>
    PROVE  Marks(q, conditions) = Bound(q, conditions)
<1> DEFINE J == Bindings(q.joins)
           W == Bindings(WhereOf(q, conditions))
<1>1. J \in Seq(QueryValue) /\ W \in Seq(QueryValue)
  BY BindingsType, WhereType DEF Queries
<1> HIDE DEF J, W
<1>2. J \o W \in Seq(QueryValue)
  BY <1>1
<1>3. << >> \o J = J /\ (J \o W) \o << >> = J \o W
  BY <1>1, <1>2, ConcatEmptySeq
<1> QED
  BY <1>3, Zenon DEF Marks, Bound, J, W

(* A statement added to a part.                                             *)
LEMMA AppendStatement ==
    ASSUME NEW stmts \in Seq(Statements), NEW s \in Statements
    PROVE  /\ Append(stmts, s) \in Seq(Statements)
           /\ Named(stmts) /\ (s.kind \in {"where", "having", "column"} => s.qualified) =>
                Named(Append(stmts, s))
<1>1. /\ Append(stmts, s) \in Seq(Statements) /\ Len(Append(stmts, s)) = Len(stmts) + 1
      /\ Append(stmts, s)[Len(stmts) + 1] = s
      /\ \A i \in 1..Len(stmts) : Append(stmts, s)[i] = stmts[i]
  BY AppendProperties
<1>2. /\ Len(stmts) \in Nat /\ DOMAIN stmts = 1..Len(stmts)
      /\ DOMAIN Append(stmts, s) = 1..(Len(stmts) + 1)
  BY <1>1, LenProperties
<1> QED
  BY <1>1, <1>2 DEF Named

(* So are the values of a new one.                                          *)
LEMMA ValuesType ==
    ASSUME NEW part \in Parts, NEW stmts, Len(stmts) \in Nat, NEW n \in Nat
    PROVE  Values(part, stmts, n) \in Seq(QueryValue)
<1>1. ASSUME NEW i \in 1..n
      PROVE  <<part, Len(stmts), i>> \in QueryValue
  <2>1. i \in Nat
    OBVIOUS
  <2>2. <<part, Len(stmts), i>> \in Parts \X Nat \X Nat
    BY <2>1
  <2> QED
    BY <2>2 DEF QueryValue
<1>2. Values(part, stmts, n) \in [1..n -> QueryValue]
  BY <1>1, Zenon DEF Values
<1> QED
  BY <1>2, FunctionIsSeq

(* An alias is taken over by every condition and column.                    *)
LEMMA AliasNames ==
    ASSUME NEW q \in Queries, NEW alias \in {"own", "model", "recursive"}
    PROVE  LET a == WithAlias(q, alias)
           IN  /\ a \in Queries /\ Named(a.columns) /\ Named(a.wheres) /\ a.alias = alias
               /\ a.relWheres = q.relWheres /\ a.relation = q.relation
               /\ a.joins = q.joins /\ a.groups = q.groups
               /\ Bindings(a.columns) = Bindings(q.columns)
<1> DEFINE Renamed(s) == [s EXCEPT !.qualified = s.kind \in {"where", "having", "column"} \/ @]
           R(stmts) == [i \in DOMAIN stmts |-> Renamed(stmts[i])]
<1>1. ASSUME NEW stmts \in Seq(Statements)
      PROVE  R(stmts) \in Seq(Statements) /\ Named(R(stmts)) /\ Bindings(R(stmts)) = Bindings(stmts)
  <2>1. Len(stmts) \in Nat /\ DOMAIN stmts = 1..Len(stmts) /\ \A i \in 1..Len(stmts) : stmts[i] \in Statements
    BY LenProperties, ElementOfSeq
  <2>2. \A s \in Statements : /\ Renamed(s) \in Statements
                              /\ Renamed(s).kind \in {"where", "having", "column"} => Renamed(s).qualified
                              /\ Renamed(s).values = s.values
    BY DEF Statements
  <2> HIDE DEF Renamed
  <2>3. R(stmts) \in [1..Len(stmts) -> Statements]
    BY <2>1, <2>2, Zenon
  <2>4. R(stmts) \in Seq(Statements) /\ DOMAIN R(stmts) = 1..Len(stmts)
    BY <2>1, <2>3, FunctionIsSeq
  <2>5. \A i \in 1..Len(stmts) : R(stmts)[i] = Renamed(stmts[i])
    BY <2>1
  <2> HIDE DEF R
  <2>6. [i \in DOMAIN R(stmts) |-> R(stmts)[i].values] = [i \in DOMAIN stmts |-> stmts[i].values]
    <3>1. \A i \in 1..Len(stmts) : R(stmts)[i].values = stmts[i].values
      BY <2>1, <2>2, <2>5
    <3> QED
      BY <2>1, <2>4, <3>1, Zenon
  <2>7. Bindings(R(stmts)) = Bindings(stmts)
    BY <2>6, Zenon DEF Bindings
  <2> QED
    BY <2>1, <2>2, <2>4, <2>5, <2>7 DEF Named
<1>2. /\ R(q.columns) \in Seq(Statements) /\ Named(R(q.columns))
      /\ R(q.wheres) \in Seq(Statements) /\ Named(R(q.wheres))
      /\ Bindings(R(q.columns)) = Bindings(q.columns)
  BY <1>1 DEF Queries
<1>3. WithAlias(q, alias) = [q EXCEPT !.alias = alias, !.columns = R(q.columns), !.wheres = R(q.wheres)]
  BY DEF WithAlias, Queries
<1> HIDE DEF R
<1> QED
  BY <1>2, <1>3 DEF Queries

(* The clone of a query has its columns and conditions, no groups, and a    *)
(* misnamed join for each of its joins.                                     *)
LEMMA ClonedType ==
    ASSUME NEW q \in Queries
    PROVE  /\ Misnamed \in Statements /\ Misnamed.values = << >>
           /\ Cloned(q) \in Queries /\ Cloned(q).joins = [i \in DOMAIN q.joins |-> Misnamed]
           /\ \A f \in {"columns", "wheres", "limit", "offset", "alias"} : Cloned(q)[f] = q[f]
           /\ Cloned(q).groups = << >> /\ Cloned(q).relWheres = << >>
           /\ Cloned(q).relation = "none" /\ Cloned(q).recursive = FALSE
<1>1. Misnamed \in Statements /\ Misnamed.values = << >>
  BY DEF Misnamed, Statement, Statements, Kinds
<1> DEFINE jj == [i \in DOMAIN q.joins |-> Misnamed]
<1>2. jj \in Seq(Statements)
  <2>1. Len(q.joins) \in Nat /\ DOMAIN q.joins = 1..Len(q.joins)
    BY LenProperties DEF Queries
  <2>2. jj \in [1..Len(q.joins) -> Statements]
    BY <1>1, <2>1, Zenon
  <2> QED
    BY <2>1, <2>2, FunctionIsSeq
<1>3. Cloned(q) = [q EXCEPT !.joins = jj, !.groups = << >>, !.relation = "none",
                            !.relWheres = << >>, !.recursive = FALSE]
  BY DEF Cloned
<1> HIDE DEF jj
<1>4. << >> \in Seq(Statements)
  OBVIOUS
<1>5. /\ Cloned(q) \in Queries /\ Cloned(q).joins = jj
      /\ \A f \in {"columns", "wheres", "limit", "offset", "alias"} : Cloned(q)[f] = q[f]
      /\ Cloned(q).groups = << >> /\ Cloned(q).relWheres = << >>
      /\ Cloned(q).relation = "none" /\ Cloned(q).recursive = FALSE
  BY <1>2, <1>3, <1>4 DEF Queries
<1> QED
  BY <1>1, <1>5 DEF jj

(* A query nothing was said to.                                             *)
LEMMA SelectInvInit == SelectInit => SelectInv
<1> SUFFICES ASSUME SelectInit
             PROVE  SelectInv
  OBVIOUS
<1>1. << >> \in Seq(Statements) /\ << >> \in Seq(QueryValue) /\ DOMAIN << >> = {}
  OBVIOUS
<1>2. query = NewQuery /\ copy = NoQuery /\ related = << >> /\ out = NoQuery
  BY DEF SelectInit
<1>3. NewQuery \in Queries /\ AliasTaken(NewQuery)
  BY <1>1 DEF NewQuery, Queries, AliasTaken, Named
<1> QED
  BY <1>1, <1>2, <1>3 DEF SelectInv, SelectVarsOK, StatementFits

(* A call that adds a statement to the query.                               *)
LEMMA AddKeepsSelect ==
    ASSUME SelectInv, NEW part \in {"columns", "joins", "wheres", "groups"},
           NEW kind \in Kinds, NEW n \in Nat, NEW qualified \in BOOLEAN,
           kind \in {"where", "having", "column"} => (qualified <=> Qualified(query)),
           Add(part, kind, n, qualified)
    PROVE  SelectInv'
<1> DEFINE s == Statement(kind, Values(part, query[part], n), qualified)
<1>1. query \in Queries /\ query[part] \in Seq(Statements) /\ AliasTaken(query)
  BY DEF SelectInv, SelectVarsOK, Queries
<1>2. Values(part, query[part], n) \in Seq(QueryValue)
  <2>1. part \in Parts
    BY DEF Parts
  <2>2. Len(query[part]) \in Nat
    BY <1>1, LenProperties
  <2> QED
    BY <2>1, <2>2, ValuesType
<1>3. s \in Statements /\ s.kind = kind /\ s.qualified = qualified
  BY <1>2 DEF Statement, Statements
<1>4. /\ query' = [query EXCEPT ![part] = Append(@, s)]
      /\ out' = NoQuery /\ UNCHANGED <<copy, related>>
  BY DEF Add, OnQuery
<1> HIDE DEF s
<1>5. /\ Append(query[part], s) \in Seq(Statements)
      /\ query.alias \in {"own", "model"} /\ Named(query[part]) => Named(Append(query[part], s))
  BY <1>1, <1>3, AppendStatement DEF Qualified
<1>6. /\ query' \in Queries /\ query'[part] = Append(query[part], s)
      /\ \A f \in {"columns", "wheres", "relWheres", "alias", "relation"} \ {part} : query'[f] = query[f]
  BY <1>1, <1>4, <1>5 DEF Queries
<1>7. AliasTaken(query)'
  <2>1. CASE part = "columns"
    BY <1>1, <1>5, <1>6, <2>1 DEF AliasTaken
  <2>2. CASE part = "wheres"
    BY <1>1, <1>5, <1>6, <2>2 DEF AliasTaken
  <2>3. CASE part \in {"joins", "groups"}
    BY <1>1, <1>6, <2>3 DEF AliasTaken
  <2> QED
    BY <2>1, <2>2, <2>3
<1> QED
  BY <1>4, <1>6, <1>7 DEF SelectInv, SelectVarsOK, StatementFits

(* The other calls before a compilation.                                    *)
LEMMA BuildingKeepsSelect ==
    ASSUME SelectInv,
           \/ \E n \in 0..1 : WhereExist(n) \/ Populate(n)
           \/ \E part \in {"columns", "wheres", "joins", "groups"} : Clear(part)
           \/ Take \/ Skip \/ SetAlias \/ WithRecursive \/ Clone
    PROVE  SelectInv'
<1>0. query \in Queries /\ AliasTaken(query) /\ (copy # NoQuery => copy \in Queries)
      /\ related \in Seq(Statements)
  BY DEF SelectInv, SelectVarsOK
<1>1. << >> \in Seq(Statements) /\ Named(<< >>) /\ << >> \in Seq(QueryValue)
  BY DEF Named
<1>2. out' = NoQuery
  BY DEF WhereExist, Populate, Clear, Take, Skip, SetAlias, WithRecursive, Clone, OnQuery
<1>3. CASE \E n \in 0..1 : WhereExist(n)
  <2> PICK n \in 0..1 : WhereExist(n)
    BY <1>3
  <2> DEFINE s == Statement("exists", << >>, FALSE)
             c == Statement("where", Values("related", << >>, n), FALSE)
  <2>1. query' = [query EXCEPT !.wheres = Append(@, s)] /\ related' = <<c>> /\ UNCHANGED copy
    BY DEF WhereExist
  <2>2. s \in Statements /\ s.kind = "exists"
    BY <1>1 DEF Statement, Statements, Kinds
  <2>3. c \in Statements
    <3>1. "related" \in Parts /\ Len(<< >>) \in Nat /\ n \in Nat
      BY DEF Parts
    <3>2. Values("related", << >>, n) \in Seq(QueryValue)
      BY <3>1, ValuesType
    <3> QED
      BY <3>2 DEF Statement, Statements, Kinds
  <2> HIDE DEF s, c
  <2>4. query.wheres \in Seq(Statements)
    BY <1>0 DEF Queries
  <2>5. /\ Append(query.wheres, s) \in Seq(Statements)
        /\ Named(query.wheres) => Named(Append(query.wheres, s))
    BY <2>2, <2>4, AppendStatement
  <2>6. query' \in Queries /\ AliasTaken(query')
    BY <1>0, <2>1, <2>5 DEF Queries, AliasTaken
  <2>7. <<c>> \in Seq(Statements)
    BY <2>3
  <2> QED
    BY <1>0, <1>2, <2>1, <2>6, <2>7 DEF SelectInv, SelectVarsOK, StatementFits
<1>4. CASE \E n \in 0..1 : Populate(n)
  <2> PICK n \in 0..1 : Populate(n)
    BY <1>4
  <2> DEFINE c == Statement("where", Values("relation", << >>, n), TRUE)
  <2>1. query' = [query EXCEPT !.relation = "pending", !.relWheres = <<c>>] /\ UNCHANGED <<copy, related>>
    BY DEF Populate, OnQuery
  <2>2. c \in Statements /\ c.qualified
    <3>1. "relation" \in Parts /\ Len(<< >>) \in Nat /\ n \in Nat
      BY DEF Parts
    <3>2. Values("relation", << >>, n) \in Seq(QueryValue)
      BY <3>1, ValuesType
    <3> QED
      BY <3>2 DEF Statement, Statements, Kinds
  <2> HIDE DEF c
  <2>3. <<c>> \in Seq(Statements) /\ Named(<<c>>)
    BY <2>2 DEF Named
  <2>4. query' \in Queries /\ AliasTaken(query')
    BY <1>0, <2>1, <2>3 DEF Queries, AliasTaken
  <2> QED
    BY <1>0, <1>2, <2>1, <2>4 DEF SelectInv, SelectVarsOK, StatementFits
<1>5. CASE \E part \in {"columns", "wheres", "joins", "groups"} : Clear(part)
  <2> PICK part \in {"columns", "wheres", "joins", "groups"} : Clear(part)
    BY <1>5
  <2>1. query' = [query EXCEPT ![part] = << >>] /\ UNCHANGED <<copy, related>>
    BY DEF Clear, OnQuery
  <2>2. /\ query' \in Queries /\ query'[part] = << >>
        /\ \A f \in {"columns", "wheres", "relWheres", "alias", "relation"} \ {part} : query'[f] = query[f]
    BY <1>0, <1>1, <2>1 DEF Queries
  <2>3. AliasTaken(query')
    <3>1. CASE part = "columns"
      BY <1>0, <1>1, <2>2, <3>1 DEF AliasTaken
    <3>2. CASE part = "wheres"
      BY <1>0, <1>1, <2>2, <3>2 DEF AliasTaken
    <3>3. CASE part \in {"joins", "groups"}
      BY <1>0, <2>2, <3>3 DEF AliasTaken
    <3> QED
      BY <3>1, <3>2, <3>3
  <2> QED
    BY <1>0, <1>2, <2>1, <2>2, <2>3 DEF SelectInv, SelectVarsOK, StatementFits
<1>6. CASE Take \/ Skip
  <2>1. "limit" \in QueryValue /\ "offset" \in QueryValue
    BY DEF QueryValue
  <2>3. <<"limit">> \in Seq(QueryValue) /\ <<"offset">> \in Seq(QueryValue)
    BY <2>1
  <2>2. query' \in Queries /\ AliasTaken(query') /\ UNCHANGED <<copy, related>>
    BY <1>0, <1>6, <2>3 DEF Take, Skip, OnQuery, Queries, AliasTaken
  <2> QED
    BY <1>0, <1>2, <2>2 DEF SelectInv, SelectVarsOK, StatementFits
<1>7. CASE SetAlias
  <2>1. query' = WithAlias(query, "own") /\ UNCHANGED <<copy, related>>
    BY <1>7 DEF SetAlias, OnQuery
  <2>2. query' \in Queries /\ AliasTaken(query')
    BY <1>0, <2>1, AliasNames DEF AliasTaken
  <2> QED
    BY <1>0, <1>2, <2>1, <2>2 DEF SelectInv, SelectVarsOK, StatementFits
<1>8. CASE Clone
  <2>1. copy' = Cloned(query) /\ UNCHANGED <<query, related>>
    BY <1>8 DEF Clone
  <2>2. copy' \in Queries
    BY <1>0, <2>1, ClonedType
  <2> QED
    BY <1>0, <1>2, <2>1, <2>2 DEF SelectInv, SelectVarsOK, StatementFits
<1>9. CASE WithRecursive
  <2>1. query' \in Queries /\ AliasTaken(query') /\ UNCHANGED <<copy, related>>
    BY <1>0, <1>9 DEF WithRecursive, OnQuery, Queries, AliasTaken
  <2> QED
    BY <1>0, <1>2, <2>1 DEF SelectInv, SelectVarsOK, StatementFits
<1> QED
  BY <1>3, <1>4, <1>5, <1>6, <1>7, <1>8, <1>9

(* Merging a relation gives the query an alias, which its parts take over.  *)
LEMMA MergedOK ==
    ASSUME query \in Queries, AliasTaken(query)
    PROVE  /\ Merged(query) \in Queries /\ AliasTaken(Merged(query))
           /\ Merged(query).relation # "pending"
<1>1. CASE query.relation # "pending"
  BY <1>1 DEF Merged
<1>2. CASE query.relation = "pending"
  <2> DEFINE a == IF query.alias = "" THEN WithAlias(query, "model") ELSE query
             j == Statement("table", << >>, TRUE)
             c == Statement("column", << >>, TRUE)
  <2>1. /\ a \in Queries /\ a.alias \notin {"", "recursive"} /\ Named(a.relWheres)
        /\ a.relWheres = query.relWheres
        /\ a.alias \in {"own", "model"} => Named(a.columns) /\ Named(a.wheres)
    BY AliasNames DEF AliasTaken, Queries
  <2>2. j \in Statements /\ c \in Statements /\ c.qualified
    BY DEF Statement, Statements, Kinds
  <2>3. Merged(query) = [a EXCEPT !.relation = "merged", !.joins = Append(@, j),
                            !.columns = Append(@, c), !.wheres = @ \o query.relWheres]
    BY <1>2, Zenon DEF Merged, Joined
  <2> HIDE DEF a, j, c
  <2>4. Append(a.joins, j) \in Seq(Statements)
    BY <2>1, <2>2, AppendStatement DEF Queries
  <2>5. Append(a.columns, c) \in Seq(Statements) /\ (Named(a.columns) => Named(Append(a.columns, c)))
    BY <2>1, <2>2, AppendStatement DEF Queries
  <2>6. /\ a.wheres \o query.relWheres \in Seq(Statements)
        /\ Named(a.wheres) => Named(a.wheres \o query.relWheres)
    <3> DEFINE w == a.wheres
               r == query.relWheres
    <3>1. w \in Seq(Statements) /\ r \in Seq(Statements) /\ Named(r)
      BY <2>1 DEF Queries
    <3> HIDE DEF w, r
    <3>2. /\ Len(w \o r) = Len(w) + Len(r) /\ w \o r \in Seq(Statements)
          /\ \A i \in 1..(Len(w) + Len(r)) :
                (w \o r)[i] = IF i <= Len(w) THEN w[i] ELSE r[i - Len(w)]
      BY <3>1, ConcatProperties
    <3>3. /\ Len(w) \in Nat /\ Len(r) \in Nat /\ DOMAIN w = 1..Len(w) /\ DOMAIN r = 1..Len(r)
          /\ DOMAIN (w \o r) = 1..(Len(w) + Len(r))
      BY <3>1, <3>2, LenProperties
    <3>4. ASSUME Named(w), NEW i \in 1..(Len(w) + Len(r)),
                 (w \o r)[i].kind \in {"where", "having", "column"}
          PROVE  (w \o r)[i].qualified
      <4>1. CASE i <= Len(w)
        BY <3>2, <3>3, <3>4, <4>1 DEF Named
      <4>2. CASE ~(i <= Len(w))
        <5>1. i - Len(w) \in 1..Len(r) /\ (w \o r)[i] = r[i - Len(w)]
          BY <3>2, <3>3, <4>2
        <5> QED
          BY <3>1, <3>3, <3>4, <5>1 DEF Named
      <4> QED
        BY <4>1, <4>2
    <3>5. Named(w) => Named(w \o r)
      BY <3>3, <3>4 DEF Named
    <3> QED
      BY <3>2, <3>5 DEF w, r
  <2>7. /\ Merged(query) \in Queries
        /\ Merged(query).columns = Append(a.columns, c)
        /\ Merged(query).wheres = a.wheres \o query.relWheres
        /\ Merged(query).relWheres = a.relWheres
        /\ Merged(query).alias = a.alias /\ Merged(query).relation = "merged"
    <3> DEFINE jj == Append(a.joins, j)
               cc == Append(a.columns, c)
               ww == a.wheres \o query.relWheres
    <3>1. jj \in Seq(Statements) /\ cc \in Seq(Statements) /\ ww \in Seq(Statements)
      BY <2>4, <2>5, <2>6
    <3>2. Merged(query) = [a EXCEPT !.relation = "merged", !.joins = jj, !.columns = cc, !.wheres = ww]
      BY <2>3
    <3> HIDE DEF jj, cc, ww
    <3>3. /\ Merged(query).columns = cc /\ Merged(query).wheres = ww
          /\ Merged(query).relWheres = a.relWheres /\ Merged(query).alias = a.alias
          /\ Merged(query).relation = "merged"
      BY <2>1, <3>2 DEF Queries
    <3>4. [a EXCEPT !.relation = "merged"] \in Queries
      BY <2>1 DEF Queries
    <3>5. \A q \in Queries : [q EXCEPT !.joins = jj, !.columns = cc, !.wheres = ww] \in Queries
      BY <3>1 DEF Queries
    <3>6. Merged(query) = [[a EXCEPT !.relation = "merged"] EXCEPT !.joins = jj, !.columns = cc, !.wheres = ww]
      BY <3>2
    <3> QED
      BY <3>3, <3>4, <3>5, <3>6 DEF cc, ww
  <2>8. Merged(query).alias \notin {"", "recursive"} /\ Named(Merged(query).relWheres)
    BY <2>1, <2>7
  <2>9. Merged(query).alias \in {"own", "model"} =>
           Named(Merged(query).columns) /\ Named(Merged(query).wheres)
    BY <2>1, <2>5, <2>6, <2>7
  <2> QED
    BY <2>7, <2>8, <2>9 DEF AliasTaken
<1> QED
  BY <1>1, <1>2

(* The condition that names the outer row, which a compilation adds.        *)
LEMMA OuterCondition ==
    ASSUME related \in Seq(Statements)
    PROVE  Append(related, Statement("raw", << >>, TRUE)) \in Seq(Statements)
<1>1. Statement("raw", << >>, TRUE) \in Statements
  BY DEF Statement, Statements, Kinds
<1> QED
  BY <1>1, AppendStatement

(* What is compiled of a query fits, but for the alias EXISTS names.        *)
OutputOK(o, q, of, outer) ==
    /\ o.of = of /\ o.from = q.alias /\ o.outer = outer
    /\ Bindings(o.columns) = << >> /\ Bindings(o.groups) = << >> => o.marks = o.binds
    /\ q.relation = "merged" /\ q.alias # "exists" =>
         \A part \in {o.columns, o.where} : \A i \in DOMAIN part :
            part[i].kind \in {"where", "column"} => part[i].qualified

LEMMA OutputFits ==
    ASSUME NEW q \in Queries, NEW conditions \in Seq(Statements), AliasTaken(q), NEW of, NEW outer
    PROVE  OutputOK(Output(of, q, q.alias, conditions, outer), q, of, outer)
<1> DEFINE o == Output(of, q, q.alias, conditions, outer)
<1>1. /\ o.of = of /\ o.from = q.alias /\ o.outer = outer
      /\ o.marks = Marks(q, conditions) /\ o.binds = Bound(q, conditions)
      /\ o.columns = q.columns /\ o.groups = q.groups
      /\ o.where = WhereOf(q, conditions)
  BY DEF Output
<1> HIDE DEF o
<1>2. Bindings(q.columns) = << >> /\ Bindings(q.groups) = << >> => o.marks = o.binds
  BY <1>1, MarksAreBound
<1>3. q.relation = "merged" /\ q.alias \notin {"exists", "recursive"} =>
         Named(q.columns) /\ Named(WhereOf(q, conditions))
  BY WhereType DEF AliasTaken, Queries
<1>4. \A stmts : Named(stmts) => \A i \in DOMAIN stmts : stmts[i].kind \in {"where", "column"} => stmts[i].qualified
  BY DEF Named
<1>5. q.alias # "recursive"
  BY DEF AliasTaken
<1>6. OutputOK(o, q, of, outer)
  BY <1>1, <1>2, <1>3, <1>4, <1>5 DEF OutputOK
<1> QED
  BY <1>6 DEF o

(* The placeholders of a recursion are those of its two statements.         *)
LEMMA RecursionFits ==
    ASSUME NEW q \in Queries, NEW conditions \in Seq(Statements), NEW from, NEW outer,
           NEW o, o = Recursion(q, from, conditions, outer)
    PROVE  o.of = "recursion" /\ (Bindings(o.columns) = << >> => o.marks = o.binds)
<1> DEFINE first == [Cloned(q) EXCEPT !.joins = << >>]
           bare == [Cloned(q) EXCEPT !.wheres = << >>]
           again == WithAlias(bare, "recursive")
           O == Output("recursion", first, from, conditions, outer)
<1>0. << >> \in Seq(Statements)
  OBVIOUS
<1>1. Cloned(q) \in Queries /\ Cloned(q).groups = << >>
  BY ClonedType
<1>2. /\ first \in Queries /\ first.groups = << >> /\ first.columns = Cloned(q).columns
      /\ bare \in Queries /\ bare.groups = << >> /\ bare.columns = Cloned(q).columns
  BY <1>0, <1>1 DEF Queries
<1>3. o = [O EXCEPT !.marks = @ \o Marks(again, conditions),
                    !.binds = @ \o Bound(again, conditions), !.joins = again.joins]
  BY Zenon DEF Recursion
<1> HIDE DEF first, bare
<1>4. again \in Queries /\ again.groups = << >> /\ Bindings(again.columns) = Bindings(bare.columns)
  BY <1>2, AliasNames
<1> HIDE DEF again
<1>5. /\ O.of = "recursion" /\ O.columns = first.columns /\ O.marks = Marks(first, conditions)
      /\ O.binds = Bound(first, conditions)
      /\ DOMAIN O = {"of", "from", "outer", "marks", "binds", "columns", "joins", "where", "groups", "having"}
  BY DEF Output
<1> HIDE DEF O
<1>6. /\ o.of = "recursion" /\ o.columns = first.columns
      /\ o.marks = Marks(first, conditions) \o Marks(again, conditions)
      /\ o.binds = Bound(first, conditions) \o Bound(again, conditions)
  BY <1>3, <1>5
<1>7. Bindings(first.columns) = << >> =>
        Marks(first, conditions) = Bound(first, conditions) /\ Marks(again, conditions) = Bound(again, conditions)
  BY <1>2, <1>4, BindingsNone, MarksAreBound
<1> QED
  BY <1>6, <1>7

(* A recursion is joined once more; nothing else of the query changes.      *)
LEMMA JoinedAgainType ==
    ASSUME NEW q \in Queries
    PROVE  /\ JoinedAgain(q) \in Queries
           /\ \A f \in {"columns", "wheres", "groups", "limit", "offset", "alias", "relation",
                        "relWheres", "recursive"} : JoinedAgain(q)[f] = q[f]
           /\ q.recursive => JoinedAgain(q).joins = Append(q.joins, Statement("table", << >>, TRUE))
           /\ AliasTaken(q) => AliasTaken(JoinedAgain(q))
<1> DEFINE j == Statement("table", << >>, TRUE)
<1>1. j \in Statements
  BY DEF Statement, Statements, Kinds
<1>2. Append(q.joins, j) \in Seq(Statements)
  BY <1>1, AppendStatement DEF Queries
<1>3. JoinedAgain(q) = IF q.recursive THEN [q EXCEPT !.joins = Append(q.joins, j)] ELSE q
  BY DEF JoinedAgain
<1> HIDE DEF j
<1>4. /\ JoinedAgain(q) \in Queries
      /\ \A f \in {"columns", "wheres", "groups", "limit", "offset", "alias", "relation",
                   "relWheres", "recursive"} : JoinedAgain(q)[f] = q[f]
      /\ q.recursive => JoinedAgain(q).joins = Append(q.joins, j)
  BY <1>2, <1>3 DEF Queries
<1> QED
  BY <1>4 DEF AliasTaken, j

(* The query is compiled.                                                   *)
LEMMA ToDBFits ==
    ASSUME SelectInv, ToDB
    PROVE  SelectInv'
<1> DEFINE m == Merged(query)
           aliased == IF HasExists(m) /\ m.alias = "" THEN [m EXCEPT !.alias = "exists"] ELSE m
           conditions == IF HasExists(m) THEN Append(related, Statement("raw", << >>, TRUE)) ELSE related
           outer == IF HasExists(m) THEN aliased.alias ELSE ""
<1>1. m \in Queries /\ AliasTaken(m)
  BY MergedOK DEF SelectInv, SelectVarsOK
<1>2. /\ query' = JoinedAgain(aliased) /\ related' = conditions /\ UNCHANGED copy
      /\ m.recursive => out' = Recursion(query', m.alias, conditions, outer)
      /\ ~m.recursive => out' = Output("query", aliased, FromAlias(m.alias, aliased.alias), conditions, outer)
  BY Zenon DEF ToDB
<1>3. conditions \in Seq(Statements)
  BY OuterCondition DEF SelectInv, SelectVarsOK
<1> HIDE DEF m
<1>4. aliased \in Queries /\ AliasTaken(aliased) /\ aliased.recursive = m.recursive
  BY <1>1 DEF AliasTaken, Queries
<1>5. outer # "" => outer = aliased.alias
  OBVIOUS
<1> HIDE DEF aliased, conditions, outer
<1>6. query' \in Queries /\ AliasTaken(query') /\ (~m.recursive => query' = aliased)
  BY <1>2, <1>4, JoinedAgainType DEF JoinedAgain
<1>7. CASE m.recursive
  <2>1. out'.of = "recursion" /\ (Bindings(out'.columns) = << >> => out'.marks = out'.binds)
    BY <1>2, <1>3, <1>6, <1>7, RecursionFits
  <2>2. StatementFits'
    BY <2>1 DEF StatementFits
  <2> QED
    BY <1>2, <1>3, <1>6, <2>2 DEF SelectInv, SelectVarsOK
<1>8. CASE ~m.recursive
  <2>1. out' = Output("query", aliased, aliased.alias, conditions, outer) /\ query' = aliased
    BY <1>2, <1>6, <1>8 DEF FromAlias
  <2>2. OutputOK(out', aliased, "query", outer)
    BY <1>3, <1>4, <2>1, OutputFits, Zenon
  <2>3. StatementFits'
    BY <1>5, <2>1, <2>2 DEF StatementFits, OutputOK
  <2> QED
    BY <1>2, <1>3, <1>6, <2>3 DEF SelectInv, SelectVarsOK
<1> QED
  BY <1>7, <1>8

(* Its clone is compiled.                                                   *)
LEMMA CopyToDBFits ==
    ASSUME SelectInv, CopyToDB
    PROVE  SelectInv'
<1> DEFINE aliased == IF HasExists(copy) /\ query.alias = "" THEN [query EXCEPT !.alias = "exists"] ELSE query
           conditions == IF HasExists(copy) THEN Append(related, Statement("raw", << >>, TRUE)) ELSE related
           outer == IF HasExists(copy) THEN aliased.alias ELSE ""
<1>1. copy \in Queries /\ query \in Queries /\ AliasTaken(query)
  BY DEF CopyToDB, SelectInv, SelectVarsOK
<1>2. /\ query' = aliased /\ related' = conditions /\ UNCHANGED copy
      /\ out' = Output("copy", copy, copy.alias, conditions, outer)
  BY Zenon DEF CopyToDB
<1>3. conditions \in Seq(Statements)
  BY OuterCondition DEF SelectInv, SelectVarsOK
<1>4. aliased \in Queries /\ AliasTaken(aliased)
  BY <1>1 DEF AliasTaken, Queries
<1> HIDE DEF aliased, conditions, outer
<1>5. /\ out'.of = "copy"
      /\ out'.marks = Marks(copy, conditions) /\ out'.binds = Bound(copy, conditions)
      /\ out'.columns = copy.columns /\ out'.groups = copy.groups
  BY <1>2 DEF Output
<1>6. Bindings(copy.columns) = << >> /\ Bindings(copy.groups) = << >> => out'.marks = out'.binds
  BY <1>1, <1>3, <1>5, MarksAreBound
<1>7. StatementFits'
  BY <1>5, <1>6 DEF StatementFits
<1> QED
  BY <1>1, <1>2, <1>3, <1>4, <1>7 DEF SelectInv, SelectVarsOK

(* Every step keeps it.                                                     *)
LEMMA SelectInvNext == SelectInv /\ [SelectNext]_selectVars => SelectInv'
<1> SUFFICES ASSUME SelectInv, [SelectNext]_selectVars
             PROVE  SelectInv'
  OBVIOUS
<1>1. ASSUME NEW kind \in {"where", "having", "raw"}, NEW n \in 0..1, Where(kind, n)
      PROVE  SelectInv'
  <2>1. Add("wheres", kind, n, kind # "raw" /\ Qualified(query))
    BY <1>1 DEF Where
  <2>2. kind \in Kinds /\ n \in Nat
    BY DEF Kinds
  <2>3. (kind # "raw" /\ Qualified(query)) \in BOOLEAN
    BY Zenon
  <2>4. kind \in {"where", "having", "column"} => ((kind # "raw" /\ Qualified(query)) <=> Qualified(query))
    <3>1. kind \in {"where", "having", "column"} => kind # "raw"
      OBVIOUS
    <3> QED
      BY <3>1, Zenon
  <2> QED
    BY <2>1, <2>2, <2>3, <2>4, AddKeepsSelect
<1>2. ASSUME WhereNested PROVE SelectInv'
  <2>1. Add("wheres", "nested", 2, Qualified(query))
    BY <1>2 DEF WhereNested
  <2> QED
    BY <2>1, AddKeepsSelect DEF Kinds, Qualified
<1>8. ASSUME NEW kind \in {"raw", "table"}, Join(kind)
      PROVE  SelectInv'
  <2>1. /\ {"raw", "table"} \subseteq Kinds /\ 0 \in Nat /\ 1 \in Nat
        /\ "raw" \notin {"where", "having", "column"} /\ "table" \notin {"where", "having", "column"}
    BY DEF Kinds
  <2>2. Qualified(query) \in BOOLEAN
    BY Zenon DEF Qualified
  <2>3. CASE Add("joins", "raw", 1, FALSE)
    BY <2>1, <2>3, AddKeepsSelect
  <2>4. CASE Add("joins", "table", 0, Qualified(query))
    BY <2>1, <2>2, <2>4, AddKeepsSelect
  <2> QED
    BY <1>8, <2>3, <2>4 DEF Join
<1>3. ASSUME NEW n \in 0..1, GroupBy(n) \/ Select(n)
      PROVE  SelectInv'
  <2>0. n \in Nat /\ {"other", "column", "raw"} \subseteq Kinds
        /\ \A kind \in {"other", "raw"} : kind \notin {"where", "having", "column"}
    BY DEF Kinds
  <2>2. CASE GroupBy(n)
    <3>1. Add("groups", "other", n, FALSE)
      BY <2>2 DEF GroupBy
    <3> QED
      BY <2>0, <3>1, AddKeepsSelect
  <2>3. CASE Select(n)
    <3>1. CASE n = 0
      <4>1. /\ Add("columns", IF n = 0 THEN "column" ELSE "raw", n, n = 0 /\ Qualified(query))
            /\ (n = 0 /\ Qualified(query)) = Qualified(query) /\ Qualified(query) \in BOOLEAN
        BY <2>3, <3>1, Zenon DEF Select, Qualified
      <4>2. Add("columns", "column", n, Qualified(query))
        BY <3>1, <4>1, Zenon
      <4> QED
        BY <2>0, <4>1, <4>2, AddKeepsSelect
    <3>2. CASE n = 1
      <4>1. Add("columns", IF n = 0 THEN "column" ELSE "raw", n, n = 0 /\ Qualified(query))
        BY <2>3, Zenon DEF Select
      <4>2. n # 0 /\ (n = 0 /\ Qualified(query)) = FALSE /\ (IF n = 0 THEN "column" ELSE "raw") = "raw"
        BY <3>2
      <4>3. Add("columns", "raw", n, FALSE)
        BY <4>1, <4>2, Zenon
      <4> QED
        BY <2>0, <4>3, AddKeepsSelect
    <3> QED
      BY <3>1, <3>2
  <2> QED
    BY <1>3, <2>2, <2>3
<1>4. CASE UNCHANGED selectVars
  BY <1>4 DEF selectVars, SelectInv, SelectVarsOK, AliasTaken, StatementFits
<1>5. CASE \/ \E n \in 0..1 : WhereExist(n) \/ Populate(n)
           \/ \E part \in {"columns", "wheres", "joins", "groups"} : Clear(part)
           \/ Take \/ Skip \/ SetAlias \/ WithRecursive \/ Clone
  BY <1>5, BuildingKeepsSelect
<1>6. CASE ToDB
  BY <1>6, ToDBFits
<1>7. CASE CopyToDB
  BY <1>7, CopyToDBFits
<1>9. CASE ToDBThrows
  <2>1. query' = Merged(query) /\ out' = NoQuery /\ UNCHANGED <<copy, related>>
    BY <1>9 DEF ToDBThrows, OnQuery
  <2> QED
    BY <2>1, MergedOK DEF SelectInv, SelectVarsOK, StatementFits
<1> QED
  BY <1>1, <1>2, <1>3, <1>4, <1>5, <1>6, <1>7, <1>8, <1>9 DEF SelectNext

(* What a select is compiled to fits together, however the methods of the   *)
(* builder, of its clone and of its relations were called before.           *)
THEOREM CompiledFits == SelectSpec => []StatementFits
<1>1. SelectInv => StatementFits
  BY DEF SelectInv
<1> QED
  BY SelectInvInit, SelectInvNext, <1>1, PTL DEF SelectSpec

(* What was returned for the query, when that has no EXISTS on a relation,  *)
(* is what compiling it as it now is gives: its relation is merged already, *)
(* and its recursion joined once more.                                      *)
OutIsTheQuery ==
    out # NoQuery /\ out.of # "copy" /\ ~HasExists(query) =>
       /\ query.relation # "pending"
       /\ out = IF query.recursive THEN Recursion(query, query.alias, related, "")
                                   ELSE Output("query", query, query.alias, related, "")

(* Every step of the query keeps it.                                        *)
LEMMA OutNext == SelectInv /\ OutIsTheQuery /\ [SelectNext]_selectVars => OutIsTheQuery'
<1> SUFFICES ASSUME SelectInv, OutIsTheQuery, [SelectNext]_selectVars
             PROVE  OutIsTheQuery'
  OBVIOUS
<1>1. CASE UNCHANGED selectVars
  BY <1>1 DEF selectVars, OutIsTheQuery, HasExists
<1>2. CASE out' = NoQuery
  BY <1>2 DEF OutIsTheQuery
<1>3. ASSUME ToDB PROVE OutIsTheQuery'
  <2> DEFINE m == Merged(query)
             aliased == IF HasExists(m) /\ m.alias = "" THEN [m EXCEPT !.alias = "exists"] ELSE m
  <2>1. m \in Queries /\ m.relation # "pending"
    BY MergedOK DEF SelectInv, SelectVarsOK
  <2>2. query' = JoinedAgain(aliased)
    BY <1>3, Zenon DEF ToDB
  <2> HIDE DEF m
  <2>3. aliased \in Queries /\ aliased.wheres = m.wheres
    BY <2>1 DEF Queries
  <2> HIDE DEF aliased
  <2>4. query'.wheres = m.wheres
    BY <2>2, <2>3, JoinedAgainType
  <2>5. HasExists(query') = HasExists(m)
    BY <2>4 DEF HasExists
  <2>6. CASE HasExists(m)
    BY <2>5, <2>6 DEF OutIsTheQuery, HasExists
  <2>7. CASE ~HasExists(m)
    <3>1. /\ query' = JoinedAgain(m) /\ related' = related
          /\ m.recursive => out' = Recursion(query', m.alias, related, "")
          /\ ~m.recursive => out' = Output("query", m, m.alias, related, "")
      BY <1>3, <2>7, Zenon DEF ToDB, FromAlias, m
    <3>2. /\ query'.relation = m.relation /\ query'.recursive = m.recursive /\ query'.alias = m.alias
          /\ ~m.recursive => query' = m
      BY <2>1, <3>1, JoinedAgainType DEF JoinedAgain
    <3> QED
      BY <2>1, <3>1, <3>2 DEF OutIsTheQuery
  <2> QED
    BY <2>6, <2>7
<1>4. ASSUME CopyToDB PROVE OutIsTheQuery'
  <2>1. out'.of = "copy"
    BY <1>4 DEF CopyToDB, Output
  <2> QED
    BY <2>1 DEF OutIsTheQuery
<1>5. ASSUME SelectNext, ~ToDB, ~CopyToDB
      PROVE  out' = NoQuery
  BY <1>5 DEF SelectNext, Where, WhereNested, WhereExist, Join, Select, GroupBy, Take, Skip,
     Clear, SetAlias, WithRecursive, Populate, Clone, ToDBThrows, Add, OnQuery
<1> QED
  BY <1>1, <1>2, <1>3, <1>4, <1>5

(* Queries with the same parts are the same.                                *)
LEMMA SameQuery ==
    ASSUME NEW p \in Queries, NEW q \in Queries,
           \A f \in {"columns", "joins", "wheres", "groups", "limit", "offset", "alias",
                     "relation", "relWheres", "recursive"} : p[f] = q[f]
    PROVE  p = q
<1>1. /\ p.columns = q.columns /\ p.joins = q.joins /\ p.wheres = q.wheres /\ p.groups = q.groups
      /\ p.limit = q.limit /\ p.offset = q.offset /\ p.alias = q.alias
      /\ p.relation = q.relation /\ p.relWheres = q.relWheres /\ p.recursive = q.recursive
  OBVIOUS
<1>2. ASSUME NEW r \in Queries
      PROVE  r = [columns |-> r.columns, joins |-> r.joins, wheres |-> r.wheres, groups |-> r.groups,
                  limit |-> r.limit, offset |-> r.offset, alias |-> r.alias, relation |-> r.relation,
                  relWheres |-> r.relWheres, recursive |-> r.recursive]
  BY DEF Queries
<1> QED
  BY <1>1, <1>2

(* The clone of a recursion joined once more has one more misnamed join.    *)
LEMMA ClonedAgain ==
    ASSUME NEW q \in Queries, q.recursive
    PROVE  Cloned(JoinedAgain(q)) = [Cloned(q) EXCEPT !.joins = Append(@, Misnamed)]
<1> DEFINE g == JoinedAgain(q)
           c == Cloned(q)
           d == Cloned(g)
           n == Len(q.joins)
<1>1. /\ g \in Queries /\ g.joins = Append(q.joins, Statement("table", << >>, TRUE))
      /\ \A f \in {"columns", "wheres", "limit", "offset", "alias"} : g[f] = q[f]
  BY JoinedAgainType
<1>2. /\ Misnamed \in Statements /\ c \in Queries
      /\ c.joins = [i \in DOMAIN q.joins |-> Misnamed]
      /\ \A f \in {"columns", "wheres", "limit", "offset", "alias"} : c[f] = q[f]
      /\ c.groups = << >> /\ c.relWheres = << >> /\ c.relation = "none" /\ c.recursive = FALSE
  BY ClonedType
<1> HIDE DEF g
<1>3. /\ d \in Queries
      /\ d.joins = [i \in DOMAIN g.joins |-> Misnamed]
      /\ \A f \in {"columns", "wheres", "limit", "offset", "alias"} : d[f] = g[f]
      /\ d.groups = << >> /\ d.relWheres = << >> /\ d.relation = "none" /\ d.recursive = FALSE
  BY <1>1, ClonedType
<1> HIDE DEF c, d
<1>4. d.joins = Append(c.joins, Misnamed)
  <2>0. q.joins \in Seq(Statements) /\ c.joins \in Seq(Statements)
    BY <1>2 DEF Queries
  <2>1. q.joins \in Seq(Statements) /\ Statement("table", << >>, TRUE) \in Statements /\ c.joins \in Seq(Statements)
    BY <2>0 DEF Statement, Statements, Kinds
  <2>2. n \in Nat /\ DOMAIN q.joins = 1..n /\ DOMAIN g.joins = 1..(n + 1)
    BY <1>1, <2>1, LenProperties, AppendProperties
  <2>3. DOMAIN c.joins = 1..n /\ Len(c.joins) = n
    BY <1>2, <2>1, <2>2, LenProperties
  <2>4. /\ Append(c.joins, Misnamed) \in Seq(Statements) /\ DOMAIN Append(c.joins, Misnamed) = 1..(n + 1)
        /\ \A i \in 1..(n + 1) : Append(c.joins, Misnamed)[i] = IF i = n + 1 THEN Misnamed ELSE c.joins[i]
    BY <1>2, <2>1, <2>2, <2>3, AppendProperties, LenProperties
  <2>5. \A i \in 1..(n + 1) : Append(c.joins, Misnamed)[i] = Misnamed
    BY <1>2, <2>2, <2>4
  <2>6. Append(c.joins, Misnamed) = [i \in 1..(n + 1) |-> Append(c.joins, Misnamed)[i]]
    BY <2>4
  <2>7. d.joins = [i \in 1..(n + 1) |-> Misnamed]
    BY <1>3, <2>2
  <2> QED
    BY <2>5, <2>6, <2>7, Zenon
<1> DEFINE e == [c EXCEPT !.joins = Append(@, Misnamed)]
<1>5. Append(c.joins, Misnamed) \in Seq(Statements)
  BY <1>2, AppendStatement DEF Queries
<1>6. /\ e \in Queries /\ e.joins = Append(c.joins, Misnamed)
      /\ \A f \in {"columns", "wheres", "limit", "offset", "alias", "groups", "relWheres",
                    "relation", "recursive"} : e[f] = c[f]
  BY <1>2, <1>5 DEF Queries
<1> HIDE DEF e
<1>7. d = e
  <2>1. /\ d.columns = e.columns /\ d.wheres = e.wheres /\ d.limit = e.limit /\ d.offset = e.offset
        /\ d.alias = e.alias /\ d.groups = e.groups /\ d.relWheres = e.relWheres
        /\ d.relation = e.relation /\ d.recursive = e.recursive /\ d.joins = e.joins
    <3>1. /\ d.columns = q.columns /\ d.wheres = q.wheres /\ d.limit = q.limit /\ d.offset = q.offset
          /\ d.alias = q.alias
      BY <1>1, <1>3
    <3>2. /\ c.columns = q.columns /\ c.wheres = q.wheres /\ c.limit = q.limit /\ c.offset = q.offset
          /\ c.alias = q.alias
      BY <1>2
    <3>3. /\ e.columns = c.columns /\ e.wheres = c.wheres /\ e.limit = c.limit /\ e.offset = c.offset
          /\ e.alias = c.alias /\ e.groups = c.groups /\ e.relWheres = c.relWheres
          /\ e.relation = c.relation /\ e.recursive = c.recursive
      BY <1>6
    <3> QED
      BY <1>2, <1>3, <1>4, <1>6, <3>1, <3>2, <3>3
  <2>2. \A f \in {"columns", "joins", "wheres", "groups", "limit", "offset", "alias",
                  "relation", "relWheres", "recursive"} : d[f] = e[f]
    BY <2>1
  <2> QED
    BY <1>3, <1>6, <2>2, SameQuery
<1> QED
  BY <1>7 DEF c, d, e, g

(* An alias is given to every part but the joins.                           *)
LEMMA AliasLeavesJoins ==
    ASSUME NEW q \in Queries, NEW joins \in Seq(Statements)
    PROVE  WithAlias([q EXCEPT !.joins = joins], "recursive")
             = [WithAlias(q, "recursive") EXCEPT !.joins = joins]
<1> DEFINE R(stmts) == [i \in DOMAIN stmts |->
             [stmts[i] EXCEPT !.qualified = stmts[i].kind \in {"where", "having", "column"} \/ @]]
           p == [q EXCEPT !.joins = joins]
<1>1. p \in Queries /\ p.columns = q.columns /\ p.wheres = q.wheres
  BY DEF Queries
<1>2. /\ WithAlias(q, "recursive") = [q EXCEPT !.alias = "recursive", !.columns = R(q.columns), !.wheres = R(q.wheres)]
      /\ WithAlias(p, "recursive") = [p EXCEPT !.alias = "recursive", !.columns = R(q.columns), !.wheres = R(q.wheres)]
  BY <1>1 DEF WithAlias, Queries
<1> HIDE DEF R
<1> DEFINE cs == R(q.columns)
           ws == R(q.wheres)
<1> HIDE DEF cs, ws
<1>3. [p EXCEPT !.alias = "recursive", !.columns = cs, !.wheres = ws]
        = [[q EXCEPT !.alias = "recursive", !.columns = cs, !.wheres = ws] EXCEPT !.joins = joins]
  BY DEF Queries
<1> QED
  BY <1>2, <1>3 DEF cs, ws

(* A recursion joined once more compiles to the same, with one more join.   *)
RecursionGrown(q, from, conditions, outer) ==
    Recursion(JoinedAgain(q), from, conditions, outer)
      = [Recursion(q, from, conditions, outer) EXCEPT !.joins = Append(@, Misnamed)]

LEMMA RecursionGrows ==
    ASSUME NEW q \in Queries, q.recursive, NEW conditions \in Seq(Statements), NEW from, NEW outer
    PROVE  RecursionGrown(q, from, conditions, outer)
<1> DEFINE g == JoinedAgain(q)
           c == Cloned(q)
           d == Cloned(g)
           more == Append(c.joins, Misnamed)
           bare == [c EXCEPT !.wheres = << >>]
           bareG == [d EXCEPT !.wheres = << >>]
           a == WithAlias(bare, "recursive")
           b == WithAlias(bareG, "recursive")
           first == [c EXCEPT !.joins = << >>]
           O == Output("recursion", first, from, conditions, outer)
<1>1. Misnamed \in Statements /\ Misnamed.values = << >> /\ c \in Queries
  BY ClonedType
<1>2. d = [c EXCEPT !.joins = more]
  BY ClonedAgain
<1> HIDE DEF c, d, g
<1>3. c.joins \in Seq(Statements) /\ more \in Seq(Statements) /\ << >> \in Seq(Statements)
  <2>1. c.joins \in Seq(Statements)
    BY <1>1 DEF Queries
  <2>2. more \in Seq(Statements)
    BY <1>1, <2>1, AppendStatement
  <2> QED
    BY <2>1, <2>2
<1> HIDE DEF more
<1>4. [d EXCEPT !.joins = << >>] = first
  BY <1>1, <1>2 DEF Queries
<1>5. bare \in Queries /\ bare.joins = c.joins
  BY <1>1, <1>3 DEF Queries
<1>6. bareG = [bare EXCEPT !.joins = more]
  BY <1>1, <1>2 DEF Queries
<1> HIDE DEF bare, bareG, first
<1>7. b = [a EXCEPT !.joins = more]
  BY <1>3, <1>5, <1>6, AliasLeavesJoins
<1>8. a \in Queries /\ a.joins = c.joins
  BY <1>5, AliasNames
<1> HIDE DEF a, b
<1>9. /\ b.joins = more /\ b.columns = a.columns /\ b.wheres = a.wheres
      /\ b.groups = a.groups /\ b.limit = a.limit /\ b.offset = a.offset
  BY <1>7, <1>8 DEF Queries
<1>10. Bindings(more) = Bindings(c.joins)
  BY <1>1, <1>3, BindingsOfOneMore DEF more
<1>11. Marks(b, conditions) = Marks(a, conditions) /\ Bound(b, conditions) = Bound(a, conditions)
  <2>1. Bindings(b.joins) = Bindings(a.joins)
    BY <1>8, <1>9, <1>10
  <2> QED
    BY <1>9, <2>1, Zenon DEF Marks, Bound, WhereOf, HavingOf, LimitOf
<1> DEFINE ms == O.marks \o Marks(a, conditions)
           bs == O.binds \o Bound(a, conditions)
<1>12. Recursion(q, from, conditions, outer)
         = [O EXCEPT !.marks = O.marks \o Marks(a, conditions), !.binds = O.binds \o Bound(a, conditions),
                     !.joins = a.joins]
  BY Zenon DEF Recursion, a, bare, first, c
<1>13. Recursion(g, from, conditions, outer)
         = [O EXCEPT !.marks = O.marks \o Marks(b, conditions), !.binds = O.binds \o Bound(b, conditions),
                     !.joins = b.joins]
  BY <1>4, Zenon DEF Recursion, b, bareG, d
<1>14. "joins" \in DOMAIN O
  BY DEF Output
<1> HIDE DEF O
<1>15. /\ Recursion(q, from, conditions, outer) = [O EXCEPT !.marks = ms, !.binds = bs, !.joins = c.joins]
       /\ Recursion(g, from, conditions, outer) = [O EXCEPT !.marks = ms, !.binds = bs, !.joins = more]
  BY <1>8, <1>9, <1>11, <1>12, <1>13, Zenon
<1> HIDE DEF ms, bs
<1>16. [O EXCEPT !.marks = ms, !.binds = bs, !.joins = more]
         = [[O EXCEPT !.marks = ms, !.binds = bs, !.joins = c.joins] EXCEPT !.joins = Append(@, Misnamed)]
  BY <1>14 DEF more
<1> QED
  BY <1>15, <1>16, Zenon DEF RecursionGrown, g

(* A query compiled again right after it was compiled gives the statement   *)
(* it gave, when it has no EXISTS on a relation, but for one more join of a *)
(* recursion: what else the first compilation did to the builder, the       *)
(* second does not do again.                                                *)
THEOREM CompiledTwiceTheSame == SelectSpec => RecompilesTheSame
<1> DEFINE Expected == IF query.recursive THEN [out EXCEPT !.joins = Append(@, Misnamed)] ELSE out
           Same == ToDB /\ out # NoQuery /\ ~HasExists(query) /\ out.of # "copy" => out' = Expected
<1>1. ASSUME SelectInv, OutIsTheQuery, ToDB, out # NoQuery, ~HasExists(query), out.of # "copy"
      PROVE  out' = Expected
  <2>1. /\ query.relation # "pending"
        /\ out = IF query.recursive THEN Recursion(query, query.alias, related, "")
                                    ELSE Output("query", query, query.alias, related, "")
    BY <1>1 DEF OutIsTheQuery
  <2>2. Merged(query) = query
    BY <2>1 DEF Merged
  <2>3. out' = IF query.recursive THEN Recursion(JoinedAgain(query), query.alias, related, "")
                                  ELSE Output("query", query, query.alias, related, "")
    BY <1>1, <2>2, Zenon DEF ToDB, FromAlias
  <2>4. query.recursive => out' = [out EXCEPT !.joins = Append(@, Misnamed)]
    <3> SUFFICES ASSUME query.recursive
                 PROVE  out' = [out EXCEPT !.joins = Append(@, Misnamed)]
      OBVIOUS
    <3>1. query \in Queries /\ related \in Seq(Statements)
      BY <1>1 DEF SelectInv, SelectVarsOK
    <3>2. /\ out = Recursion(query, query.alias, related, "")
          /\ out' = Recursion(JoinedAgain(query), query.alias, related, "")
      BY <2>1, <2>3
    <3>3. RecursionGrown(query, query.alias, related, "")
      BY <3>1, RecursionGrows
    <3> QED
      BY <3>2, <3>3, Zenon DEF RecursionGrown
  <2> QED
    BY <2>1, <2>3, <2>4
<1>2. SelectInv /\ OutIsTheQuery /\ [SelectNext]_selectVars => [Same]_selectVars
  BY <1>1
<1>3. SelectInit => OutIsTheQuery
  BY DEF SelectInit, OutIsTheQuery
<1> QED
  BY SelectInvInit, SelectInvNext, OutNext, <1>2, <1>3, PTL DEF SelectSpec, RecompilesTheSame
-----------------------------------------------------------------------------
(* OrmWrite.                                                                *)

(* A cell: what a row gives, or that it gives nothing, and whose it is.     *)
CellKinds == {"value", "null", "undefined"}
Cells == CellKinds \X Nat \X (WriteColumns \cup {NoColumn})

(* The builders of writes.                                                  *)
Writers == [kind : {"insert", "update", "delete"}, columns : Seq(WriteColumns),
            values : Seq(Seq(Cells)), given : Seq(DataRows), moved : BOOLEAN,
            ignore : BOOLEAN, replace : BOOLEAN, duplicate : BOOLEAN,
            updates : Seq(WriteColumns \cup {NoColumn}), sets : Seq(WriteColumns \X Nat),
            wheres : Nat, limit : BOOLEAN, offset : BOOLEAN]

(* What row i gives for the columns.                                        *)
RowCells(w, i) == [j \in DOMAIN w.columns |-> Cell(i, w.given[i], w.columns[j])]

(* Unless values() was called again with other columns, every row has the   *)
(* cells of the columns the builder has, each column once, and none of the  *)
(* columns it gives is missing.                                             *)
LaidOut(w) ==
    /\ Len(w.values) = Len(w.given)
    /\ ~w.moved =>
         /\ \A i \in DOMAIN w.given : w.values[i] = RowCells(w, i)
         /\ \A j, k \in DOMAIN w.columns : w.columns[j] = w.columns[k] => j = k
         /\ \A i \in DOMAIN w.given, c \in WriteColumns :
               w.given[i][c] # "undefined" => \E j \in DOMAIN w.columns : w.columns[j] = c

WriteVarsOK == engine \in {"sql", "sqlite", "mssql"} /\ inProgress \in Writers

WriteInv == WriteVarsOK /\ LaidOut(inProgress) /\ WriteFits

(* A cell has a value when the row gives one.                               *)
LEMMA CellType ==
    ASSUME NEW n \in Nat, NEW r \in DataRows, NEW c \in WriteColumns
    PROVE  /\ Cell(n, r, c) \in Cells
           /\ IsValue(Cell(n, r, c)) <=> r[c] = "value"
           /\ r[c] = "undefined" => Cell(n, r, c) = <<"undefined", 0, NoColumn>>
<1>1. r[c] \in CellKinds
  BY DEF DataRows, CellKinds
<1>2. CASE r[c] = "value"
  <2>1. Cell(n, r, c) = <<"value", n, c>>
    BY <1>2 DEF Cell
  <2> QED
    BY <1>2, <2>1 DEF Cells, CellKinds, IsValue
<1>3. CASE r[c] # "value"
  <2>1. Cell(n, r, c) = <<r[c], 0, NoColumn>>
    BY <1>3 DEF Cell
  <2> QED
    BY <1>1, <1>3, <2>1 DEF Cells, IsValue
<1> QED
  BY <1>2, <1>3

(* The places of a sequence, as a sequence.                                 *)
LEMMA PlacesSeq ==
    ASSUME NEW V, NEW s \in Seq(V)
    PROVE  LET ids == [j \in DOMAIN s |-> j]
           IN  /\ ids \in Seq(DOMAIN s) /\ DOMAIN ids = DOMAIN s /\ DOMAIN s = 1..Len(s)
               /\ Len(s) \in Nat
<1> DEFINE ids == [j \in DOMAIN s |-> j]
<1>1. Len(s) \in Nat /\ DOMAIN s = 1..Len(s)
  BY LenProperties
<1>2. ids \in [1..Len(s) -> DOMAIN s]
  BY <1>1, Zenon
<1> QED
  BY <1>1, <1>2, FunctionIsSeq

(* The places of s that are kept, in their order.                           *)
KeptPlaces(s, P) == Filtered([j \in DOMAIN s |-> j], P)

(* What is kept of a sequence: as many elements as there are places, each   *)
(* from one of those.                                                       *)
LEMMA KeepFacts ==
    ASSUME NEW V, NEW s \in Seq(V), NEW P \in SUBSET DOMAIN s
    PROVE  /\ DOMAIN Keep(s, P) = DOMAIN KeptPlaces(s, P)
           /\ \A k \in DOMAIN KeptPlaces(s, P) :
                 KeptPlaces(s, P)[k] \in DOMAIN s /\ Keep(s, P)[k] = s[KeptPlaces(s, P)[k]]
           /\ IsFiniteSet(P) /\ Len(Keep(s, P)) = Cardinality(P)
<1> DEFINE ids == [j \in DOMAIN s |-> j]
           kept == Filtered(ids, P)
           K == [k \in DOMAIN kept |-> s[kept[k]]]
<1>1. ids \in Seq(DOMAIN s) /\ DOMAIN ids = DOMAIN s
  BY PlacesSeq
<1>2. \A j \in DOMAIN s : ids[j] = j
  OBVIOUS
<1> HIDE DEF ids
<1>3. FilterOK(kept, ids, DOMAIN s, P)
  BY <1>1, FilteredFacts
<1>4. PlacesIn(ids, P) = P
  BY <1>1, <1>2 DEF PlacesIn
<1>5. kept \in Seq(DOMAIN s) /\ IsFiniteSet(P) /\ Len(kept) = Cardinality(P)
      /\ \A k \in DOMAIN kept : kept[k] \in P
  BY <1>3, <1>4 DEF FilterOK, TakenFrom
<1> HIDE DEF kept
<1>6. Len(kept) \in Nat /\ DOMAIN kept = 1..Len(kept) /\ \A k \in 1..Len(kept) : kept[k] \in DOMAIN s
  BY <1>5, LenProperties, ElementOfSeq
<1>7. \A j \in DOMAIN s : s[j] \in V
  BY LenProperties, ElementOfSeq
<1>8. K \in [1..Len(kept) -> V]
  BY <1>6, <1>7, Zenon
<1>9. K \in Seq(V) /\ Len(K) = Len(kept) /\ DOMAIN K = 1..Len(kept)
  BY <1>6, <1>8, FunctionIsSeq
<1>10. Keep(s, P) = K /\ KeptPlaces(s, P) = kept
  BY Zenon DEF Keep, KeptPlaces, kept, ids
<1>11. \A k \in DOMAIN kept : K[k] = s[kept[k]]
  OBVIOUS
<1> HIDE DEF K
<1> QED
  BY <1>5, <1>6, <1>9, <1>10, <1>11

(* The rows the builder holds, when it was not given other columns.         *)
LEMMA RowsLaidOut ==
    ASSUME NEW w \in Writers, LaidOut(w), ~w.moved, NEW i \in DOMAIN w.given
    PROVE  /\ i \in DOMAIN w.values /\ i \in Nat /\ w.given[i] \in DataRows
           /\ w.values[i] \in Seq(Cells) /\ w.columns \in Seq(WriteColumns)
           /\ DOMAIN w.values[i] = DOMAIN w.columns /\ Len(w.values[i]) = Len(w.columns)
           /\ Len(w.columns) \in Nat /\ DOMAIN w.columns = 1..Len(w.columns)
           /\ \A j \in DOMAIN w.columns :
                 /\ w.columns[j] \in WriteColumns
                 /\ w.values[i][j] = Cell(i, w.given[i], w.columns[j])
                 /\ IsValue(w.values[i][j]) <=> w.given[i][w.columns[j]] = "value"
<1>1. /\ w.columns \in Seq(WriteColumns) /\ w.values \in Seq(Seq(Cells)) /\ w.given \in Seq(DataRows)
      /\ w.values[i] = RowCells(w, i) /\ Len(w.values) = Len(w.given)
  BY DEF Writers, LaidOut
<1>2. /\ Len(w.given) \in Nat /\ DOMAIN w.given = 1..Len(w.given) /\ DOMAIN w.values = 1..Len(w.given)
      /\ Len(w.columns) \in Nat /\ DOMAIN w.columns = 1..Len(w.columns)
  BY <1>1, LenProperties
<1>3. /\ i \in Nat /\ w.given[i] \in DataRows /\ w.values[i] \in Seq(Cells)
      /\ \A j \in DOMAIN w.columns : w.columns[j] \in WriteColumns
  BY <1>1, <1>2, ElementOfSeq
<1>4. /\ DOMAIN w.values[i] = DOMAIN w.columns
      /\ \A j \in DOMAIN w.columns : w.values[i][j] = Cell(i, w.given[i], w.columns[j])
  BY <1>1 DEF RowCells
<1>5. Len(w.values[i]) = Len(w.columns)
  BY <1>2, <1>3, <1>4, LenProperties
<1> QED
  BY <1>1, <1>2, <1>3, <1>4, <1>5, CellType

(* A row that is written has the cells of the columns, or is longer than    *)
(* they are because another row has no key.                                 *)
LEMMA WrittenRowFits ==
    ASSUME NEW w \in Writers, LaidOut(w), ~w.moved, NEW i \in DOMAIN w.given
    PROVE  LET row == CellsOf(w, w.values[i])
               columns == ColumnsOf(w)
           IN  IF Len(row) = Len(columns)
                 THEN \A j \in DOMAIN columns : row[j] = Cell(i, w.given[i], columns[j])
                 ELSE KeysMixed(w)
<1> DEFINE r == w.values[i]
           C == {j \in DOMAIN w.columns : IsKey(w, j) =>
                        \A row \in Seqs!ToSet(w.values) : j <= Len(row) /\ IsValue(row[j])}
           R == {j \in DOMAIN r : IsKey(w, j) => IsValue(r[j])}
<1>1. /\ i \in DOMAIN w.values /\ r \in Seq(Cells) /\ w.columns \in Seq(WriteColumns)
      /\ DOMAIN r = DOMAIN w.columns /\ Len(r) = Len(w.columns)
      /\ \A j \in DOMAIN w.columns :
            /\ r[j] = Cell(i, w.given[i], w.columns[j])
            /\ IsValue(r[j]) <=> w.given[i][w.columns[j]] = "value"
  BY RowsLaidOut
<1>2. C \in SUBSET DOMAIN w.columns /\ R \in SUBSET DOMAIN r /\ C \subseteq R
  BY <1>1 DEF Seqs!ToSet
<1>3. ColumnsOf(w) = Keep(w.columns, C) /\ CellsOf(w, r) = Keep(r, R)
  BY Zenon DEF ColumnsOf, CellsOf
<1>4. /\ IsFiniteSet(R) /\ Len(CellsOf(w, r)) = Cardinality(R)
      /\ Len(ColumnsOf(w)) = Cardinality(C)
  <2> HIDE DEF C, R, r
  <2> QED
    BY <1>1, <1>2, <1>3, KeepFacts
<1>5. CASE Cardinality(R) = Cardinality(C)
  <2>1. C = R
    BY <1>2, <1>4, <1>5, FS_Subset
  <2>2. KeptPlaces(w.columns, C) = KeptPlaces(r, R)
    <3> HIDE DEF C, R, r
    <3> QED
      BY <1>1, <2>1, Zenon DEF KeptPlaces
  <2> HIDE DEF C, R, r
  <2>3. /\ DOMAIN Keep(w.columns, C) = DOMAIN KeptPlaces(w.columns, C)
        /\ \A k \in DOMAIN KeptPlaces(w.columns, C) :
              /\ KeptPlaces(w.columns, C)[k] \in DOMAIN w.columns
              /\ Keep(w.columns, C)[k] = w.columns[KeptPlaces(w.columns, C)[k]]
    BY <1>1, <1>2, KeepFacts
  <2>4. \A k \in DOMAIN KeptPlaces(w.columns, C) : Keep(r, R)[k] = r[KeptPlaces(w.columns, C)[k]]
    BY <1>1, <1>2, <2>2, KeepFacts
  <2>5. \A k \in DOMAIN ColumnsOf(w) : CellsOf(w, r)[k] = Cell(i, w.given[i], ColumnsOf(w)[k])
    BY <1>1, <1>3, <2>3, <2>4
  <2> QED
    BY <1>4, <1>5, <2>5 DEF r
<1>6. CASE Cardinality(R) # Cardinality(C)
  <2>1. PICK j \in R : j \notin C
    BY <1>2, <1>6
  <2>2. PICK row \in Seqs!ToSet(w.values) : ~(j <= Len(row) /\ IsValue(row[j]))
    BY <1>1, <2>1
  <2>3. IsKey(w, j) /\ IsValue(r[j]) /\ j \in DOMAIN w.columns
    BY <1>1, <2>1
  <2>4. PICK k \in DOMAIN w.values : row = w.values[k]
    BY <2>2 DEF Seqs!ToSet
  <2>5. k \in DOMAIN w.given
    BY <2>4, LenProperties DEF LaidOut, Writers
  <2>6. /\ Len(row) = Len(w.columns) /\ DOMAIN w.columns = 1..Len(w.columns)
        /\ IsValue(row[j]) <=> w.given[k][w.columns[j]] = "value"
    BY <2>3, <2>4, <2>5, RowsLaidOut
  <2>7. w.given[k][w.columns[j]] # "value" /\ w.given[i][w.columns[j]] = "value"
    BY <1>1, <2>2, <2>3, <2>6
  <2>8. KeysMixed(w)
    BY <2>3, <2>5, <2>7 DEF IsKey, KeysMixed, Seqs!ToSet
  <2> QED
    BY <1>4, <1>6, <2>8
<1> QED
  BY <1>5, <1>6

(* The value of a column in the first row is where the columns say.         *)
LEMMA FirstFits ==
    ASSUME NEW w \in Writers, LaidOut(w), ~w.moved, w.values # << >>, NEW c \in WriteColumns
    PROVE  FirstGiven(w, c) = FirstBound(w, c)
<1> DEFINE js == {j \in DOMAIN w.columns : w.columns[j] = c /\ j <= Len(w.values[1])}
<1>1. 1 \in DOMAIN w.given
  <2>1. w.values \in Seq(Seq(Cells)) /\ w.given \in Seq(DataRows) /\ Len(w.values) = Len(w.given)
    BY DEF Writers, LaidOut
  <2>2. Len(w.values) \in Nat /\ Len(w.values) # 0
    BY <2>1, EmptySeq
  <2> QED
    BY <2>1, <2>2, LenProperties
<1>2. /\ w.given[1] \in DataRows /\ Len(w.values[1]) = Len(w.columns)
      /\ Len(w.columns) \in Nat /\ DOMAIN w.columns = 1..Len(w.columns)
      /\ \A j \in DOMAIN w.columns : w.values[1][j] = Cell(1, w.given[1], w.columns[j])
  BY <1>1, RowsLaidOut
<1>3. js = {j \in DOMAIN w.columns : w.columns[j] = c}
  BY <1>2
<1>4. FirstBound(w, c) = IF js = {} THEN <<"undefined", 0, NoColumn>> ELSE w.values[1][CHOOSE j \in js : TRUE]
  BY Zenon DEF FirstBound
<1> HIDE DEF js
<1>5. CASE js = {}
  <2>1. w.given[1][c] = "undefined"
    BY <1>1, <1>3, <1>5 DEF LaidOut
  <2> QED
    BY <1>2, <1>4, <1>5, <2>1, CellType DEF FirstGiven
<1>6. CASE js # {}
  <2>1. (CHOOSE j \in js : TRUE) \in js
    BY <1>6
  <2> QED
    BY <1>2, <1>3, <1>4, <1>6, <2>1 DEF FirstGiven
<1> QED
  BY <1>5, <1>6

(* So are the placeholders of an upsert and what is listed for them.        *)
LEMMA UpsertFits ==
    ASSUME NEW w \in Writers, LaidOut(w), ~Misfit(w), w.values # << >>
    PROVE  UpsertMarks(w) = UpsertBinds(w)
<1> DEFINE m(k) == IF Updates(w)[k] = NoColumn THEN <<Raw(1), Raw(2)>> ELSE <<FirstGiven(w, Updates(w)[k])>>
           b(k) == IF Updates(w)[k] # NoColumn THEN <<FirstBound(w, Updates(w)[k])>>
                   ELSE IF engine = "sqlite" THEN <<Raw(1), Raw(2)>> ELSE <<Raw(0)>>
<1>1. Updates(w) \in Seq(WriteColumns \cup {NoColumn})
  BY DEF Updates, Writers
<1>2. ASSUME NEW k \in DOMAIN Updates(w)
      PROVE  m(k) = b(k)
  <2>1. Updates(w)[k] \in WriteColumns \cup {NoColumn}
    BY <1>1, LenProperties, ElementOfSeq
  <2>2. CASE Updates(w)[k] = NoColumn
    <3>1. engine = "sqlite"
      BY <2>2 DEF Misfit, Seqs!ToSet
    <3> QED
      BY <2>2, <3>1
  <2>3. CASE Updates(w)[k] # NoColumn
    <3>1. FirstGiven(w, Updates(w)[k]) = FirstBound(w, Updates(w)[k])
      BY <2>1, <2>3, FirstFits DEF Misfit
    <3> QED
      BY <2>3, <3>1
  <2> QED
    BY <2>2, <2>3
<1>3. /\ UpsertMarks(w) = Seqs!FlattenSeq([k \in DOMAIN Updates(w) |-> m(k)])
      /\ UpsertBinds(w) = Seqs!FlattenSeq([k \in DOMAIN Updates(w) |-> b(k)])
  BY Zenon DEF UpsertMarks, UpsertBinds
<1> HIDE DEF m, b
<1>4. [k \in DOMAIN Updates(w) |-> m(k)] = [k \in DOMAIN Updates(w) |-> b(k)]
  BY <1>2
<1> QED
  BY <1>3, <1>4

(* And those of UPDATE, of which no value is an array.                      *)
LEMMA SetFits ==
    ASSUME NEW w \in Writers, ~Misfit(w)
    PROVE  SetMarks(w) = SetBinds(w)
<1> DEFINE n == Len(w.sets)
           f == [k \in DOMAIN w.sets |-> [i \in 1..w.sets[k][2] |-> <<"set", i, w.sets[k][1]>>]]
           g == [k \in DOMAIN SetMarks(w) |-> <<SetMarks(w)[k]>>]
           V == {"set"} \X {1} \X WriteColumns
<1>1. n \in Nat /\ DOMAIN w.sets = 1..n /\ \A k \in 1..n : w.sets[k] \in WriteColumns \X Nat /\ w.sets[k][2] = 1
  BY LenProperties, ElementOfSeq DEF Writers, Misfit, Seqs!ToSet
<1>2. SetMarks(w) \in Seq(V) /\ DOMAIN SetMarks(w) = 1..n
  <2>1. SetMarks(w) \in [1..n -> V]
    <3>1. \A k \in 1..n : <<"set", 1, w.sets[k][1]>> \in V
      BY <1>1
    <3> QED
      BY <1>1, <3>1, Zenon DEF SetMarks
  <2> QED
    BY <1>1, <2>1, FunctionIsSeq
<1>3. ASSUME NEW k \in 1..n
      PROVE  f[k] = g[k]
  <2>1. f[k] = [i \in 1..1 |-> <<"set", i, w.sets[k][1]>>]
    BY <1>1
  <2>2. g[k] = <<SetMarks(w)[k]>> /\ SetMarks(w)[k] = <<"set", 1, w.sets[k][1]>>
    BY <1>1, <1>2 DEF SetMarks
  <2>3. [i \in 1..1 |-> <<"set", i, w.sets[k][1]>>] = << <<"set", 1, w.sets[k][1]>> >>
    OBVIOUS
  <2> QED
    BY <2>1, <2>2, <2>3
<1>4. f = g
  <2>1. f = [k \in 1..n |-> f[k]] /\ g = [k \in 1..n |-> g[k]]
    BY <1>1, <1>2, Zenon
  <2> HIDE DEF f, g
  <2> QED
    BY <1>3, <2>1
<1>5. SetBinds(w) = Seqs!FlattenSeq(f)
  BY Zenon DEF SetBinds
<1>6. Seqs!FlattenSeq(g) = SetMarks(w)
  BY <1>2, FlattenSingles
<1> QED
  BY <1>4, <1>5, <1>6

(* There is a column that is not the key.                                   *)
LEMMA CheckedType == Checked \in WriteColumns
  BY WriteAssumption DEF Checked

(* Every placeholder of a statement meets its value.                        *)
LEMMA MarksMeetBinds ==
    ASSUME NEW w \in Writers, LaidOut(w), ~Misfit(w),
           w.kind = "insert" => ~InsertThrows(w)
    PROVE  WriteMarks(w) = WriteBinds(w)
<1>1. CASE w.kind = "insert"
  <2>1. w.values # << >> /\ ~w.moved
    BY <1>1 DEF InsertThrows, Misfit
  <2>2. UpsertMarks(w) = UpsertBinds(w) /\ FirstGiven(w, Checked) = FirstBound(w, Checked)
    BY <2>1, UpsertFits, FirstFits, CheckedType
  <2>3. InsertMarks(w) = InsertBinds(w)
    BY <2>2 DEF InsertMarks, InsertBinds
  <2> QED
    BY <1>1, <2>3 DEF WriteMarks, WriteBinds
<1>2. CASE w.kind = "update"
  BY <1>2, SetFits DEF WriteMarks, WriteBinds
<1>3. CASE w.kind = "delete"
  BY <1>3 DEF WriteMarks, WriteBinds
<1> QED
  BY <1>1, <1>2, <1>3 DEF Writers

(* A builder that was told nothing.                                         *)
LEMMA WriteInvInit == WriteInit => WriteInv
<1> SUFFICES ASSUME WriteInit
             PROVE  WriteInv
  OBVIOUS
<1>1. PICK what \in {"insert", "update", "delete"} : inProgress = NewWriter(what)
  BY DEF WriteInit
<1>2. \A V : << >> \in Seq(V)
  OBVIOUS
<1>3. NewWriter(what) \in Writers
  BY <1>2 DEF NewWriter, Writers
<1>4. LaidOut(NewWriter(what))
  BY DEF NewWriter, LaidOut
<1> QED
  BY <1>1, <1>3, <1>4 DEF WriteInit, WriteInv, WriteVarsOK, WriteFits

(* values() lays the rows out by its keys.                                  *)
LEMMA ValuesKeepWrite ==
    ASSUME WriteInv, NEW n \in Nat, NEW rows \in [1..n -> DataRows], NEW columns \in KeyOrders(rows),
           WriteValues(rows, columns)
    PROVE  WriteInv'
<1> DEFINE w == inProgress
           m == Len(w.values)
           new == [i \in DOMAIN rows |-> [j \in DOMAIN columns |-> Cell(m + i, rows[i], columns[j])]]
           v == inProgress'
<1>1. w \in Writers /\ LaidOut(w) /\ engine \in {"sql", "sqlite", "mssql"}
  BY DEF WriteInv, WriteVarsOK
<1>2. /\ v = [w EXCEPT !.columns = columns, !.values = @ \o new, !.given = @ \o rows,
                       !.moved = @ \/ (m > 0 /\ columns # w.columns)]
      /\ compiled' = NoWrite /\ UNCHANGED <<engine, model, notNull>>
  BY Zenon DEF WriteValues, OnWriter
<1>3. /\ columns \in Seq(WriteColumns) /\ Len(columns) \in Nat /\ DOMAIN columns = 1..Len(columns)
      /\ \A j \in DOMAIN columns : columns[j] \in WriteColumns
      /\ \A j, k \in DOMAIN columns : columns[j] = columns[k] => j = k
      /\ \A i \in DOMAIN rows, c \in WriteColumns :
            rows[i][c] # "undefined" => \E j \in DOMAIN columns : columns[j] = c
  <2>1. PICK l \in 0..Cardinality(WriteColumns) : columns \in [1..l -> WriteColumns]
    BY DEF KeyOrders
  <2>2. /\ Seqs!IsInjective(columns)
        /\ \A i \in DOMAIN rows, c \in WriteColumns : rows[i][c] # "undefined" => c \in Seqs!ToSet(columns)
    BY DEF KeyOrders
  <2>3. l \in Nat
    BY <2>1
  <2>4. columns \in Seq(WriteColumns) /\ Len(columns) = l /\ DOMAIN columns = 1..l
    BY <2>1, <2>3, FunctionIsSeq
  <2> QED
    BY <2>1, <2>2, <2>3, <2>4 DEF Seqs!IsInjective, Seqs!ToSet
<1>4. rows \in Seq(DataRows) /\ Len(rows) = n /\ DOMAIN rows = 1..n
  BY FunctionIsSeq
<1>5. /\ w.values \in Seq(Seq(Cells)) /\ w.given \in Seq(DataRows) /\ m = Len(w.given) /\ m \in Nat
      /\ DOMAIN w.given = 1..m
  BY <1>1, LenProperties DEF Writers, LaidOut
<1>6. /\ new \in Seq(Seq(Cells)) /\ Len(new) = n
      /\ \A i \in 1..n : new[i] = [j \in DOMAIN columns |-> Cell(m + i, rows[i], columns[j])]
  <2>1. ASSUME NEW i \in 1..n
        PROVE  [j \in DOMAIN columns |-> Cell(m + i, rows[i], columns[j])] \in Seq(Cells)
    <3> DEFINE cells == [j \in DOMAIN columns |-> Cell(m + i, rows[i], columns[j])]
    <3>1. m + i \in Nat /\ rows[i] \in DataRows
      BY <1>4, <1>5
    <3>2. \A j \in DOMAIN columns : Cell(m + i, rows[i], columns[j]) \in Cells
      BY <1>3, <3>1, CellType
    <3>3. cells \in [1..Len(columns) -> Cells]
      BY <1>3, <3>2, Zenon
    <3> HIDE DEF cells
    <3>4. cells \in Seq(Cells)
      BY <1>3, <3>3, FunctionIsSeq
    <3> QED
      BY <3>4 DEF cells
  <2>2. new \in [1..n -> Seq(Cells)]
    BY <1>4, <2>1, Zenon
  <2>3. new \in Seq(Seq(Cells)) /\ Len(new) = n
    BY <2>2, FunctionIsSeq
  <2> QED
    BY <1>4, <2>3
<1> HIDE DEF new
<1>7. /\ w.values \o new \in Seq(Seq(Cells)) /\ Len(w.values \o new) = m + n
      /\ \A i \in 1..(m + n) : (w.values \o new)[i] = IF i <= m THEN w.values[i] ELSE new[i - m]
  <2>1. /\ w.values \o new \in Seq(Seq(Cells)) /\ Len(w.values \o new) = Len(w.values) + Len(new)
        /\ \A i \in 1..(Len(w.values) + Len(new)) :
              (w.values \o new)[i] = IF i <= Len(w.values) THEN w.values[i] ELSE new[i - Len(w.values)]
    <3> DEFINE S == Seq(Cells)
               ws == w.values
    <3>1. ws \in Seq(S) /\ new \in Seq(S)
      BY <1>5, <1>6
    <3> HIDE DEF S, ws
    <3>2. /\ ws \o new \in Seq(S) /\ Len(ws \o new) = Len(ws) + Len(new)
          /\ \A i \in 1..(Len(ws) + Len(new)) :
                (ws \o new)[i] = IF i <= Len(ws) THEN ws[i] ELSE new[i - Len(ws)]
      BY <3>1, ConcatProperties
    <3> QED
      BY <3>2 DEF S, ws
  <2> QED
    BY <1>6, <2>1
<1>8. /\ w.given \o rows \in Seq(DataRows) /\ Len(w.given \o rows) = m + n
      /\ \A i \in 1..(m + n) : (w.given \o rows)[i] = IF i <= m THEN w.given[i] ELSE rows[i - m]
      /\ DOMAIN (w.given \o rows) = 1..(m + n)
  <2>1. /\ w.given \o rows \in Seq(DataRows) /\ Len(w.given \o rows) = Len(w.given) + Len(rows)
        /\ \A i \in 1..(Len(w.given) + Len(rows)) :
              (w.given \o rows)[i] = IF i <= Len(w.given) THEN w.given[i] ELSE rows[i - Len(w.given)]
    BY <1>4, <1>5, ConcatProperties
  <2>2. DOMAIN (w.given \o rows) = 1..Len(w.given \o rows)
    BY <2>1, LenProperties
  <2> HIDE DEF m
  <2> QED
    BY <1>4, <1>5, <2>1, <2>2
<1> DEFINE vs == w.values \o new
           gs == w.given \o rows
           mv == w.moved \/ (m > 0 /\ columns # w.columns)
<1> HIDE DEF vs, gs, mv, m
<1>9. v = [w EXCEPT !.columns = columns, !.values = vs, !.given = gs, !.moved = mv]
  BY <1>1, <1>2 DEF vs, gs, mv, m, Writers
<1>10. mv \in BOOLEAN
  BY <1>1 DEF mv, Writers
<1>11. /\ v.columns = columns /\ v.values = vs /\ v.given = gs /\ v.moved = mv
  BY <1>1, <1>9 DEF Writers
<1>12. v \in Writers
  BY <1>1, <1>3, <1>7, <1>8, <1>9, <1>10 DEF Writers, vs, gs
<1>13. ASSUME ~v.moved, NEW i \in 1..(m + n)
       PROVE  /\ v.values[i] = RowCells(v, i)
              /\ \A c \in WriteColumns :
                    v.given[i][c] # "undefined" => \E j \in DOMAIN v.columns : v.columns[j] = c
  <2>1. ~w.moved /\ (m > 0 => columns = w.columns)
    BY <1>11, <1>13 DEF mv
  <2>2. CASE i <= m
    <3>1. i \in 1..m /\ m > 0 /\ i \in DOMAIN w.given
      BY <1>4, <1>5, <2>2 DEF m
    <3>2. vs[i] = w.values[i] /\ gs[i] = w.given[i] /\ columns = w.columns
      BY <1>7, <1>8, <2>1, <2>2, <3>1 DEF vs, gs
    <3>3. /\ w.values[i] = RowCells(w, i)
          /\ \A c \in WriteColumns :
                w.given[i][c] # "undefined" => \E j \in DOMAIN w.columns : w.columns[j] = c
      BY <1>1, <2>1, <3>1 DEF LaidOut
    <3>4. RowCells(v, i) = RowCells(w, i)
      BY <1>11, <3>2 DEF RowCells
    <3> QED
      BY <1>11, <3>2, <3>3, <3>4
  <2>3. CASE ~(i <= m)
    <3>1. i - m \in 1..n /\ m + (i - m) = i
      BY <1>5, <2>3 DEF m
    <3>2. vs[i] = new[i - m] /\ gs[i] = rows[i - m]
      BY <1>7, <1>8, <2>3 DEF vs, gs
    <3>3. new[i - m] = [j \in DOMAIN columns |-> Cell(i, rows[i - m], columns[j])]
      BY <1>6, <3>1
    <3>4. RowCells(v, i) = [j \in DOMAIN columns |-> Cell(i, rows[i - m], columns[j])]
      BY <1>11, <3>2 DEF RowCells
    <3> QED
      BY <1>3, <1>4, <1>11, <3>1, <3>2, <3>3, <3>4
  <2> QED
    BY <2>2, <2>3
<1>14. LaidOut(v)
  BY <1>3, <1>7, <1>8, <1>11, <1>13 DEF LaidOut, vs, gs
<1> QED
  BY <1>1, <1>2, <1>12, <1>14 DEF WriteInv, WriteVarsOK, WriteFits

(* The other calls leave the rows as they are.                              *)
LEMMA OthersKeepWrite ==
    ASSUME WriteInv,
           \/ OrIgnore \/ OrReplace \/ WriteWhere \/ WriteTake \/ WriteSkip
           \/ \E updates \in {<< >>, <<Checked>>, <<NoColumn, Checked>>} : OnDuplicate(updates)
           \/ \E n \in 0..2 : Assigns(<<Checked, KeyColumn>>, n)
    PROVE  WriteInv'
<1> DEFINE w == inProgress
           v == inProgress'
<1>1. w \in Writers /\ LaidOut(w) /\ engine \in {"sql", "sqlite", "mssql"}
  BY DEF WriteInv, WriteVarsOK
<1>2. compiled' = NoWrite /\ UNCHANGED <<engine, model, notNull>>
  BY DEF OrIgnore, OrReplace, WriteWhere, WriteTake, WriteSkip, OnDuplicate, Assigns, OnWriter
<1>3. /\ v \in Writers
      /\ v.columns = w.columns /\ v.values = w.values /\ v.given = w.given /\ v.moved = w.moved
  <2>1. CASE OrIgnore \/ OrReplace \/ WriteWhere \/ WriteTake \/ WriteSkip
    <3>1. \/ v = [w EXCEPT !.ignore = TRUE] \/ v = [w EXCEPT !.replace = TRUE]
          \/ v = [w EXCEPT !.wheres = @ + 1]
          \/ v = [w EXCEPT !.limit = TRUE] \/ v = [w EXCEPT !.offset = TRUE]
      BY <2>1 DEF OrIgnore, OrReplace, WriteWhere, WriteTake, WriteSkip, OnWriter
    <3>2. CASE v = [w EXCEPT !.ignore = TRUE] \/ v = [w EXCEPT !.replace = TRUE]
      BY <1>1, <3>2 DEF Writers
    <3>3. CASE v = [w EXCEPT !.wheres = @ + 1]
      <4>1. w.wheres + 1 \in Nat
        BY <1>1 DEF Writers
      <4> QED
        BY <1>1, <3>3, <4>1 DEF Writers
    <3>4. CASE v = [w EXCEPT !.limit = TRUE] \/ v = [w EXCEPT !.offset = TRUE]
      BY <1>1, <3>4 DEF Writers
    <3> QED
      BY <3>1, <3>2, <3>3, <3>4
  <2>2. CASE \E updates \in {<< >>, <<Checked>>, <<NoColumn, Checked>>} : OnDuplicate(updates)
    <3>1. PICK updates \in {<< >>, <<Checked>>, <<NoColumn, Checked>>} :
             v = [w EXCEPT !.duplicate = TRUE, !.updates = updates]
      BY <2>2 DEF OnDuplicate, OnWriter
    <3>2. << >> \in Seq(WriteColumns \cup {NoColumn}) /\ <<Checked>> \in Seq(WriteColumns \cup {NoColumn})
          /\ <<NoColumn, Checked>> \in Seq(WriteColumns \cup {NoColumn})
      BY CheckedType
    <3> QED
      BY <1>1, <3>1, <3>2 DEF Writers
  <2>3. CASE \E n \in 0..2 : Assigns(<<Checked, KeyColumn>>, n)
    <3>1. PICK n \in 0..2 :
             v = [w EXCEPT !.sets = [i \in DOMAIN <<Checked, KeyColumn>> |->
                                       <<<<Checked, KeyColumn>>[i], IF i = 1 THEN n ELSE 1>>]]
      BY <2>3 DEF Assigns, OnWriter
    <3> DEFINE sets == [i \in DOMAIN <<Checked, KeyColumn>> |->
                          <<<<Checked, KeyColumn>>[i], IF i = 1 THEN n ELSE 1>>]
    <3>2. DOMAIN <<Checked, KeyColumn>> = 1..2
      OBVIOUS
    <3>3. \A i \in 1..2 : <<<<Checked, KeyColumn>>[i], IF i = 1 THEN n ELSE 1>> \in WriteColumns \X Nat
      BY CheckedType, WriteAssumption
    <3>4. sets \in [1..2 -> WriteColumns \X Nat]
      BY <3>2, <3>3, Zenon
    <3> HIDE DEF sets
    <3>5. sets \in Seq(WriteColumns \X Nat)
      BY <3>4, FunctionIsSeq
    <3>6. v = [w EXCEPT !.sets = sets]
      BY <3>1 DEF sets
    <3> QED
      BY <1>1, <3>5, <3>6 DEF Writers
  <2> QED
    BY <2>1, <2>2, <2>3
<1>4. LaidOut(v)
  <2>1. \A i \in DOMAIN w.given : RowCells(v, i) = RowCells(w, i)
    BY <1>3 DEF RowCells
  <2> QED
    BY <1>1, <1>3, <2>1 DEF LaidOut
<1> QED
  BY <1>1, <1>2, <1>3, <1>4 DEF WriteInv, WriteVarsOK, WriteFits

(* The statement is compiled.                                               *)
LEMMA WriteToDBFits ==
    ASSUME WriteInv, WriteToDB
    PROVE  WriteInv'
<1> DEFINE w == inProgress
<1>1. w \in Writers /\ LaidOut(w) /\ engine \in {"sql", "sqlite", "mssql"}
  BY DEF WriteInv, WriteVarsOK
<1>2. UNCHANGED <<engine, model, notNull, inProgress>>
  BY DEF WriteToDB
<1>3. WriteFits'
  <2> SUFFICES ASSUME compiled' # NoWrite, ~Misfit(w)
               PROVE  /\ compiled'.marks = compiled'.binds
                      /\ \A i \in DOMAIN compiled'.rows :
                            IF Len(compiled'.rows[i]) = Len(compiled'.columns)
                              THEN \A j \in DOMAIN compiled'.columns :
                                      compiled'.rows[i][j] = Cell(i, w.given[i], compiled'.columns[j])
                              ELSE KeysMixed(w)
    BY <1>2 DEF WriteFits, Misfit, KeysMixed, Updates
  <2>1. /\ w.kind = "insert" => ~InsertThrows(w)
        /\ compiled' = [columns |-> ColumnsOf(w), rows |-> WrittenRows(w),
                         marks |-> WriteMarks(w), binds |-> WriteBinds(w)]
    BY Zenon DEF WriteToDB
  <2>2. /\ compiled'.columns = ColumnsOf(w) /\ compiled'.rows = WrittenRows(w)
        /\ compiled'.marks = WriteMarks(w) /\ compiled'.binds = WriteBinds(w)
    BY <2>1
  <2>3. compiled'.marks = compiled'.binds
    BY <1>1, <2>1, <2>2, MarksMeetBinds
  <2>4. ~w.moved
    BY DEF Misfit
  <2>5. ASSUME NEW i \in DOMAIN compiled'.rows
        PROVE  IF Len(compiled'.rows[i]) = Len(compiled'.columns)
                 THEN \A j \in DOMAIN compiled'.columns :
                         compiled'.rows[i][j] = Cell(i, w.given[i], compiled'.columns[j])
                 ELSE KeysMixed(w)
    <3>1. i \in DOMAIN w.values /\ compiled'.rows[i] = CellsOf(w, w.values[i])
      BY <2>2 DEF WrittenRows
    <3>2. i \in DOMAIN w.given
      BY <1>1, <3>1, LenProperties DEF LaidOut, Writers
    <3> QED
      BY <1>1, <2>2, <2>4, <3>1, <3>2, WrittenRowFits
  <2> QED
    BY <2>3, <2>5
<1> QED
  BY <1>1, <1>2, <1>3 DEF WriteInv, WriteVarsOK, LaidOut, RowCells

(* Every step keeps it.                                                     *)
LEMMA WriteInvNext == WriteInv /\ [WriteNext]_writeVars => WriteInv'
<1> SUFFICES ASSUME WriteInv, [WriteNext]_writeVars
             PROVE  WriteInv'
  OBVIOUS
<1>1. CASE UNCHANGED writeVars
  <2>1. WriteVarsOK' /\ LaidOut(inProgress)'
    <3>1. UNCHANGED <<engine, inProgress>> /\ WriteVarsOK /\ LaidOut(inProgress)
      BY <1>1 DEF writeVars, WriteInv
    <3>2. LaidOut(inProgress)' = LaidOut(inProgress)
      BY <3>1 DEF LaidOut, RowCells
    <3> QED
      BY <3>1, <3>2 DEF WriteVarsOK
  <2>2. UNCHANGED <<engine, model, inProgress, compiled>> /\ WriteFits
    BY <1>1 DEF writeVars, WriteInv
  <2>3. Misfit(inProgress)' = Misfit(inProgress) /\ KeysMixed(inProgress)' = KeysMixed(inProgress)
    BY <2>2 DEF Misfit, KeysMixed, Updates
  <2>4. WriteFits'
    BY <2>2, <2>3 DEF WriteFits
  <2> QED
    BY <2>1, <2>4 DEF WriteInv
<1>2. ASSUME NEW n \in 1..(MaxRows - Len(inProgress.values)), NEW rows \in [1..n -> DataRows],
             NEW columns \in KeyOrders(rows), WriteValues(rows, columns)
      PROVE  WriteInv'
  <2>1. n \in Nat
    BY LenProperties, WriteAssumption DEF WriteInv, WriteVarsOK, Writers
  <2> QED
    BY <1>2, <2>1, ValuesKeepWrite
<1>3. CASE \/ OrIgnore \/ OrReplace \/ WriteWhere \/ WriteTake \/ WriteSkip
           \/ \E updates \in {<< >>, <<Checked>>, <<NoColumn, Checked>>} : OnDuplicate(updates)
           \/ \E n \in 0..2 : Assigns(<<Checked, KeyColumn>>, n)
  BY <1>3, OthersKeepWrite
<1>4. CASE WriteToDB
  BY <1>4, WriteToDBFits
<1> QED
  BY <1>1, <1>2, <1>3, <1>4 DEF WriteNext, WriteCall

(* A write is compiled to rows and placeholders that fit, whatever the      *)
(* builder was told before, apart from what the compilers cannot lay out.   *)
THEOREM WrittenFits == WriteSpec => []WriteFits
<1>1. WriteInv => WriteFits
  BY DEF WriteInv
<1> QED
  BY WriteInvInit, WriteInvNext, <1>1, PTL DEF WriteSpec

-----------------------------------------------------------------------------
(* OrmPopulate.                                                             *)

PopulateVarsOK ==
    /\ found \subseteq Heads
    /\ turn \in [Awaits -> {"idle", "querying", "relating", "refused", "done", "rejected"}]
    /\ wants \in [Awaits -> [Heads -> Heads \cup {NoHead}]]
    /\ DOMAIN limits = Awaits /\ DOMAIN left = Awaits /\ DOMAIN given = Awaits

(* The query of an await under way has its middleware, and asks for every   *)
(* key that all awaits so far have asked for.                               *)
AskedFor ==
    \A w \in Awaits : turn[w] = "relating" =>
        IF shape = "query"
        THEN \A h \in Heads : wants[w][h] \in {NoHead, h}
        ELSE w \in hydrators /\ {h \in Heads : \A s \in keys : h \in s} \subseteq limits[w]

PopulateInv == PopulateVarsOK /\ AskedFor

(* No await is under way at first.                                          *)
LEMMA PopulateInvInit == PopulateInit => PopulateInv
  BY DEF PopulateInit, PopulateInv, PopulateVarsOK, AskedFor

(* A step of others, of an await that begins or of one that fails leaves    *)
(* the relation query as it is.                                             *)
LEMMA OthersKeepPopulate ==
    ASSUME PopulateInv, NEW w \in Awaits, Write \/ Await(w) \/ AwaitFails(w)
    PROVE  PopulateInv'
<1>1. /\ UNCHANGED <<shape, wants, limits, keys, hydrators, given>>
      /\ found' \subseteq Heads /\ DOMAIN left' = Awaits
      /\ \/ turn' = turn
         \/ turn' = [turn EXCEPT ![w] = "querying"]
         \/ turn' = [turn EXCEPT ![w] = "rejected"]
  BY DEF PopulateInv, PopulateVarsOK, Write, Await, AwaitFails, Rejects, populateDb
<1>2. PopulateVarsOK'
  BY <1>1 DEF PopulateInv, PopulateVarsOK
<1>3. \A v \in Awaits : turn'[v] = "relating" => turn[v] = "relating"
  BY <1>1 DEF PopulateInv, PopulateVarsOK
<1> QED
  BY <1>1, <1>2, <1>3 DEF PopulateInv, AskedFor

(* The models of an await are read: its keys restrict the relation query    *)
(* for it and for those that come later.                                    *)
LEMMA ReadKeepsPopulate ==
    ASSUME PopulateInv, NEW w \in Awaits, ModelsRead(w)
    PROVE  PopulateInv'
<1> DEFINE ks == {KeyOf(h) : h \in Heads} \ {NoHead}
<1>0. PopulateVarsOK /\ AskedFor
  BY DEF PopulateInv
<1>1. /\ UNCHANGED <<shape, found, given>>
      /\ wants' = [wants EXCEPT ![w] = [h \in Heads |-> KeyOf(h)]]
      /\ \/ shape = "query" /\ RunCallbacks(w)
         \/ shape # "query" /\ AskRelated(w, ks)
         \/ shape # "query" /\ AskNothing(w)
  BY DEF ModelsRead, populateDb
<1>2. \A h \in Heads : KeyOf(h) \in Heads \cup {NoHead}
  BY <1>0 DEF KeyOf, PopulateVarsOK
<1>3. shape = "query" => \A h \in Heads : KeyOf(h) \in {NoHead, h}
  BY DEF KeyOf
<1>4. wants'[w] = [h \in Heads |-> KeyOf(h)] /\ \A v \in Awaits \ {w} : wants'[v] = wants[v]
  BY <1>0, <1>1 DEF PopulateVarsOK
<1>5. /\ turn' \in [Awaits -> {"idle", "querying", "relating", "refused", "done", "rejected"}]
      /\ \A v \in Awaits \ {w} : turn'[v] = turn[v]
      /\ DOMAIN limits' = Awaits /\ DOMAIN left' = Awaits
  BY <1>0, <1>1 DEF PopulateVarsOK, RunCallbacks, AskRelated, AskNothing
<1>6. PopulateVarsOK'
  <2>1. wants' \in [Awaits -> [Heads -> Heads \cup {NoHead}]]
    BY <1>0, <1>1, <1>2 DEF PopulateVarsOK
  <2> QED
    BY <1>0, <1>1, <1>5, <2>1 DEF PopulateVarsOK
<1>7. CASE shape = "query" /\ RunCallbacks(w)
  BY <1>0, <1>1, <1>3, <1>4, <1>5, <1>6, <1>7 DEF PopulateInv, AskedFor
<1>8. CASE shape # "query" /\ AskRelated(w, ks)
  <2>1. /\ keys \subseteq keys' /\ hydrators' = hydrators \cup {w}
        /\ limits' = [limits EXCEPT ![w] = {h \in Heads : \A s \in keys' : h \in s}]
    BY <1>8 DEF AskRelated, Hydrators
  <2>2. /\ limits'[w] = {h \in Heads : \A s \in keys' : h \in s}
        /\ \A v \in Awaits \ {w} : limits'[v] = limits[v]
    BY <1>0, <2>1 DEF PopulateVarsOK
  <2>3. {h \in Heads : \A s \in keys' : h \in s} \subseteq {h \in Heads : \A s \in keys : h \in s}
    BY <2>1
  <2> QED
    BY <1>0, <1>1, <1>5, <1>6, <1>8, <2>1, <2>2, <2>3 DEF PopulateInv, AskedFor
<1>9. CASE shape # "query" /\ AskNothing(w)
  <2>1. turn'[w] = "done" /\ UNCHANGED <<limits, keys, hydrators>>
    BY <1>0, <1>9 DEF AskNothing, PopulateVarsOK
  <2> QED
    BY <1>0, <1>1, <1>5, <1>6, <1>9, <2>1 DEF PopulateInv, AskedFor
<1> QED
  BY <1>1, <1>7, <1>8, <1>9

(* A relation query is answered, with or without success.                   *)
LEMMA AnswerKeepsPopulate ==
    ASSUME PopulateInv, NEW w \in Awaits, Related(w)
    PROVE  PopulateInv'
<1>1. /\ turn[w] = "relating" /\ UNCHANGED <<shape, found, wants, limits, keys, hydrators>>
      /\ DOMAIN given' = Awaits /\ DOMAIN left' = Awaits
      /\ Ends(w) \/ Rejects(w)
  BY DEF PopulateInv, PopulateVarsOK, Related, HasMany, HasManyToMany, ByQuery,
         Distribute, Ends, Rejects, populateDb
<1>2. PopulateVarsOK'
  BY <1>1 DEF PopulateInv, PopulateVarsOK, Ends, Rejects
<1>3. \A v \in Awaits : turn'[v] = "relating" => turn[v] = "relating"
  BY <1>1 DEF PopulateInv, PopulateVarsOK, Ends, Rejects
<1> QED
  BY <1>1, <1>2, <1>3 DEF PopulateInv, AskedFor

(* Every step keeps it.                                                     *)
LEMMA PopulateInvNext == PopulateInv /\ [PopulateNext]_populateVars => PopulateInv'
<1> SUFFICES ASSUME PopulateInv, [PopulateNext]_populateVars
             PROVE  PopulateInv'
  OBVIOUS
<1>1. CASE UNCHANGED populateVars
  BY <1>1 DEF populateVars, populateDb, PopulateInv, PopulateVarsOK, AskedFor
<1>2. CASE Write
  <2>1. CASE Awaits = {}
    BY <1>2, <2>1 DEF Write, PopulateInv, PopulateVarsOK, AskedFor
  <2>2. CASE Awaits # {}
    BY <1>2, <2>2, OthersKeepPopulate
  <2> QED
    BY <2>1, <2>2
<1>3. ASSUME NEW w \in Awaits, Await(w) \/ ModelsRead(w) \/ Related(w) \/ AwaitFails(w)
      PROVE  PopulateInv'
  BY <1>3, OthersKeepPopulate, ReadKeepsPopulate, AnswerKeepsPopulate
<1> QED
  BY <1>1, <1>2, <1>3 DEF PopulateNext

(* The step with which an await is done gives its models what the rows say. *)
LEMMA DoneExactly ==
    ASSUME PopulateInv, PopulateNext,
           NEW w \in Awaits, turn[w] # "done", turn'[w] = "done",
           NEW h \in Heads, wants'[w][h] # NoHead, \A s \in keys : wants[w][h] \in s
    PROVE  given'[w][h] = Linked(wants[w][h])
<1>0. PopulateVarsOK /\ AskedFor
  BY DEF PopulateInv
<1>1. PICK v \in Awaits : ModelsRead(v) \/ Related(v)
  BY <1>0 DEF PopulateNext, Write, Await, AwaitFails, Rejects, PopulateVarsOK
<1>2. v = w
  BY <1>0, <1>1 DEF PopulateVarsOK, ModelsRead, Related, RunCallbacks, AskRelated, AskNothing,
     HasMany, HasManyToMany, ByQuery, Ends, Rejects
<1>3. CASE ModelsRead(w)
  <2>1. {KeyOf(g) : g \in Heads} \ {NoHead} = {}
    BY <1>0, <1>3 DEF ModelsRead, RunCallbacks, AskRelated, AskNothing, PopulateVarsOK
  <2>2. wants'[w][h] = KeyOf(h)
    BY <1>0, <1>3 DEF ModelsRead, PopulateVarsOK
  <2> QED
    BY <2>1, <2>2
<1>4. CASE Related(w)
  <2>1. /\ turn[w] = "relating" /\ wants' = wants
        /\ HasMany(w) \/ HasManyToMany(w) \/ ByQuery(w)
    BY <1>4 DEF Related
  <2>2. wants[w][h] \in Heads
    BY <1>0, <2>1 DEF PopulateVarsOK
  <2>3. shape # "query" => w \in hydrators /\ wants[w][h] \in limits[w]
    BY <1>0, <2>1, <2>2 DEF AskedFor
  <2>4. ~Rejects(w)
    BY <1>0 DEF Rejects, PopulateVarsOK
  <2>5. CASE Distribute(w) /\ shape \in {"many", "belongs", "manytomany"}
    BY <2>1, <2>3, <2>5 DEF Distribute
  <2>6. CASE ByQuery(w)
    <3>1. shape = "query" /\ wants[w][h] = h
      BY <1>0, <2>1, <2>6 DEF ByQuery, AskedFor
    <3>2. given'[w] = [g \in Heads |-> IF wants[w][g] # NoHead THEN Linked(g) ELSE given[w][g]]
      BY <1>0, <2>6 DEF ByQuery, PopulateVarsOK
    <3> QED
      BY <2>1, <3>1, <3>2
  <2> QED
    BY <2>1, <2>4, <2>5, <2>6 DEF HasMany, HasManyToMany
<1> QED
  BY <1>1, <1>2, <1>3, <1>4

(* An await that is done has given each of its models the rows related to it*)
(* when the last query was answered, for every kind of relation but a tree, *)
(* whose query no database takes, whatever other awaits and writers did,    *)
(* unless an earlier await asked for keys without that of the model.        *)
THEOREM PopulatesExactly == PopulateSpec => PopulatedExactly
<1> DEFINE Exactly ==
        \A w \in Awaits : turn[w] # "done" /\ turn'[w] = "done" =>
            \A h \in Heads : wants'[w][h] # NoHead /\ (\A s \in keys : wants[w][h] \in s) =>
                given'[w][h] = Linked(wants[w][h])
<1>1. PopulateInv /\ [PopulateNext]_populateVars => [Exactly]_populateVars
  BY DoneExactly
<1> QED
  BY PopulateInvInit, PopulateInvNext, <1>1, PTL DEF PopulateSpec, PopulatedExactly
=============================================================================
