------------------------------ MODULE OrmInsert ------------------------------
(***************************************************************************)
(* Model.insert() with one model or an array of them: one statement writes *)
(* all rows, and the keys the models get are counted back from the one key *)
(* the driver reports, that of the last row (sqlite, mssql; the answers of *)
(* mysql have no such key, and are left out).  One model may also be       *)
(* inserted or ignored, or update or replace rows it conflicts with.       *)
(* Inserts overlap each other and deletes; some models bring a key along.  *)
(***************************************************************************)
EXTENDS Integers, Sequences, FiniteSets

CONSTANTS
    Records,   \* models to insert
    Inserts,   \* calls of insert
    NoRecord,  \* no model
    Mixed,     \* data of several: a row that a model with another key updated
    LastRow,   \* bound: the highest key of the table
    StaleKeys, \* bound: the keys that ignored inserts are answered
    MaxSends   \* bound: calls of insert, one after another too

RowIds == 0..LastRow

ASSUME InsertAssumption ==
    /\ {NoRecord, Mixed} \cap Records = {} /\ LastRow \in Nat
    /\ StaleKeys \subseteq RowIds /\ MaxSends \in Nat

NoId == -1
Preset == 2
Behaviours == {"None", "InsertOrIgnore", "InsertOrUpdate", "InsertOrReplace"}

VARIABLES
    modelKey,  \* modelKey[m]: PrimaryKeyValue, or NoId
    dataOf,    \* dataOf[n]: the model whose data row n holds, Mixed or NoRecord
    lastRowId, \* the highest key ever used
    inserting, \* inserting[c]: idle, sent, answer, or ignored: an answer without a row
    batch,     \* batch[c]: the models of the call
    behaviour, \* behaviour[c]: its InsertBehaviour
    sentKeys,  \* sentKeys[c]: the values of the key column when it was compiled
    reported,  \* reported[c]: LastInsertId, or NoId
    sends,     \* calls so far
    guessed    \* history: models whose key is what an ignored insert was answered

insertVars == <<modelKey, dataOf, lastRowId, inserting, batch, behaviour, sentKeys, reported,
                sends, guessed>>

InsertInit ==
    /\ modelKey \in [Records -> {NoId, Preset}]
    /\ dataOf = [n \in RowIds |-> NoRecord] /\ lastRowId = 0
    /\ inserting = [c \in Inserts |-> "idle"]
    /\ batch = [c \in Inserts |-> <<>>]
    /\ behaviour = [c \in Inserts |-> "None"]
    /\ sentKeys = [c \in Inserts |-> <<>>]
    /\ reported = [c \in Inserts |-> NoId]
    /\ sends = 0 /\ guessed = {}

Batches == {<<m>> : m \in Records} \cup {p \in Records \X Records : p[1] # p[2]}

(* values() and toDB(): the rows as they are at that moment.  An array with *)
(* a behaviour is refused.                                                  *)
SendInsert(c, models, how) ==
    /\ inserting[c] = "idle"
    /\ sends < MaxSends /\ sends' = sends + 1
    /\ how # "None" => Len(models) = 1
    /\ inserting' = [inserting EXCEPT ![c] = "sent"]
    /\ batch' = [batch EXCEPT ![c] = models]
    /\ behaviour' = [behaviour EXCEPT ![c] = how]
    /\ sentKeys' = [sentKeys EXCEPT ![c] = [i \in DOMAIN models |-> modelKey[models[i]]]]
    /\ UNCHANGED <<modelKey, dataOf, lastRowId, reported, guessed>>

(* The key column is listed when every row has a key; a row lists its key   *)
(* when it has one.                                                         *)
KeyListed(keys) == \A i \in DOMAIN keys : keys[i] # NoId
SameArity(keys) == \A i \in DOMAIN keys : (keys[i] # NoId) = KeyListed(keys)

KeysFree(keys, replaced) ==
    /\ \A i \in DOMAIN keys : dataOf[keys[i]] = NoRecord \/ keys[i] \in replaced
    /\ \A i, j \in DOMAIN keys : i # j => keys[i] # keys[j]

(* The keys of the rows: those sent, or the next ones.                      *)
RowKeysOf(keys) == IF KeyListed(keys) THEN keys ELSE [i \in DOMAIN keys |-> lastRowId + i]

SetMax(S) == CHOOSE n \in S : \A k \in S : k <= n

Taken == {n \in RowIds : dataOf[n] # NoRecord}

(* The database runs the statement and makes its rows.  OR REPLACE deletes  *)
(* those with the key or a unique value of the new one.  The answer of an   *)
(* upsert is a list of rows, which has no LastInsertId.                     *)
RunInsert(c, replaced) ==
    LET keys == RowKeysOf(sentKeys[c])
        used == {keys[i] : i \in DOMAIN keys}
    IN  /\ inserting[c] = "sent"
        /\ replaced # {} => behaviour[c] = "InsertOrReplace"
        /\ SameArity(sentKeys[c])
        /\ used \subseteq RowIds /\ KeysFree(keys, replaced)
        /\ dataOf' = [n \in RowIds |->
              IF n \in used THEN batch[c][CHOOSE i \in DOMAIN keys : keys[i] = n]
              ELSE IF n \in replaced THEN NoRecord ELSE dataOf[n]]
        /\ lastRowId' = SetMax(used \cup {lastRowId})
        /\ reported' = [reported EXCEPT ![c] =
              IF behaviour[c] = "InsertOrUpdate" THEN NoId ELSE keys[Len(keys)]]
        /\ inserting' = [inserting EXCEPT ![c] = "answer"]
        /\ behaviour' = [behaviour EXCEPT ![c] = "None"]
        /\ UNCHANGED <<modelKey, batch, sentKeys, sends, guessed>>

(* A row that is there has the key or a unique value of the model: nothing  *)
(* is written, and sqlite answers with the key of the last row it inserted  *)
(* on this connection, into any table, or 0.                                *)
IgnoreInsert(c) ==
    /\ inserting[c] = "sent" /\ behaviour[c] = "InsertOrIgnore"
    /\ Taken # {}
    /\ \E key \in StaleKeys : reported' = [reported EXCEPT ![c] = key]
    /\ inserting' = [inserting EXCEPT ![c] = "ignored"]
    /\ behaviour' = [behaviour EXCEPT ![c] = "None"]
    /\ UNCHANGED <<modelKey, dataOf, lastRowId, batch, sentKeys, sends, guessed>>

(* Row n is updated instead, but for its key.                               *)
UpdateInstead(c, n) ==
    /\ inserting[c] = "sent" /\ behaviour[c] = "InsertOrUpdate"
    /\ n \in Taken
    /\ dataOf' = [dataOf EXCEPT ![n] = IF n = sentKeys[c][1] THEN batch[c][1] ELSE Mixed]
    /\ inserting' = [inserting EXCEPT ![c] = "answer"]
    /\ behaviour' = [behaviour EXCEPT ![c] = "None"]
    /\ UNCHANGED <<modelKey, lastRowId, batch, sentKeys, reported, sends, guessed>>

Done(c) ==
    /\ inserting' = [inserting EXCEPT ![c] = "idle"]
    /\ batch' = [batch EXCEPT ![c] = <<>>]
    /\ behaviour' = [behaviour EXCEPT ![c] = "None"]
    /\ sentKeys' = [sentKeys EXCEPT ![c] = <<>>]
    /\ reported' = [reported EXCEPT ![c] = NoId]
    /\ UNCHANGED <<lastRowId, sends>>

(* It is refused: rows of unequal length, a key that is taken, any error.   *)
InsertRefused(c) ==
    /\ inserting[c] = "sent"
    /\ Done(c)
    /\ UNCHANGED <<modelKey, dataOf, sends, guessed>>

(* Mutant: counted forwards from the reported key.                          *)
CountedForwards(id, n, i) == id + i - 1

(* The key of the i-th of n models.                                         *)
Counted(id, n, i) == id + i - n

(* The models that still have no key get theirs, if there is one.           *)
InsertAnswered(c) ==
    LET n == Len(batch[c])
        position(m) == CHOOSE i \in 1..n : batch[c][i] = m
        given == {m \in Records : /\ modelKey[m] = NoId /\ reported[c] # NoId
                                  /\ \E i \in 1..n : batch[c][i] = m}
    IN  /\ inserting[c] \in {"answer", "ignored"}
        /\ modelKey' = [m \in Records |->
              IF m \in given THEN Counted(reported[c], n, position(m)) ELSE modelKey[m]]
        /\ guessed' = IF inserting[c] = "ignored" THEN guessed \cup given ELSE guessed
        /\ Done(c)
        /\ UNCHANGED dataOf

(* A row is deleted; its key is not used again.                             *)
RowDeleted(k) ==
    /\ k \in Taken
    /\ dataOf' = [dataOf EXCEPT ![k] = NoRecord]
    /\ UNCHANGED <<modelKey, lastRowId, inserting, batch, behaviour, sentKeys, reported, sends,
                   guessed>>

InsertNext ==
    \/ \E c \in Inserts :
          \/ \E models \in Batches, how \in Behaviours : SendInsert(c, models, how)
          \/ \E replaced \in SUBSET Taken : RunInsert(c, replaced)
          \/ \E n \in RowIds : UpdateInstead(c, n)
          \/ IgnoreInsert(c) \/ InsertRefused(c) \/ InsertAnswered(c)
    \/ \E k \in RowIds : RowDeleted(k)

InsertSpec == InsertInit /\ [][InsertNext]_insertVars
-----------------------------------------------------------------------------
(* The keys of ignored inserts, which may be those of other models' rows.   *)
Doubtful == {modelKey[m] : m \in guessed}

(* With a driver that reports the key of the last row, the key a model got  *)
(* never names a row with the data of another model, however inserts and    *)
(* deletes overlap, and never a row that does not exist yet.  A key the     *)
(* model brought along may be taken by another.  Not so: a model whose      *)
(* insert was ignored gets the key of whatever was inserted before, and may *)
(* then write to it; and an upsert writes into the row it conflicts with.   *)
KeyNamesOwnRow ==
    \A m \in Records : modelKey[m] \notin {NoId, Preset} \cup Doubtful =>
        /\ modelKey[m] <= lastRowId
        /\ dataOf[modelKey[m]] \in {m, Mixed, NoRecord}
==============================================================================
