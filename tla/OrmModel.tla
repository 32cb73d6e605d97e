------------------------------- MODULE OrmModel -------------------------------
(***************************************************************************)
(* One instance of a ModelBase and its row: the proxy that tracks what was *)
(* assigned, and update, insert, insertOrUpdate, archive, destroy and      *)
(* refresh, each of which captures values when it is called, runs a query, *)
(* and touches the flags again when the answer arrives.  Several may be    *)
(* under way, and assignments come at any moment between.                  *)
(***************************************************************************)
EXTENDS Naturals, FiniteSets, Functions

CONSTANTS
    ModelCalls,   \* calls under way on the instance
    ModelColumns, \* its columns without the primary key
    ForeignKey,   \* the one that is written from a relation, which may be empty
    ColumnValues, \* their values
    NoValue,      \* NULL, and no related model
    MaxAssigns    \* bound: assignments

ASSUME ModelAssumption == MaxAssigns \in Nat /\ ColumnValues # {}

VARIABLES
    mem,        \* mem[c]: the value of the instance, of ForeignKey its relation's key
    row,        \* row[c]: the value in the database
    rowState,   \* none, stored or deleted
    keyKnown,   \* PrimaryKeyValue is set
    isDirty,    \* __is_dirty__
    dirtyProps, \* __dirty_props__
    call,       \* call[k]: what a call does; reinsert is insert() with a key,
                \* ignored an insert whose row another one took the place of
    phase,      \* phase[k]: idle, sent or done
    captured,   \* captured[k]: the values its query is built with, until it has run
                \* or, of an insert, been answered; those it read
    assigns,    \* assignments so far
    overtaken   \* history: columns last assigned while a query was under way, or
                \* cleared by an insert() that did not store them

modelVars == <<mem, row, rowState, keyKnown, isDirty, dirtyProps, call, phase,
               captured, assigns, overtaken>>

Blank == [c \in {} |-> 0]
FirstValue == CHOOSE v \in ColumnValues : TRUE
NullRow == [c \in ModelColumns |-> NoValue]

(* new Model(data) fills the instance behind the proxy: nothing is dirty.   *)
ModelInit ==
    /\ mem \in [ModelColumns -> ColumnValues]
    /\ row = NullRow
    /\ rowState = "none" /\ keyKnown \in BOOLEAN
    /\ isDirty = FALSE /\ dirtyProps = {}
    /\ call = [k \in ModelCalls |-> "none"]
    /\ phase = [k \in ModelCalls |-> "idle"]
    /\ captured = [k \in ModelCalls |-> Blank]
    /\ assigns = 0 /\ overtaken = {}

Underway == {k \in ModelCalls : phase[k] # "idle"}
stored == <<row, rowState>>
history == <<assigns, overtaken>>

Track(c) ==
    /\ assigns < MaxAssigns /\ assigns' = assigns + 1
    /\ isDirty' = TRUE
    /\ dirtyProps' = dirtyProps \cup {c}
    /\ overtaken' = IF Underway = {} THEN overtaken \ {c} ELSE overtaken \cup {c}
    /\ UNCHANGED <<stored, keyKnown, call, phase, captured>>

(* The set trap of the proxy: an equal value is no change.                  *)
Assign(c, v) ==
    /\ c # ForeignKey /\ mem[c] # v
    /\ mem' = [mem EXCEPT ![c] = v]
    /\ Track(c)

(* attach() and detach() of a relation to one model push its foreign key,   *)
(* changed or not.                                                          *)
AttachOne(c, v) ==
    /\ c = ForeignKey
    /\ mem' = [mem EXCEPT ![c] = v]
    /\ Track(c)

(* Any other attach() marks the owner dirty and no column of it.            *)
AttachRelated ==
    /\ isDirty' = TRUE
    /\ UNCHANGED <<mem, stored, keyKnown, dirtyProps, call, phase, captured, history>>

(* toSql(): a relation that is empty has no column.                         *)
ToSql(cols) == Restrict(mem, {c \in cols : mem[c] # NoValue})

Send(k, what, values) ==
    /\ phase[k] = "idle"
    /\ call' = [call EXCEPT ![k] = what]
    /\ phase' = [phase EXCEPT ![k] = "sent"]
    /\ captured' = [captured EXCEPT ![k] = values]

(* update() returns at once when nothing is dirty, else sends the dirty     *)
(* columns.                                                                 *)
Update(k) ==
    /\ keyKnown /\ isDirty
    /\ Send(k, "update", ToSql(dirtyProps))
    /\ UNCHANGED <<mem, stored, keyKnown, isDirty, dirtyProps, history>>

(* insert() sends every column, with the key if there is one, and is clean  *)
(* from here on.                                                            *)
Insert(k) ==
    /\ Send(k, IF keyKnown THEN "reinsert" ELSE "insert", ToSql(ModelColumns))
    /\ isDirty' = FALSE /\ dirtyProps' = {}
    /\ UNCHANGED <<mem, stored, keyKnown, history>>

(* archive() sends every column and leaves the flags alone; destroy() and   *)
(* refresh() send the key only.                                             *)
SendByKey(k) ==
    /\ keyKnown
    /\ \/ Send(k, "archive", ToSql(ModelColumns))
       \/ \E what \in {"destroy", "refresh"} : Send(k, what, Blank)
    /\ UNCHANGED <<mem, stored, keyKnown, isDirty, dirtyProps, history>>

(* The columns a query sets; the others come from rest.                     *)
Written(k, rest) ==
    [c \in ModelColumns |-> IF c \in DOMAIN captured[k] THEN captured[k][c] ELSE rest[c]]

(* The database runs the query of a call; a row that is not there is not    *)
(* an error, except for refresh, and an update of no column is one.  An     *)
(* insert without a key makes a row, which may not be the first; one with   *)
(* the key updates or replaces the row that is there.                       *)
Run(k) ==
    /\ phase[k] = "sent"
    /\ CASE call[k] \in {"update", "archive"} ->
              /\ captured[k] # Blank
              /\ row' = IF rowState = "stored" THEN Written(k, row) ELSE row
              /\ captured' = [captured EXCEPT ![k] = Blank]
              /\ UNCHANGED rowState
         [] call[k] = "insert" ->
              /\ IF rowState = "none" /\ ~keyKnown
                   THEN row' = Written(k, NullRow) /\ rowState' = "stored"
                   ELSE UNCHANGED stored
              /\ UNCHANGED captured
         [] call[k] = "reinsert" ->
              /\ \E rest \in {row, NullRow} :
                    /\ rowState # "stored" => rest = NullRow
                    /\ row' = Written(k, rest)
              /\ rowState' = "stored"
              /\ captured' = [captured EXCEPT ![k] = Blank]
         [] call[k] = "destroy" ->
              /\ row' = NullRow /\ rowState' = "deleted"
              /\ UNCHANGED captured
         [] call[k] = "refresh" ->
              /\ rowState = "stored"
              /\ captured' = [captured EXCEPT ![k] = row]
              /\ UNCHANGED stored
    /\ phase' = [phase EXCEPT ![k] = "done"]
    /\ UNCHANGED <<mem, keyKnown, isDirty, dirtyProps, call, history>>

(* What an insert() of the model with this key has cleared, if its row is   *)
(* not written after all.                                                   *)
Forgotten(k) ==
    {c \in ModelColumns : /\ call[k] = "reinsert" /\ rowState = "stored" /\ mem[c] # row[c]
                          /\ ~(isDirty /\ c \in dirtyProps)}

(* InsertOrIgnore and InsertOrUpdate meet a row, this one or another with a *)
(* unique value of the same: the instance's row is not written.             *)
Ignored(k) ==
    /\ phase[k] = "sent" /\ call[k] \in {"insert", "reinsert"}
    /\ phase' = [phase EXCEPT ![k] = "done"]
    /\ call' = [call EXCEPT ![k] = "ignored"]
    /\ captured' = [captured EXCEPT ![k] = Blank]
    /\ overtaken' = overtaken \cup Forgotten(k)
    /\ UNCHANGED <<mem, stored, keyKnown, isDirty, dirtyProps, assigns>>

Settle(k) ==
    /\ phase' = [phase EXCEPT ![k] = "idle"]
    /\ call' = [call EXCEPT ![k] = "none"]
    /\ captured' = [captured EXCEPT ![k] = Blank]

(* The call continues after its query: update and destroy now clear every   *)
(* flag, refresh assigns what it read, which marks the columns it changes   *)
(* and leaves the relations as they are.                                    *)
Answer(k) ==
    /\ phase[k] = "done" /\ (call[k] \in {"insert", "ignored"} => keyKnown)
    /\ Settle(k)
    /\ \E keys \in SUBSET ({ForeignKey} \cap ModelColumns) :
         LET cleared == call[k] \in {"update", "destroy"}
             read == IF call[k] = "refresh"
                       THEN [c \in ModelColumns |-> IF c = ForeignKey THEN mem[c] ELSE captured[k][c]]
                       ELSE mem
             changed == {c \in ModelColumns : read[c] # mem[c]} \cup keys
         IN  /\ keys # {} => call[k] = "refresh"
             /\ mem' = read
             /\ isDirty' = (~cleared /\ (isDirty \/ changed # {}))
             /\ dirtyProps' = IF cleared THEN {} ELSE dirtyProps \cup changed
             /\ overtaken' = IF Underway = {k} THEN overtaken \ changed ELSE overtaken \cup changed
    /\ UNCHANGED <<stored, keyKnown, assigns>>

(* insert() takes the key it is answered, if it has none: that of the row   *)
(* it made or, if it was ignored, the last one of the connection, which is  *)
(* the key of some other row, or none.                                      *)
TakeKey(k) ==
    /\ phase[k] = "done" /\ call[k] \in {"insert", "ignored"} /\ ~keyKnown
    /\ Settle(k)
    /\ \/ /\ call[k] = "insert"
          /\ row' = Written(k, NullRow) /\ rowState' = "stored" /\ keyKnown' = TRUE
          /\ UNCHANGED overtaken
       \/ /\ call[k] = "ignored"
          /\ row' \in [ModelColumns -> ColumnValues] /\ rowState' = "stored" /\ keyKnown' = TRUE
          /\ overtaken' = ModelColumns
       \/ call[k] = "ignored" /\ UNCHANGED <<stored, keyKnown, overtaken>>
    /\ UNCHANGED <<mem, isDirty, dirtyProps, assigns>>

(* Mutant: the flags are cleared whether or not the update was stored.      *)
RefuseClears(k) ==
    /\ phase[k] = "sent"
    /\ Settle(k)
    /\ isDirty' = FALSE /\ dirtyProps' = {}
    /\ UNCHANGED <<mem, stored, keyKnown, history>>

(* The query is refused, by the connection or by a constraint: the call     *)
(* throws and touches nothing.                                              *)
Refuse(k) ==
    /\ phase[k] = "sent"
    /\ Settle(k)
    /\ overtaken' = overtaken \cup Forgotten(k)
    /\ UNCHANGED <<mem, stored, keyKnown, isDirty, dirtyProps, assigns>>

ModelNext ==
    \/ \E c \in ModelColumns, v \in ColumnValues : Assign(c, v)
    \/ \E c \in ModelColumns, v \in ColumnValues \cup {NoValue} : AttachOne(c, v)
    \/ AttachRelated
    \/ \E k \in ModelCalls :
          \/ Update(k) \/ Insert(k) \/ SendByKey(k)
          \/ Run(k) \/ Ignored(k) \/ Refuse(k) \/ Answer(k) \/ TakeKey(k)

ModelSpec == ModelInit /\ [][ModelNext]_modelVars
-----------------------------------------------------------------------------
ModelTypeOK ==
    /\ mem \in [ModelColumns -> ColumnValues \cup {NoValue}]
    /\ row \in [ModelColumns -> ColumnValues \cup {NoValue}]
    /\ rowState \in {"none", "stored", "deleted"}
    /\ dirtyProps \subseteq ModelColumns /\ overtaken \subseteq ModelColumns
    /\ phase \in [ModelCalls -> {"idle", "sent", "done"}]

(* The columns whose value an update() could write and the row has not.     *)
Unsaved ==
    {c \in ModelColumns : rowState = "stored" /\ keyKnown /\ mem[c] \notin {row[c], NoValue}}

(* When no query is under way, the next update() will send every column     *)
(* that differs from the row, whatever failed or overlapped before.  The    *)
(* exceptions are columns assigned while a query was under way, those that  *)
(* an insert() of the stored model cleared although it was refused or       *)
(* ignored, all of them if an ignored insert() took the key of another row, *)
(* and a relation that was detached, which no query writes.                 *)
SavedOrDirty ==
    Underway = {} => Unsaved \ overtaken \subseteq (IF isDirty THEN dirtyProps ELSE {})
==============================================================================
