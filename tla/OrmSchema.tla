------------------------------ MODULE OrmSchema ------------------------------
(***************************************************************************)
(* The schema builders of the ORM, as a migration uses them: a builder is  *)
(* awaited and compiles to one or more statements; when it was refused the *)
(* migration is run, and the same builder awaited, again.  The driver      *)
(* sends the statements of a call all at once, to a pool, so the database  *)
(* runs them in any order.  The promise of the call rejects at the first   *)
(* refusal; the other statements run all the same, beside those of the     *)
(* next call.  Types, defaults and comments of a column are one value;     *)
(* database names are left out.                                            *)
(***************************************************************************)
EXTENDS Filters, FiniteSets, Naturals

CONSTANTS
    Tables,       \* names a program uses
    Target,       \* the one the migration is about
    Columns,
    ColumnTypes,
    NoTable,      \* no table of a name
    MaxParts,     \* columns, drops and renames of one alteration
    MaxSchemaCalls,
    MaxLate       \* statements still to run when the migration runs again

Revision == "revision"  \* the columns added to a history table

(* A table: its columns, those of its primary key, the unique ones, and the *)
(* number of its rows.                                                      *)
SchemaTables ==
    LET names == Columns \cup {Revision} IN
    {tab \in [cols : UNION {[cols -> ColumnTypes] : cols \in SUBSET names},
              key : SUBSET names, unique : SUBSET names, rows : Nat] :
        tab.key \cup tab.unique \subseteq DOMAIN tab.cols}

ASSUME SchemaAssumption ==
    /\ MaxParts \in Nat /\ MaxSchemaCalls \in Nat /\ MaxLate \in Nat
    /\ Target \in Tables /\ NoTable \notin SchemaTables
    /\ IsFiniteSet(Columns) /\ Columns # {} /\ ColumnTypes # {}

VARIABLES
    dialect,  \* mysql or sqlite
    tables,   \* tables[n]: the table of a name, or NoTable
    builder,  \* what the migration calls, NoBuilder before it does
    sent,     \* how often it was called
    answer,   \* of the last call: pending, resolved or rejected
    toRun,    \* the statements of a pending call that are not answered
    stray,    \* <<call, i>>: statements nobody waits for any more
    due,      \* history: the tables as the pending call asks for them, see AsAsked
    quiet     \* history: only its statements changed them since

schemaVars == <<dialect, tables, builder, sent, answer, toRun, stray, due, quiet>>

History(t) == <<t, "history">>
TableNames == Tables \cup {History(t) : t \in Tables}
NoBuilder == [kind |-> "none"]

(* The table a CREATE TABLE describes.                                      *)
AnyType == CHOOSE ty \in ColumnTypes : TRUE
AnyColumn == CHOOSE c \in Columns : TRUE
TableOf(cols, key, unique) ==
    [cols |-> [c \in cols |-> AnyType], key |-> key, unique |-> unique,
     rows |-> 0]

-----------------------------------------------------------------------------
(* What the database does with a statement that alters a column.            *)
MySql == dialect = "mysql"

ColumnFits(tab, s) ==
    \/ /\ s.op = "dropColumn" /\ s.c \in DOMAIN tab.cols /\ DOMAIN tab.cols # {s.c}
       /\ MySql \/ s.c \notin tab.key \cup tab.unique
    \/ s.op = "add" /\ s.c \notin DOMAIN tab.cols
    \/ s.op = "modify" /\ MySql /\ s.c \in DOMAIN tab.cols
    \/ s.op = "renameColumn" /\ s.c \in DOMAIN tab.cols /\ s.d \notin DOMAIN tab.cols

Renamed(cols, c, d) ==
    [x \in (DOMAIN cols \ {c}) \cup {d} |-> IF x = d THEN cols[c] ELSE cols[x]]
RenamedIn(set, c, d) == IF c \in set THEN (set \ {c}) \cup {d} ELSE set

ColumnChanged(tab, s) ==
    CASE s.op = "dropColumn" -> [tab EXCEPT !.cols = [x \in DOMAIN @ \ {s.c} |-> @[x]],
                                            !.key = @ \ {s.c}, !.unique = @ \ {s.c}]
      [] s.op = "add" -> [tab EXCEPT !.cols = [x \in DOMAIN @ \cup {s.c} |->
                                                 IF x = s.c THEN s.ty ELSE @[x]]]
      [] s.op = "modify" -> [tab EXCEPT !.cols[s.c] = s.ty]
      [] s.op = "renameColumn" -> [tab EXCEPT !.cols = Renamed(@, s.c, s.d),
                                              !.key = RenamedIn(@, s.c, s.d),
                                              !.unique = RenamedIn(@, s.c, s.d)]

(* With any statement.                                                      *)
Has(tabs, n) == tabs[n] # NoTable
ColumnOps == {"dropColumn", "add", "modify", "renameColumn"}

Accepts(tabs, s) ==
    \/ s.op = "create" /\ (s.lenient \/ ~Has(tabs, s.t)) /\ (MySql \/ Cardinality(s.def.key) <= 1)
    \/ s.op = "drop" /\ (s.lenient \/ Has(tabs, s.t))
    \/ s.op = "truncate" /\ Has(tabs, s.t)
    \/ s.op = "like" /\ MySql /\ ~Has(tabs, s.t) /\ Has(tabs, s.from)
    \/ /\ s.op = "fill" /\ Has(tabs, s.t) /\ Has(tabs, s.from)
       /\ tabs[s.from].rows = 0 \/ tabs[s.t].rows = 0 \/ tabs[s.t].key \cup tabs[s.t].unique = {}
    \/ s.op = "rename" /\ Has(tabs, s.t) /\ ~Has(tabs, s.to)
    \/ s.op \in ColumnOps /\ Has(tabs, s.t) /\ ColumnFits(tabs[s.t], s)
    \/ s.op = "dropIndex" /\ Has(tabs, s.t) /\ s.c \in tabs[s.t].unique
    \/ s.op = "dropKey" /\ Has(tabs, s.t) /\ s.c \in tabs[s.t].key
    \/ /\ s.op = "addKey" /\ Has(tabs, s.t) /\ {s.c, Revision} \subseteq DOMAIN tabs[s.t].cols
       /\ tabs[s.t].key = {}

OnTable(tabs, s) ==
    LET tab == tabs[s.t] IN
    CASE s.op = "create" -> IF Has(tabs, s.t) THEN tab ELSE s.def
      [] s.op = "drop" -> NoTable
      [] s.op = "truncate" -> [tab EXCEPT !.rows = 0]
      [] s.op = "like" -> [tabs[s.from] EXCEPT !.rows = 0]
      [] s.op = "fill" -> [tab EXCEPT !.rows = @ + tabs[s.from].rows]
      [] s.op \in ColumnOps -> ColumnChanged(tab, s)
      [] s.op = "dropIndex" -> [tab EXCEPT !.unique = @ \ {s.c}]
      [] s.op = "dropKey" -> [tab EXCEPT !.key = {}]
      [] s.op = "addKey" -> [tab EXCEPT !.key = {s.c, Revision}]

After(tabs, s) ==
    IF s.op = "rename" THEN [tabs EXCEPT ![s.to] = tabs[s.t], ![s.t] = NoTable]
    ELSE [tabs EXCEPT ![s.t] = OnTable(tabs, s)]

-----------------------------------------------------------------------------
(* The builders a callback can leave behind.                                *)
Creates ==
    {[kind |-> "create", t |-> Target, def |-> TableOf(cols, key, unique), lenient |-> l,
      tracked |-> h] :
        cols \in SUBSET Columns \ {{}}, key \in SUBSET Columns, unique \in SUBSET Columns,
        l \in BOOLEAN, h \in BOOLEAN}

TableCalls ==
    [kind : {"drop"}, t : {Target}, lenient : BOOLEAN]
    \cup [kind : {"truncate"}, t : {Target}]
    \cup [kind : {"clone"}, t : {Target}, from : Tables \ {Target}, deep : BOOLEAN]

ColumnAlterations ==
    [op : {"add", "modify"}, c : Columns, ty : ColumnTypes]
    \cup [op : {"renameColumn"}, c : Columns, d : Columns]

Alterations ==
    {a \in [kind : {"alter"}, t : {Target}, drops : SUBSET Columns,
            to : {{}} \cup {{u} : u \in Tables \ {Target}},
            cols : Seqs!BoundedSeq(ColumnAlterations, MaxParts)] :
        Cardinality(a.drops) + Cardinality(a.to) + Len(a.cols) \in 1..MaxParts}

(* A primary or unique key is on columns there are; the tables with history *)
(* have their key, if any, on one column.                                   *)
WellMade(b) ==
    LET def == b.def IN
    /\ def.key \cup def.unique \subseteq DOMAIN def.cols /\ def.key \cap def.unique = {}
    /\ b.tracked => def.key \subseteq {AnyColumn}
Builders == {b \in Creates : WellMade(b)} \cup TableCalls \cup Alterations

(* The statements that make a history table, in the order of the compiler.  *)
(* Those that make triggers are DELIMITER commands, which no server knows.  *)
HistoryOf(b) ==
    LET h == History(b.t)
        pk == CHOOSE c \in b.def.key : TRUE
    IN <<[op |-> "like", t |-> h, from |-> b.t]>>
       \o [k \in 1..Cardinality(b.def.unique) |->
             [op |-> "dropIndex", t |-> h, c |-> Seqs!SetToSeq(b.def.unique)[k]]]
       \o <<[op |-> "dropKey", t |-> h, c |-> pk],
            [op |-> "add", t |-> h, c |-> Revision, ty |-> AnyType],
            [op |-> "addKey", t |-> h, c |-> pk],
            [op |-> "triggers", t |-> h]>>

(* The compiler of a history table fails if no column is the primary key.   *)
Compiles(b) == b.kind = "create" /\ b.tracked /\ MySql => b.def.key # {}

CloneOf(b) ==
    <<[op |-> "like", t |-> b.t, from |-> b.from]>>
    \o (IF b.deep THEN <<[op |-> "fill", t |-> b.t, from |-> b.from]>> ELSE <<>>)

AlteredColumn(t, a) ==
    IF a.op = "renameColumn" THEN [op |-> a.op, t |-> t, c |-> a.c, d |-> a.d]
    ELSE [op |-> a.op, t |-> t, c |-> a.c, ty |-> a.ty]

(* Dropped columns, the new name of the table, then the columns, which      *)
(* still name the table as before.                                          *)
AlterOf(b) ==
    LET drops == Seqs!SetToSeq(b.drops) IN
    [k \in DOMAIN drops |-> [op |-> "dropColumn", t |-> b.t, c |-> drops[k]]]
    \o [k \in 1..Cardinality(b.to) |-> [op |-> "rename", t |-> b.t, to |-> CHOOSE u \in b.to : TRUE]]
    \o [k \in DOMAIN b.cols |-> AlteredColumn(b.t, b.cols[k])]

Compiled(b) ==
    CASE b.kind = "create" -> <<[op |-> "create", t |-> b.t, def |-> b.def, lenient |-> b.lenient]>>
                              \o (IF b.tracked /\ MySql THEN HistoryOf(b) ELSE <<>>)
      [] b.kind = "clone" -> CloneOf(b)
      [] b.kind = "alter" -> AlterOf(b)
      [] b.kind = "drop" -> <<[op |-> "drop", t |-> b.t, lenient |-> b.lenient]>>
      [] b.kind = "truncate" -> <<[op |-> "truncate", t |-> b.t]>>
      [] b.kind = "none" -> <<>>

-----------------------------------------------------------------------------
(* What a call asks for: its statements one after the other, those behind a *)
(* change of the table's name aimed at the new one.                         *)
NewNames(stmts, k) == {stmts[j].to : j \in {i \in 1..k : stmts[i].op = "rename"}}
Aimed(stmts, k) ==
    IF NewNames(stmts, k - 1) = {} THEN stmts[k]
    ELSE [stmts[k] EXCEPT !.t = CHOOSE u \in NewNames(stmts, k - 1) : TRUE]

AfterFirst(tabs, stmts) ==
    LET after[k \in 0..Len(stmts)] ==
          IF k = 0 THEN tabs
          ELSE IF Accepts(after[k - 1], Aimed(stmts, k)) THEN After(after[k - 1], Aimed(stmts, k))
          ELSE after[k - 1]
    IN after

(* The tables before, after the first, the second, ... after all of them;   *)
(* the empty sequence if one cannot be done then.                           *)
AsAsked(tabs, stmts) ==
    LET after == AfterFirst(tabs, stmts) IN
    IF \A k \in 1..Len(stmts) : Accepts(after[k - 1], Aimed(stmts, k)) THEN after ELSE <<>>

Statements == IF Compiles(builder) THEN Compiled(builder) ELSE <<>>

(* The tables there are before: of one column and one row.                  *)
Before == {NoTable} \cup {[TableOf({AnyColumn}, key, {}) EXCEPT !.rows = 1] :
                            key \in SUBSET {AnyColumn}}

SchemaInit ==
    /\ dialect \in {"mysql", "sqlite"}
    /\ tables \in [TableNames -> Before]
    /\ \A n \in TableNames : tables[n] # NoTable =>
          n \in Tables /\ (n = Target => tables[n].key = {})
    /\ builder = NoBuilder /\ sent = 0 /\ answer = "rejected"
    /\ toRun = {} /\ stray = {}
    /\ due = <<>> /\ quiet = TRUE

(* A migration that is run again awaits the builder it awaited before.      *)
Offered == IF builder = NoBuilder THEN Builders ELSE {builder}
MayCall == answer = "rejected" /\ sent < MaxSchemaCalls /\ Cardinality(stray) <= MaxLate

(* The builder is awaited.  deepClone is an async method that returns the   *)
(* builder, which is thenable: that runs the statements once by itself.     *)
SendSchema(b) ==
    /\ MayCall /\ Compiles(b)
    /\ builder' = b /\ sent' = sent + 1 /\ answer' = "pending"
    /\ toRun' = DOMAIN Compiled(b)
    /\ due' = AsAsked(tables, Compiled(b))
    /\ stray' = IF b.kind = "clone" /\ b.deep
                  THEN stray \cup {sent + 1} \X DOMAIN Compiled(b)
                  ELSE stray
    /\ UNCHANGED <<dialect, tables, quiet>>

(* The compiler throws: the call rejects before anything is sent.           *)
SendThrows(b) ==
    /\ MayCall /\ ~Compiles(b)
    /\ builder' = b /\ sent' = sent + 1
    /\ UNCHANGED <<dialect, tables, answer, toRun, stray, due, quiet>>

CallEnds(a) == answer' = a /\ toRun' = {} /\ due' = <<>> /\ quiet' = TRUE

(* The database runs a statement of the pending call.                       *)
RunOwn(i) ==
    /\ Accepts(tables, Statements[i])
    /\ tables' = After(tables, Statements[i])
    /\ toRun' = toRun \ {i}
    /\ UNCHANGED <<dialect, builder, sent, answer, stray, due, quiet>>

(* It refuses one: the call rejects, and what is left of it still runs.     *)
Refused(i) ==
    /\ stray' = stray \cup {sent} \X (toRun \ {i})
    /\ CallEnds("rejected")
    /\ UNCHANGED <<dialect, tables, builder, sent>>

(* It runs, or refuses, a statement nobody waits for.                       *)
RunStray(s) ==
    /\ stray' = stray \ {s}
    /\ \/ /\ Accepts(tables, Statements[s[2]])
          /\ tables' = After(tables, Statements[s[2]])
          /\ quiet' = (quiet /\ (answer = "pending" => s[1] = sent))
       \/ UNCHANGED <<tables, quiet>>
    /\ UNCHANGED <<dialect, builder, sent, answer, toRun, due>>

(* Mutant: the call resolves when the first statement is answered.          *)
ResolveEarly ==
    /\ answer = "pending" /\ toRun # DOMAIN Statements
    /\ stray' = stray \cup {sent} \X toRun
    /\ CallEnds("resolved")
    /\ UNCHANGED <<dialect, tables, builder, sent>>

Resolve ==
    /\ answer = "pending" /\ toRun = {}
    /\ CallEnds("resolved")
    /\ UNCHANGED <<dialect, tables, builder, sent, stray>>

SchemaNext ==
    \/ \E b \in Offered : SendSchema(b) \/ SendThrows(b)
    \/ \E i \in toRun : RunOwn(i) \/ Refused(i)
    \/ \E s \in stray : RunStray(s)
    \/ Resolve

SchemaSpec == SchemaInit /\ [][SchemaNext]_schemaVars

-----------------------------------------------------------------------------
SchemaTypeOK ==
    /\ dialect \in {"mysql", "sqlite"}
    /\ tables \in [TableNames -> SchemaTables \cup {NoTable}]
    /\ builder \in Builders \cup {NoBuilder}
    /\ toRun \subseteq DOMAIN Statements /\ stray \subseteq (1..sent) \X DOMAIN Statements
    /\ sent \in 0..MaxSchemaCalls
    /\ answer \in {"pending", "resolved", "rejected"}
    /\ quiet \in BOOLEAN

(* The statements that name a column.                                       *)
Names(s, c) == s.op \in ColumnOps /\ c \in {s.c} \cup (IF s.op = "renameColumn" THEN {s.d} ELSE {})
Touching(stmts, c) == {i \in DOMAIN stmts : Names(stmts[i], c)}

(* A column three of them name, or two modify: then the order they run in   *)
(* decides what becomes of it.                                              *)
Unordered(stmts) ==
    \E c \in Columns :
        \/ \E i, j, k \in Touching(stmts, c) : i < j /\ j < k
        \/ \E i, j \in Touching(stmts, c) : i < j /\ \A k \in {i, j} : stmts[k].op = "modify"

(* The copy of a deep clone may hold every row twice.                       *)
Doubled(tabs) ==
    {[tabs EXCEPT ![Statements[i].t].rows = 2 * @] :
        i \in {j \in DOMAIN Statements : Statements[j].op = "fill"}}

(* Whatever order the database runs the statements in, a call that resolves *)
(* has left the tables as they would be after the statements one by one,    *)
(* unless three of them name one column or two modify it, or what is left   *)
(* of an earlier, refused call got in between; a deep clone holds each row  *)
(* once or twice.                                                           *)
ResolvedAsAsked ==
    [][answer = "pending" /\ answer' = "resolved" /\ quiet /\ due # <<>> /\ ~Unordered(Statements)
       => LET asked == due[Len(Statements)] IN tables \in {asked} \cup Doubled(asked)]_schemaVars
=============================================================================
