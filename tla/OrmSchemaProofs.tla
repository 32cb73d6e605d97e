-------------------------- MODULE OrmSchemaProofs --------------------------
(***************************************************************************)
(* Type correctness of the schema builders and of the database they alter, *)
(* and what a call that resolves has done, for any tables, columns, column *)
(* types and bounds.  An alteration is followed column by column: what the *)
(* table holds there is what is asked after one of the statements that     *)
(* name it, with those behind it still to run; or one of these can never   *)
(* run any more, so that the call cannot resolve.                          *)
(***************************************************************************)
EXTENDS OrmSchema, FilterProofs

SchemaColumns == Columns \cup {Revision}

(* The statements there are.                                                *)
ColumnStatements ==
    [op : {"dropColumn"}, t : TableNames, c : SchemaColumns]
    \cup [op : {"add", "modify"}, t : TableNames, c : SchemaColumns, ty : ColumnTypes]
    \cup [op : {"renameColumn"}, t : TableNames, c : SchemaColumns, d : SchemaColumns]

TableStatements ==
    [op : {"create"}, t : TableNames, def : SchemaTables, lenient : BOOLEAN]
    \cup [op : {"drop"}, t : TableNames, lenient : BOOLEAN]
    \cup [op : {"truncate", "triggers"}, t : TableNames]
    \cup [op : {"like", "fill"}, t : TableNames, from : TableNames]
    \cup [op : {"rename"}, t : TableNames, to : TableNames]
    \cup [op : {"dropIndex", "dropKey", "addKey"}, t : TableNames, c : SchemaColumns]

SchemaStatements == ColumnStatements \cup TableStatements

(* The columns a statement needs, of those it names, and those there are    *)
(* after it.                                                                *)
NeedsColumn(s, c) == s.op # "add" /\ c = s.c
GivesColumn(s, c) ==
    \/ s.op \in {"add", "modify"}
    \/ s.op = "renameColumn" /\ c = s.d

(* Two tables hold the same in a column.                                    *)
SameAt(p, q, c) ==
    /\ p.rows = q.rows
    /\ c \in DOMAIN p.cols <=> c \in DOMAIN q.cols
    /\ c \in DOMAIN p.cols => p.cols[c] = q.cols[c]
    /\ c \in p.key <=> c \in q.key
    /\ c \in p.unique <=> c \in q.unique

-----------------------------------------------------------------------------
(* What is known of a table.                                                *)
LEMMA TableFacts ==
    ASSUME NEW tab \in SchemaTables
    PROVE  /\ tab = [cols |-> tab.cols, key |-> tab.key, unique |-> tab.unique, rows |-> tab.rows]
           /\ DOMAIN tab.cols \subseteq SchemaColumns
           /\ tab.cols \in [DOMAIN tab.cols -> ColumnTypes]
           /\ tab.key \subseteq DOMAIN tab.cols /\ tab.unique \subseteq DOMAIN tab.cols
           /\ tab.rows \in Nat
<1>1. PICK cols \in SUBSET SchemaColumns : tab.cols \in [cols -> ColumnTypes]
  BY DEF SchemaTables, SchemaColumns
<1> QED
  BY <1>1 DEF SchemaTables, SchemaColumns

(* And what makes one.                                                      *)
LEMMA MakesTable ==
    ASSUME NEW D \in SUBSET SchemaColumns, NEW cols \in [D -> ColumnTypes],
           NEW key \in SUBSET D, NEW unique \in SUBSET D, NEW rows \in Nat
    PROVE  [cols |-> cols, key |-> key, unique |-> unique, rows |-> rows] \in SchemaTables
BY DEF SchemaTables, SchemaColumns

(* A table without rows is one, and so is one with other rows.              *)
LEMMA RowsKeepTable ==
    ASSUME NEW tab \in SchemaTables, NEW n \in Nat
    PROVE  [tab EXCEPT !.rows = n] \in SchemaTables
<1>1. [tab EXCEPT !.rows = n] = [cols |-> tab.cols, key |-> tab.key, unique |-> tab.unique, rows |-> n]
  BY TableFacts
<1>2. [cols |-> tab.cols, key |-> tab.key, unique |-> tab.unique, rows |-> n] \in SchemaTables
  BY TableFacts, MakesTable
<1> QED
  BY <1>1, <1>2

(* Two tables that hold the same in every column are the same.              *)
LEMMA SameTables ==
    ASSUME NEW p \in SchemaTables, NEW q \in SchemaTables, \A c \in SchemaColumns : SameAt(p, q, c)
    PROVE  p = q
<1>1. Revision \in SchemaColumns
  BY DEF SchemaColumns
<1>2. p.rows = q.rows /\ DOMAIN p.cols = DOMAIN q.cols /\ p.key = q.key /\ p.unique = q.unique
  BY <1>1, TableFacts DEF SameAt
<1>3. p.cols = q.cols
  BY <1>2, TableFacts DEF SameAt
<1> QED
  BY <1>2, <1>3, TableFacts

(* Holding the same in a column goes both ways.                             *)
LEMMA SameBack == ASSUME NEW p, NEW q, NEW c, SameAt(p, q, c) PROVE SameAt(q, p, c)
BY DEF SameAt

(* And on to a third table.                                                 *)
LEMMA SameOn ==
    ASSUME NEW p, NEW q, NEW r, NEW c, SameAt(p, q, c), SameAt(q, r, c)
    PROVE  SameAt(p, r, c)
BY DEF SameAt

(* A table with other columns and the same rows.                            *)
Rebuilt(tab, cols, key, unique) ==
    [cols |-> cols, key |-> key, unique |-> unique, rows |-> tab.rows]

(* The parts of a rebuilt table.                                            *)
LEMMA RebuiltFields ==
    ASSUME NEW tab, NEW cols, NEW key, NEW unique
    PROVE  LET q == Rebuilt(tab, cols, key, unique)
           IN  q.cols = cols /\ q.key = key /\ q.unique = unique /\ q.rows = tab.rows
BY DEF Rebuilt

(* The columns of a table after a statement.                                *)
WithoutColumn(cols, c) == [x \in DOMAIN cols \ {c} |-> cols[x]]
WithColumn(cols, c, ty) == [x \in DOMAIN cols \cup {c} |-> IF x = c THEN ty ELSE cols[x]]

(* A column dropped.                                                        *)
LEMMA DroppedFields ==
    ASSUME NEW tab \in SchemaTables, NEW s, s.op = "dropColumn"
    PROVE  ColumnChanged(tab, s) =
             Rebuilt(tab, WithoutColumn(tab.cols, s.c), tab.key \ {s.c}, tab.unique \ {s.c})
<1>1. ColumnChanged(tab, s) = [tab EXCEPT !.cols = WithoutColumn(tab.cols, s.c),
                                          !.key = tab.key \ {s.c}, !.unique = tab.unique \ {s.c}]
  BY Zenon DEF ColumnChanged, WithoutColumn
<1> QED
  BY <1>1, TableFacts DEF Rebuilt

(* A column added.                                                          *)
LEMMA AddedFields ==
    ASSUME NEW tab \in SchemaTables, NEW s, s.op = "add"
    PROVE  ColumnChanged(tab, s) = Rebuilt(tab, WithColumn(tab.cols, s.c, s.ty), tab.key, tab.unique)
<1>1. ColumnChanged(tab, s) = [tab EXCEPT !.cols = WithColumn(tab.cols, s.c, s.ty)]
  BY Zenon DEF ColumnChanged, WithColumn
<1> QED
  BY <1>1, TableFacts DEF Rebuilt

(* A column of another type.                                                *)
LEMMA ModifiedFields ==
    ASSUME NEW tab \in SchemaTables, NEW s, s.op = "modify", s.c \in DOMAIN tab.cols
    PROVE  ColumnChanged(tab, s) = Rebuilt(tab, WithColumn(tab.cols, s.c, s.ty), tab.key, tab.unique)
<1>1. ColumnChanged(tab, s) = [tab EXCEPT !.cols = [tab.cols EXCEPT ![s.c] = s.ty]]
  BY TableFacts DEF ColumnChanged
<1>2. [tab.cols EXCEPT ![s.c] = s.ty] = WithColumn(tab.cols, s.c, s.ty)
  BY TableFacts DEF WithColumn
<1> QED
  BY <1>1, <1>2, TableFacts DEF Rebuilt

(* A column of another name.                                                *)
LEMMA RenamedFields ==
    ASSUME NEW tab \in SchemaTables, NEW s, s.op = "renameColumn"
    PROVE  ColumnChanged(tab, s) =
             Rebuilt(tab, Renamed(tab.cols, s.c, s.d), RenamedIn(tab.key, s.c, s.d),
                     RenamedIn(tab.unique, s.c, s.d))
<1>1. ColumnChanged(tab, s) = [tab EXCEPT !.cols = Renamed(tab.cols, s.c, s.d),
                                          !.key = RenamedIn(tab.key, s.c, s.d),
                                          !.unique = RenamedIn(tab.unique, s.c, s.d)]
  BY Zenon DEF ColumnChanged
<1> QED
  BY <1>1, TableFacts DEF Rebuilt

(* The kinds of statements on a column.                                     *)
LEMMA ColumnCases ==
    ASSUME NEW s \in ColumnStatements
    PROVE  /\ s.op \in ColumnOps /\ s.t \in TableNames /\ s.c \in SchemaColumns
           /\ s.op \in {"add", "modify"} => s.ty \in ColumnTypes
           /\ s.op = "renameColumn" => s.d \in SchemaColumns
BY DEF ColumnStatements, ColumnOps

(* What holds of a rebuilt table.                                           *)
LEMMA RebuiltTable ==
    ASSUME NEW tab \in SchemaTables, NEW cols, NEW key, NEW unique,
           DOMAIN cols \subseteq SchemaColumns, cols \in [DOMAIN cols -> ColumnTypes],
           key \subseteq DOMAIN cols, unique \subseteq DOMAIN cols
    PROVE  Rebuilt(tab, cols, key, unique) \in SchemaTables
BY TableFacts, MakesTable DEF Rebuilt

(* Every column of a table after each kind of statement.                    *)
LEMMA Dropped ==
    ASSUME NEW tab \in SchemaTables, NEW s \in ColumnStatements, s.op = "dropColumn",
           NEW q, q = ColumnChanged(tab, s)
    PROVE  /\ q \in SchemaTables /\ q.rows = tab.rows
           /\ q.key = tab.key \ {s.c} /\ q.unique = tab.unique \ {s.c}
           /\ DOMAIN q.cols = DOMAIN tab.cols \ {s.c}
           /\ \A c \in DOMAIN q.cols : q.cols[c] = tab.cols[c]
<1> DEFINE cols == WithoutColumn(tab.cols, s.c)
<1>1. /\ DOMAIN cols = DOMAIN tab.cols \ {s.c} /\ \A c \in DOMAIN cols : cols[c] = tab.cols[c]
      /\ cols \in [DOMAIN cols -> ColumnTypes]
  BY TableFacts DEF WithoutColumn
<1>2. q = Rebuilt(tab, cols, tab.key \ {s.c}, tab.unique \ {s.c})
  BY DroppedFields
<1> HIDE DEF cols
<1>3. q \in SchemaTables
  BY <1>1, <1>2, RebuiltTable, TableFacts
<1>4. /\ q.cols = cols /\ q.rows = tab.rows
      /\ q.key = tab.key \ {s.c} /\ q.unique = tab.unique \ {s.c}
  BY <1>2, RebuiltFields
<1> QED
  BY <1>1, <1>3, <1>4

(* So with a column more, or of another type.                               *)
LEMMA Added ==
    ASSUME NEW tab \in SchemaTables, NEW s \in ColumnStatements,
           s.op \in {"add", "modify"}, s.op = "modify" => s.c \in DOMAIN tab.cols,
           NEW q, q = ColumnChanged(tab, s)
    PROVE  /\ q \in SchemaTables /\ q.rows = tab.rows
           /\ q.key = tab.key /\ q.unique = tab.unique
           /\ DOMAIN q.cols = DOMAIN tab.cols \cup {s.c} /\ q.cols[s.c] = s.ty
           /\ \A c \in DOMAIN q.cols \ {s.c} : q.cols[c] = tab.cols[c]
<1> DEFINE cols == WithColumn(tab.cols, s.c, s.ty)
<1>0. s.ty \in ColumnTypes /\ s.c \in SchemaColumns
  BY ColumnCases
<1>1. /\ DOMAIN cols = DOMAIN tab.cols \cup {s.c} /\ cols[s.c] = s.ty
      /\ \A c \in DOMAIN cols \ {s.c} : cols[c] = tab.cols[c]
      /\ cols \in [DOMAIN cols -> ColumnTypes]
  BY <1>0, TableFacts DEF WithColumn
<1>2. q = Rebuilt(tab, cols, tab.key, tab.unique)
  BY AddedFields, ModifiedFields
<1> HIDE DEF cols
<1>3. q \in SchemaTables
  BY <1>0, <1>1, <1>2, RebuiltTable, TableFacts
<1>4. q.cols = cols /\ q.key = tab.key /\ q.unique = tab.unique /\ q.rows = tab.rows
  BY <1>2, RebuiltFields
<1> QED
  BY <1>1, <1>3, <1>4

(* And with a column of another name.                                       *)
LEMMA RenamedColumn ==
    ASSUME NEW tab \in SchemaTables, NEW s \in ColumnStatements, s.op = "renameColumn",
           s.c \in DOMAIN tab.cols, s.d \notin DOMAIN tab.cols,
           NEW q, q = ColumnChanged(tab, s)
    PROVE  /\ q \in SchemaTables /\ q.rows = tab.rows /\ s.c # s.d
           /\ q.key = RenamedIn(tab.key, s.c, s.d) /\ q.unique = RenamedIn(tab.unique, s.c, s.d)
           /\ DOMAIN q.cols = (DOMAIN tab.cols \ {s.c}) \cup {s.d} /\ q.cols[s.d] = tab.cols[s.c]
           /\ \A c \in DOMAIN q.cols \ {s.d} : q.cols[c] = tab.cols[c]
<1> DEFINE cols == Renamed(tab.cols, s.c, s.d)
           key == RenamedIn(tab.key, s.c, s.d)
           unique == RenamedIn(tab.unique, s.c, s.d)
<1>0. s.d \in SchemaColumns
  BY ColumnCases
<1>1. /\ DOMAIN cols = (DOMAIN tab.cols \ {s.c}) \cup {s.d} /\ cols[s.d] = tab.cols[s.c]
      /\ \A c \in DOMAIN cols \ {s.d} : cols[c] = tab.cols[c]
      /\ cols \in [DOMAIN cols -> ColumnTypes]
  BY <1>0, TableFacts DEF Renamed
<1>2. q = Rebuilt(tab, cols, key, unique)
  BY RenamedFields
<1>4. key \subseteq DOMAIN cols /\ unique \subseteq DOMAIN cols
  <2> HIDE DEF cols
  <2> QED
    BY <1>1, TableFacts DEF RenamedIn
<1> HIDE DEF cols, key, unique
<1>3. q \in SchemaTables
  BY <1>0, <1>1, <1>2, <1>4, RebuiltTable, TableFacts
<1>5. q.key = key /\ q.unique = unique /\ q.cols = cols /\ q.rows = tab.rows
  BY <1>2, RebuiltFields
<1> QED
  BY <1>1, <1>3, <1>5 DEF key, unique

(* After one a table is a table.                                            *)
LEMMA ChangedIsTable ==
    ASSUME NEW tab \in SchemaTables, NEW s \in ColumnStatements, ColumnFits(tab, s)
    PROVE  ColumnChanged(tab, s) \in SchemaTables
<1> DEFINE q == ColumnChanged(tab, s)
<1>0. q = ColumnChanged(tab, s)
  OBVIOUS
<1> HIDE DEF q
<1>1. CASE s.op = "dropColumn"
  BY <1>0, <1>1, Dropped
<1>2. CASE s.op \in {"add", "modify"}
  <2>1. s.op = "modify" => s.c \in DOMAIN tab.cols
    BY <1>2 DEF ColumnFits
  <2> QED
    BY <1>0, <1>2, <2>1, Added
<1>3. CASE s.op = "renameColumn"
  <2>1. s.c \in DOMAIN tab.cols /\ s.d \notin DOMAIN tab.cols
    BY <1>3 DEF ColumnFits
  <2> QED
    BY <1>0, <1>3, <2>1, RenamedColumn
<1> QED
  BY <1>1, <1>2, <1>3, ColumnCases DEF ColumnOps

(* What it names is there as it needs, and after it as it gives.            *)
LEMMA FitsColumns ==
    ASSUME NEW tab \in SchemaTables, NEW s \in ColumnStatements, ColumnFits(tab, s),
           NEW c, Names(s, c)
    PROVE  /\ c \in DOMAIN tab.cols <=> NeedsColumn(s, c)
           /\ c \in DOMAIN ColumnChanged(tab, s).cols <=> GivesColumn(s, c)
<1> DEFINE q == ColumnChanged(tab, s)
<1>0. q = ColumnChanged(tab, s)
  OBVIOUS
<1> HIDE DEF q
<1> USE DEF Names, NeedsColumn, GivesColumn, ColumnFits
<1>1. CASE s.op = "dropColumn"
  BY <1>0, <1>1, Dropped
<1>2. CASE s.op \in {"add", "modify"}
  <2>1. c = s.c /\ (s.op = "modify" => s.c \in DOMAIN tab.cols)
    BY <1>2
  <2>2. DOMAIN q.cols = DOMAIN tab.cols \cup {s.c}
    BY <1>0, <1>2, <2>1, Added
  <2> QED
    BY <1>0, <1>2, <2>1, <2>2
<1>4. CASE s.op = "renameColumn"
  BY <1>0, <1>4, RenamedColumn
<1> QED
  BY <1>1, <1>2, <1>4, ColumnCases DEF ColumnOps

(* Only a modified column is there before and after.                        *)
LEMMA StaysOnlyModified ==
    ASSUME NEW tab \in SchemaTables, NEW s \in ColumnStatements, ColumnFits(tab, s),
           NEW c, Names(s, c), NeedsColumn(s, c) <=> GivesColumn(s, c)
    PROVE  s.op = "modify" /\ NeedsColumn(s, c)
<1>1. s.op \in ColumnOps
  BY ColumnCases
<1>2. s.op = "renameColumn" => s.c # s.d
  BY DEF ColumnFits
<1> QED
  BY <1>1, <1>2 DEF Names, NeedsColumn, GivesColumn, ColumnOps

(* What it does not name stays.                                             *)
LEMMA ChangedElsewhere ==
    ASSUME NEW tab \in SchemaTables, NEW s \in ColumnStatements, ColumnFits(tab, s),
           NEW c, ~Names(s, c)
    PROVE  SameAt(tab, ColumnChanged(tab, s), c)
<1> DEFINE q == ColumnChanged(tab, s)
<1>0. q = ColumnChanged(tab, s) /\ s.op \in ColumnOps
  BY ColumnCases
<1> HIDE DEF q
<1>5. c # s.c /\ (s.op = "renameColumn" => c # s.d)
  BY <1>0 DEF Names
<1> USE DEF SameAt, ColumnFits
<1>1. CASE s.op = "dropColumn"
  BY <1>0, <1>1, <1>5, Dropped
<1>2. CASE s.op \in {"add", "modify"}
  <2>1. s.op = "modify" => s.c \in DOMAIN tab.cols
    BY <1>2
  <2>2. /\ q.rows = tab.rows /\ q.key = tab.key /\ q.unique = tab.unique
        /\ DOMAIN q.cols = DOMAIN tab.cols \cup {s.c}
        /\ \A x \in DOMAIN q.cols \ {s.c} : q.cols[x] = tab.cols[x]
    BY <1>0, <1>2, <2>1, Added
  <2> QED
    BY <1>0, <1>5, <2>2
<1>4. CASE s.op = "renameColumn"
  <2>1. s.c \in DOMAIN tab.cols /\ s.d \notin DOMAIN tab.cols
    BY <1>4
  <2>2. /\ q.rows = tab.rows
        /\ q.key = RenamedIn(tab.key, s.c, s.d) /\ q.unique = RenamedIn(tab.unique, s.c, s.d)
        /\ DOMAIN q.cols = (DOMAIN tab.cols \ {s.c}) \cup {s.d}
        /\ \A x \in DOMAIN q.cols \ {s.d} : q.cols[x] = tab.cols[x]
    BY <1>0, <1>4, <2>1, RenamedColumn
  <2> QED
    BY <1>0, <1>4, <1>5, <2>2 DEF RenamedIn
<1> QED
  BY <1>0, <1>1, <1>2, <1>4 DEF ColumnOps

(* Two tables that are the same in what it names are the same there after.  *)
LEMMA ChangedAlike ==
    ASSUME NEW p \in SchemaTables, NEW q \in SchemaTables, NEW s \in ColumnStatements,
           ColumnFits(p, s), ColumnFits(q, s), \A x : Names(s, x) => SameAt(p, q, x),
           NEW c, Names(s, c)
    PROVE  SameAt(ColumnChanged(p, s), ColumnChanged(q, s), c)
<1> DEFINE p2 == ColumnChanged(p, s)
           q2 == ColumnChanged(q, s)
<1>0. p2 = ColumnChanged(p, s) /\ q2 = ColumnChanged(q, s) /\ s.op \in ColumnOps /\ SameAt(p, q, s.c)
  BY ColumnCases DEF Names
<1>5. \/ c = s.c
      \/ s.op = "renameColumn" /\ c = s.d /\ SameAt(p, q, s.d)
  BY <1>0 DEF Names
<1> HIDE DEF p2, q2
<1>1. CASE s.op = "dropColumn"
  BY <1>0, <1>1, <1>5, Dropped DEF SameAt
<1>2. CASE s.op \in {"add", "modify"}
  <2>1. c = s.c /\ (s.op = "modify" => s.c \in DOMAIN p.cols /\ s.c \in DOMAIN q.cols)
    BY <1>2, <1>5 DEF ColumnFits
  <2>2. /\ p2.rows = p.rows /\ p2.key = p.key /\ p2.unique = p.unique
        /\ s.c \in DOMAIN p2.cols /\ p2.cols[s.c] = s.ty
    BY <1>0, <1>2, <2>1, Added
  <2>3. /\ q2.rows = q.rows /\ q2.key = q.key /\ q2.unique = q.unique
        /\ s.c \in DOMAIN q2.cols /\ q2.cols[s.c] = s.ty
    BY <1>0, <1>2, <2>1, Added
  <2> QED
    BY <1>0, <2>1, <2>2, <2>3 DEF SameAt
<1>4. CASE s.op = "renameColumn"
  <2>1. /\ s.c \in DOMAIN p.cols /\ s.c \in DOMAIN q.cols
        /\ s.d \notin DOMAIN p.cols /\ s.d \notin DOMAIN q.cols
    BY <1>4 DEF ColumnFits
  <2>2. s.d \notin p.key /\ s.d \notin q.key /\ s.d \notin p.unique /\ s.d \notin q.unique
    BY <2>1, TableFacts
  <2>3. /\ p2.rows = q2.rows /\ s.c # s.d
        /\ DOMAIN p2.cols = (DOMAIN p.cols \ {s.c}) \cup {s.d} /\ p2.cols[s.d] = p.cols[s.c]
        /\ DOMAIN q2.cols = (DOMAIN q.cols \ {s.c}) \cup {s.d} /\ q2.cols[s.d] = q.cols[s.c]
    BY <1>0, <1>4, <2>1, RenamedColumn DEF SameAt
  <2>4. /\ p2.key = RenamedIn(p.key, s.c, s.d) /\ p2.unique = RenamedIn(p.unique, s.c, s.d)
        /\ q2.key = RenamedIn(q.key, s.c, s.d) /\ q2.unique = RenamedIn(q.unique, s.c, s.d)
    BY <1>0, <1>4, <2>1, RenamedColumn
  <2>5. c \in p2.key <=> c \in q2.key
    BY <1>0, <1>5, <2>2, <2>4, <2>3 DEF RenamedIn, SameAt
  <2>6. c \in p2.unique <=> c \in q2.unique
    BY <1>0, <1>5, <2>2, <2>4, <2>3 DEF RenamedIn, SameAt
  <2>7. /\ c \in DOMAIN p2.cols <=> c \in DOMAIN q2.cols
        /\ c \in DOMAIN p2.cols => p2.cols[c] = q2.cols[c]
    BY <1>0, <1>5, <2>1, <2>3 DEF SameAt
  <2> QED
    BY <1>0, <2>3, <2>5, <2>6, <2>7 DEF SameAt
<1> QED
  BY <1>0, <1>1, <1>2, <1>4 DEF ColumnOps

-----------------------------------------------------------------------------
SchemaMaps == [TableNames -> SchemaTables \cup {NoTable}]

(* The kinds of statements on a table.                                      *)
LEMMA StatementFacts ==
    ASSUME NEW s \in SchemaStatements
    PROVE  /\ s.t \in TableNames
           /\ s.op \in ColumnOps => s \in ColumnStatements
           /\ s.op \in {"like", "fill"} => s.from \in TableNames
           /\ s.op = "rename" => s.to \in TableNames
           /\ s.op = "create" => s.def \in SchemaTables
BY DEF SchemaStatements, TableStatements, ColumnStatements, ColumnOps

(* What a statement makes of a table, case by case.                         *)
LEMMA OnTableCases ==
    ASSUME NEW tabs, NEW s
    PROVE  /\ s.op = "create" => OnTable(tabs, s) = IF Has(tabs, s.t) THEN tabs[s.t] ELSE s.def
           /\ s.op = "drop" => OnTable(tabs, s) = NoTable
           /\ s.op = "truncate" => OnTable(tabs, s) = [tabs[s.t] EXCEPT !.rows = 0]
           /\ s.op = "like" => OnTable(tabs, s) = [tabs[s.from] EXCEPT !.rows = 0]
           /\ s.op = "fill" =>
                OnTable(tabs, s) = [tabs[s.t] EXCEPT !.rows = tabs[s.t].rows + tabs[s.from].rows]
           /\ s.op \in ColumnOps => OnTable(tabs, s) = ColumnChanged(tabs[s.t], s)
           /\ s.op = "dropIndex" =>
                OnTable(tabs, s) = [tabs[s.t] EXCEPT !.unique = tabs[s.t].unique \ {s.c}]
           /\ s.op = "dropKey" => OnTable(tabs, s) = [tabs[s.t] EXCEPT !.key = {}]
           /\ s.op = "addKey" => OnTable(tabs, s) = [tabs[s.t] EXCEPT !.key = {s.c, Revision}]
<1> DEFINE a1 == IF Has(tabs, s.t) THEN tabs[s.t] ELSE s.def
           a2 == NoTable
           a3 == [tabs[s.t] EXCEPT !.rows = 0]
           a4 == [tabs[s.from] EXCEPT !.rows = 0]
           a5 == [tabs[s.t] EXCEPT !.rows = tabs[s.t].rows + tabs[s.from].rows]
           a6 == ColumnChanged(tabs[s.t], s)
           a7 == [tabs[s.t] EXCEPT !.unique = tabs[s.t].unique \ {s.c}]
           a8 == [tabs[s.t] EXCEPT !.key = {}]
           a9 == [tabs[s.t] EXCEPT !.key = {s.c, Revision}]
<1>1. OnTable(tabs, s) = CASE s.op = "create" -> a1
                           [] s.op = "drop" -> a2
                           [] s.op = "truncate" -> a3
                           [] s.op = "like" -> a4
                           [] s.op = "fill" -> a5
                           [] s.op \in ColumnOps -> a6
                           [] s.op = "dropIndex" -> a7
                           [] s.op = "dropKey" -> a8
                           [] s.op = "addKey" -> a9
  BY Zenon DEF OnTable
<1> HIDE DEF a1, a2, a3, a4, a5, a6, a7, a8, a9
<1>2. /\ s.op = "create" => OnTable(tabs, s) = a1
      /\ s.op = "drop" => OnTable(tabs, s) = a2
      /\ s.op = "truncate" => OnTable(tabs, s) = a3
      /\ s.op = "like" => OnTable(tabs, s) = a4
      /\ s.op = "fill" => OnTable(tabs, s) = a5
      /\ s.op \in ColumnOps => OnTable(tabs, s) = a6
      /\ s.op = "dropIndex" => OnTable(tabs, s) = a7
      /\ s.op = "dropKey" => OnTable(tabs, s) = a8
      /\ s.op = "addKey" => OnTable(tabs, s) = a9
  BY <1>1 DEF ColumnOps
<1> QED
  BY <1>2, Zenon DEF a1, a2, a3, a4, a5, a6, a7, a8, a9

(* What a statement makes of a table is one, or none.                       *)
LEMMA OnTableType ==
    ASSUME NEW tabs \in SchemaMaps, NEW s \in SchemaStatements, Accepts(tabs, s), s.op # "rename"
    PROVE  OnTable(tabs, s) \in SchemaTables \cup {NoTable}
<1> DEFINE tab == tabs[s.t]
<1>0. s.t \in TableNames /\ tab \in SchemaTables \cup {NoTable}
  BY StatementFacts DEF SchemaMaps
<1> USE DEF Accepts, Has
<1>1. CASE s.op = "create"
  BY <1>0, <1>1, StatementFacts, OnTableCases DEF Has
<1>2. CASE s.op = "drop"
  BY <1>2, OnTableCases
<1>3. CASE s.op = "truncate"
  <2>1. tab \in SchemaTables
    BY <1>0, <1>3 DEF ColumnOps
  <2> QED
    BY <1>3, <2>1, RowsKeepTable, OnTableCases
<1>4. CASE s.op = "like"
  <2>1. tabs[s.from] \in SchemaTables
    BY <1>4, StatementFacts DEF SchemaMaps, ColumnOps
  <2> QED
    BY <1>4, <2>1, RowsKeepTable, OnTableCases
<1>5. CASE s.op = "fill"
  <2>1. tabs[s.from] \in SchemaTables /\ tab \in SchemaTables
    BY <1>0, <1>5, StatementFacts DEF SchemaMaps, ColumnOps
  <2>2. tab.rows + tabs[s.from].rows \in Nat
    BY <2>1, TableFacts
  <2> QED
    BY <1>5, <2>1, <2>2, RowsKeepTable, OnTableCases
<1>6. CASE s.op \in ColumnOps
  <2>1. tab \in SchemaTables /\ ColumnFits(tab, s)
    BY <1>0, <1>6 DEF ColumnOps
  <2>2. OnTable(tabs, s) = ColumnChanged(tab, s)
    BY <1>6, OnTableCases
  <2> QED
    BY <1>6, <2>1, <2>2, ChangedIsTable, StatementFacts
<1>7. CASE s.op \in {"dropIndex", "dropKey", "addKey"}
  <2>1. tab \in SchemaTables
    BY <1>0, <1>7 DEF ColumnOps
  <2>2. PICK key \in SUBSET DOMAIN tab.cols, unique \in SUBSET DOMAIN tab.cols :
          OnTable(tabs, s) = Rebuilt(tab, tab.cols, key, unique)
    <3>1. CASE s.op = "dropIndex"
      <4>1. OnTable(tabs, s) = Rebuilt(tab, tab.cols, tab.key, tab.unique \ {s.c})
        BY <2>1, <3>1, TableFacts, OnTableCases DEF Rebuilt
      <4> QED
        BY <2>1, <4>1, TableFacts
    <3>2. CASE s.op = "dropKey"
      <4>1. OnTable(tabs, s) = Rebuilt(tab, tab.cols, {}, tab.unique)
        BY <2>1, <3>2, TableFacts, OnTableCases DEF Rebuilt
      <4> QED
        BY <2>1, <4>1, TableFacts
    <3>3. CASE s.op = "addKey"
      <4>1. OnTable(tabs, s) = Rebuilt(tab, tab.cols, {s.c, Revision}, tab.unique)
        BY <2>1, <3>3, TableFacts, OnTableCases DEF Rebuilt
      <4>2. {s.c, Revision} \subseteq DOMAIN tab.cols
        BY <3>3 DEF ColumnOps
      <4> QED
        BY <2>1, <4>1, <4>2, TableFacts
    <3> QED
      BY <1>7, <3>1, <3>2, <3>3
  <2> QED
    BY <2>1, <2>2, RebuiltTable, TableFacts
<1> QED
  BY <1>1, <1>2, <1>3, <1>4, <1>5, <1>6, <1>7 DEF ColumnOps

(* After an accepted statement the tables are tables.                       *)
LEMMA AfterType ==
    ASSUME NEW tabs \in SchemaMaps, NEW s \in SchemaStatements, Accepts(tabs, s)
    PROVE  After(tabs, s) \in SchemaMaps
<1>1. CASE s.op = "rename"
  BY <1>1, StatementFacts DEF After, SchemaMaps
<1>2. CASE s.op # "rename"
  <2>1. OnTable(tabs, s) \in SchemaTables \cup {NoTable}
    BY <1>2, OnTableType
  <2> QED
    BY <1>2, <2>1, StatementFacts DEF After, SchemaMaps
<1> QED
  BY <1>1, <1>2

-----------------------------------------------------------------------------
(* SetToSeq lists a finite set.                                             *)
LEMMA SetListed ==
    ASSUME NEW S, IsFiniteSet(S)
    PROVE  Cardinality(S) \in Nat /\ Seqs!SetToSeq(S) \in [1..Cardinality(S) -> S]
<1>1. Cardinality(S) \in Nat
  BY FS_CardinalityType
<1>2. ExistsBijection(1..Cardinality(S), S)
  BY FS_CardinalityType
<1>3. PICK f \in [1..Cardinality(S) -> S] : \A x, y \in 1..Cardinality(S) : f[x] = f[y] => x = y
  BY <1>2 DEF ExistsBijection, Bijection, Injection, Surjection, IsInjective
<1>0. Seqs!Cardinality(S) = Cardinality(S)
  BY Zenon DEF Seqs!Cardinality, Cardinality
<1>4. Seqs!SetToSeq(S) \in [1..Cardinality(S) -> S]
  BY <1>0, <1>3 DEF Seqs!SetToSeq, Seqs!IsInjective
<1> QED
  BY <1>1, <1>4

(* The statements of an alteration: all about the table and its columns.    *)
AlterColumnStatements ==
    [op : {"dropColumn"}, t : {Target}, c : Columns]
    \cup [op : {"add", "modify"}, t : {Target}, c : Columns, ty : ColumnTypes]
    \cup [op : {"renameColumn"}, t : {Target}, c : Columns, d : Columns]
AlterRenames == [op : {"rename"}, t : {Target}, to : Tables \ {Target}]
AlterStatements == AlterColumnStatements \cup AlterRenames

(* The tables a program uses are named.                                     *)
LEMMA TargetNamed == Target \in TableNames /\ Tables \subseteq TableNames
BY SchemaAssumption DEF TableNames

(* They are statements.                                                     *)
LEMMA AlterAreStatements ==
    /\ AlterColumnStatements \subseteq ColumnStatements
    /\ AlterRenames \subseteq TableStatements
    /\ AlterStatements \subseteq SchemaStatements
<1>1. AlterColumnStatements \subseteq ColumnStatements
  BY TargetNamed DEF AlterColumnStatements, ColumnStatements, SchemaColumns
<1>2. AlterRenames \subseteq TableStatements
  BY TargetNamed DEF AlterRenames, TableStatements
<1> QED
  BY <1>1, <1>2 DEF AlterStatements, SchemaStatements

(* A change of a column becomes a statement about it.                       *)
LEMMA AlteredIsStatement ==
    ASSUME NEW a \in ColumnAlterations
    PROVE  AlteredColumn(Target, a) \in AlterColumnStatements
<1>1. CASE a.op = "renameColumn"
  BY <1>1 DEF ColumnAlterations, AlteredColumn, AlterColumnStatements
<1>2. CASE a.op # "renameColumn"
  BY <1>2 DEF ColumnAlterations, AlteredColumn, AlterColumnStatements
<1> QED
  BY <1>1, <1>2

(* An alteration compiles to such statements, one at least, one rename at   *)
(* most.                                                                    *)
LEMMA AlterCompiled ==
    ASSUME NEW b \in Alterations
    PROVE  /\ b.kind = "alter" /\ AlterOf(b) \in Seq(AlterStatements) /\ Len(AlterOf(b)) # 0
           /\ \A i, j \in DOMAIN AlterOf(b) :
                 AlterOf(b)[i].op = "rename" /\ AlterOf(b)[j].op = "rename" => i = j
<1> DEFINE drops == Seqs!SetToSeq(b.drops)
           A == [k \in DOMAIN drops |-> [op |-> "dropColumn", t |-> b.t, c |-> drops[k]]]
           B == [k \in 1..Cardinality(b.to) |-> [op |-> "rename", t |-> b.t, to |-> CHOOSE u \in b.to : TRUE]]
           C == [k \in DOMAIN b.cols |-> AlteredColumn(b.t, b.cols[k])]
           m == Cardinality(b.drops)
           n == Len(b.cols)
           r == Cardinality(b.to)
           S == AlterStatements
<1>1. /\ b.kind = "alter" /\ b.t = Target /\ b.drops \in SUBSET Columns
      /\ b.to \in {{}} \cup {{u} : u \in Tables \ {Target}}
      /\ b.cols \in Seqs!BoundedSeq(ColumnAlterations, MaxParts)
      /\ m + r + n \in 1..MaxParts
  BY DEF Alterations
<1>2. n \in Nat /\ b.cols \in [1..n -> ColumnAlterations]
  <2>1. PICK k \in Nat : b.cols \in [1..k -> ColumnAlterations]
    BY <1>1, SchemaAssumption DEF Seqs!BoundedSeq, Seqs!SeqOf
  <2>2. b.cols \in Seq(ColumnAlterations) /\ n = k
    BY <2>1, FunctionIsSeq
  <2> QED
    BY <2>1, <2>2
<1>3. IsFiniteSet(b.drops)
  BY <1>1, FS_Subset, SchemaAssumption
<1>4. m \in Nat /\ drops \in [1..m -> b.drops]
  BY <1>3, SetListed
<1>5. r \in {0, 1} /\ (r = 1 => \E u \in Tables \ {Target} : b.to = {u})
  <2>1. CASE b.to = {}
    BY <2>1, FS_EmptySet
  <2>2. CASE b.to # {}
    <3>1. PICK u \in Tables \ {Target} : b.to = {u}
      BY <1>1, <2>2
    <3>2. Cardinality({u}) = 1
      BY FS_Singleton
    <3> QED
      BY <3>1, <3>2
  <2> QED
    BY <2>1, <2>2
<1>6. r = 1 => (CHOOSE u \in b.to : TRUE) \in Tables \ {Target}
  BY <1>5
<1> HIDE DEF drops, m, n, r
<1>7. A \in [1..m -> AlterColumnStatements]
  BY <1>1, <1>4 DEF AlterColumnStatements
<1>8. B \in [1..r -> AlterRenames]
  BY <1>1, <1>5, <1>6 DEF AlterRenames, r
<1>9. C \in [1..n -> AlterColumnStatements]
  BY <1>1, <1>2, AlteredIsStatement
<1>10. AlterOf(b) = (A \o B) \o C
  BY Zenon DEF AlterOf, drops
<1> HIDE DEF A, B, C, S
<1>11. /\ A \in Seq(S) /\ Len(A) = m /\ DOMAIN A = 1..m
       /\ B \in Seq(S) /\ Len(B) = r /\ DOMAIN B = 1..r
       /\ C \in Seq(S) /\ Len(C) = n /\ DOMAIN C = 1..n
  <2>1. A \in [1..m -> S] /\ B \in [1..r -> S] /\ C \in [1..n -> S]
    BY <1>7, <1>8, <1>9 DEF S, AlterStatements
  <2> QED
    BY <1>2, <1>4, <1>5, <2>1, FunctionIsSeq
<1>12. /\ A \o B \in Seq(S) /\ Len(A \o B) = m + r
       /\ \A i \in 1..m + r : (A \o B)[i] = IF i <= m THEN A[i] ELSE B[i - m]
  <2>1. /\ A \o B \in Seq(S) /\ Len(A \o B) = Len(A) + Len(B)
        /\ \A i \in 1..Len(A) + Len(B) : (A \o B)[i] = IF i <= Len(A) THEN A[i] ELSE B[i - Len(A)]
    BY <1>11, ConcatProperties, Zenon
  <2> QED
    BY <1>11, <2>1, Zenon
<1> DEFINE AB == A \o B
<1> HIDE DEF AB
<1>13. /\ AB \o C \in Seq(S) /\ Len(AB \o C) = m + r + n
       /\ \A i \in 1..m + r + n :
             (AB \o C)[i] = IF i <= m + r THEN AB[i] ELSE C[i - (m + r)]
  <2>1. AB \in Seq(S) /\ Len(AB) = m + r
    BY <1>12 DEF AB
  <2>0. AB \in Seq(S) /\ C \in Seq(S)
    BY <1>11, <2>1
  <2>2. /\ AB \o C \in Seq(S) /\ Len(AB \o C) = Len(AB) + Len(C)
        /\ \A i \in 1..Len(AB) + Len(C) : (AB \o C)[i] = IF i <= Len(AB) THEN AB[i] ELSE C[i - Len(AB)]
    BY <2>0, ConcatProperties, Zenon
  <2> QED
    BY <1>11, <2>1, <2>2, Zenon
<1> DEFINE all == AB \o C
<1>14. AlterOf(b) = all
  BY <1>10 DEF AB
<1> HIDE DEF all
<1>15. /\ all \in Seq(S) /\ Len(all) # 0 /\ DOMAIN all = 1..Len(all)
       /\ Len(all) = m + r + n
  BY <1>1, <1>13, LenProperties DEF all
<1>16. ASSUME NEW i \in DOMAIN all, all[i].op = "rename"
       PROVE  i = m + 1
  <2>1. CASE i <= m
    <3>1. all[i] = A[i] /\ i \in 1..m
      BY <1>4, <1>5, <1>12, <1>13, <1>15, <2>1 DEF all, AB
    <3> QED
      BY <1>7, <1>16, <3>1 DEF AlterColumnStatements
  <2>2. CASE i > m + r
    <3>0. i \in 1..m + r + n /\ ~(i <= m + r)
      BY <1>2, <1>4, <1>5, <1>15, <2>2
    <3>1. all[i] = C[i - (m + r)] /\ i - (m + r) \in 1..n
      BY <1>2, <1>4, <1>5, <1>13, <3>0 DEF all
    <3> QED
      BY <1>9, <1>16, <3>1 DEF AlterColumnStatements
  <2> QED
    BY <1>4, <1>5, <1>15, <2>1, <2>2
<1> QED
  BY <1>1, <1>14, <1>15, <1>16 DEF S

(* A CREATE TABLE describes a table, with keys on columns there are.        *)
LEMMA CreateFacts ==
    ASSUME NEW b \in Creates, WellMade(b)
    PROVE  /\ b.kind = "create" /\ b.t = Target /\ b.lenient \in BOOLEAN
           /\ b.def \in SchemaTables /\ b.def.key \subseteq Columns /\ b.def.unique \subseteq Columns
<1>1. PICK cols \in SUBSET Columns, key \in SUBSET Columns, unique \in SUBSET Columns :
        /\ b.kind = "create" /\ b.t = Target /\ b.lenient \in BOOLEAN
        /\ b.def = TableOf(cols, key, unique)
  BY DEF Creates
<1>2. AnyType \in ColumnTypes
  BY SchemaAssumption DEF AnyType
<1> DEFINE new == [c \in cols |-> AnyType]
<1>3. new \in [cols -> ColumnTypes] /\ DOMAIN new = cols
  BY <1>2
<1>4. b.def = [cols |-> new, key |-> key, unique |-> unique, rows |-> 0]
  BY <1>1 DEF TableOf
<1> HIDE DEF new
<1>5. b.def.key = key /\ b.def.unique = unique /\ b.def.cols = new
  BY <1>4
<1>6. key \subseteq cols /\ unique \subseteq cols
  BY <1>3, <1>5 DEF WellMade
<1>7. b.def \in SchemaTables
  BY <1>3, <1>4, <1>6, MakesTable DEF SchemaColumns
<1> QED
  BY <1>1, <1>5, <1>7

(* The kinds of builders, by what they compile to.                          *)
Tracked(b) == b.kind = "create" /\ b.tracked /\ MySql
DeepClone(b) == b.kind = "clone" /\ b.deep

(* Every builder is of one of them.                                         *)
LEMMA BuilderKinds ==
    ASSUME NEW b \in Builders
    PROVE  \/ b \in Creates /\ WellMade(b) /\ b.kind = "create"
           \/ b \in TableCalls /\ b.kind \in {"drop", "truncate", "clone"}
           \/ b \in Alterations /\ b.kind = "alter"
<1>1. b \in Creates => b.kind = "create"
  BY DEF Creates
<1>2. b \in TableCalls => b.kind \in {"drop", "truncate", "clone"}
  BY DEF TableCalls
<1>3. b \in Alterations => b.kind = "alter"
  BY DEF Alterations
<1> QED
  BY <1>1, <1>2, <1>3, Zenon DEF Builders

(* What a builder compiles to, case by case.                                *)
LEMMA CompiledCases ==
    ASSUME NEW b
    PROVE  /\ b.kind = "create" =>
                Compiled(b) = <<[op |-> "create", t |-> b.t, def |-> b.def, lenient |-> b.lenient]>>
                              \o (IF b.tracked /\ MySql THEN HistoryOf(b) ELSE <<>>)
           /\ b.kind = "clone" => Compiled(b) = CloneOf(b)
           /\ b.kind = "alter" => Compiled(b) = AlterOf(b)
           /\ b.kind = "drop" => Compiled(b) = <<[op |-> "drop", t |-> b.t, lenient |-> b.lenient]>>
           /\ b.kind = "truncate" => Compiled(b) = <<[op |-> "truncate", t |-> b.t]>>
           /\ b.kind = "none" => Compiled(b) = <<>>
<1> DEFINE a1 == <<[op |-> "create", t |-> b.t, def |-> b.def, lenient |-> b.lenient]>>
                   \o (IF b.tracked /\ MySql THEN HistoryOf(b) ELSE <<>>)
           a2 == CloneOf(b)
           a3 == AlterOf(b)
           a4 == <<[op |-> "drop", t |-> b.t, lenient |-> b.lenient]>>
           a5 == <<[op |-> "truncate", t |-> b.t]>>
           a6 == <<>>
<1>1. Compiled(b) = CASE b.kind = "create" -> a1
                      [] b.kind = "clone" -> a2
                      [] b.kind = "alter" -> a3
                      [] b.kind = "drop" -> a4
                      [] b.kind = "truncate" -> a5
                      [] b.kind = "none" -> a6
  BY Zenon DEF Compiled
<1> HIDE DEF a1, a2, a3, a4, a5, a6
<1>2. /\ b.kind = "create" => Compiled(b) = a1
      /\ b.kind = "clone" => Compiled(b) = a2
      /\ b.kind = "alter" => Compiled(b) = a3
      /\ b.kind = "drop" => Compiled(b) = a4
      /\ b.kind = "truncate" => Compiled(b) = a5
      /\ b.kind = "none" => Compiled(b) = a6
  BY <1>1
<1> QED
  BY <1>2, Zenon DEF a1, a2, a3, a4, a5, a6

(* The builders of one statement.                                           *)
LEMMA SingleCompiled ==
    ASSUME NEW b \in Builders, b.kind # "alter", ~Tracked(b), ~DeepClone(b)
    PROVE  \E s \in SchemaStatements : Compiled(b) = <<s>>
<1>1. CASE b.kind = "create"
  <2>1. b \in Creates /\ WellMade(b)
    BY <1>1, BuilderKinds
  <2> DEFINE s == [op |-> "create", t |-> b.t, def |-> b.def, lenient |-> b.lenient]
  <2>2. s \in SchemaStatements
    BY <2>1, CreateFacts, TargetNamed DEF SchemaStatements, TableStatements
  <2>3. Compiled(b) = <<s>> \o <<>>
    BY <1>1, CompiledCases, Zenon DEF Tracked
  <2> HIDE DEF s
  <2>4. <<s>> \in Seq(SchemaStatements)
    BY <2>2
  <2>5. <<s>> \o <<>> = <<s>>
    BY <2>4, ConcatEmptySeq, Zenon
  <2> QED
    BY <2>2, <2>3, <2>5
<1>2. CASE b.kind = "clone"
  <2>1. b.t = Target /\ b.from \in Tables \ {Target}
    BY <1>2, BuilderKinds DEF TableCalls
  <2> DEFINE s == [op |-> "like", t |-> b.t, from |-> b.from]
  <2>2. s \in SchemaStatements
    BY <2>1, TargetNamed DEF SchemaStatements, TableStatements
  <2>3. Compiled(b) = <<s>> \o <<>>
    BY <1>2, CompiledCases, Zenon DEF DeepClone, CloneOf
  <2> HIDE DEF s
  <2>4. <<s>> \in Seq(SchemaStatements)
    BY <2>2
  <2>5. <<s>> \o <<>> = <<s>>
    BY <2>4, ConcatEmptySeq, Zenon
  <2> QED
    BY <2>2, <2>3, <2>5
<1>3. CASE b.kind = "drop"
  <2>1. b.t = Target /\ b.lenient \in BOOLEAN
    BY <1>3, BuilderKinds DEF TableCalls
  <2>2. [op |-> "drop", t |-> b.t, lenient |-> b.lenient] \in SchemaStatements
    BY <2>1, TargetNamed DEF SchemaStatements, TableStatements
  <2> QED
    BY <1>3, <2>2, CompiledCases, Zenon
<1>4. CASE b.kind = "truncate"
  <2>1. b.t = Target
    BY <1>4, BuilderKinds DEF TableCalls
  <2>2. [op |-> "truncate", t |-> b.t] \in SchemaStatements
    BY <2>1, TargetNamed DEF SchemaStatements, TableStatements
  <2> QED
    BY <1>4, <2>2, CompiledCases, Zenon
<1> QED
  BY <1>1, <1>2, <1>3, <1>4, BuilderKinds

(* A deep clone: the table like the other, and its rows.                    *)
LEMMA CloneCompiled ==
    ASSUME NEW b \in Builders, DeepClone(b)
    PROVE  /\ b.t = Target /\ b.from \in Tables \ {Target}
           /\ Compiled(b) = <<[op |-> "like", t |-> b.t, from |-> b.from],
                              [op |-> "fill", t |-> b.t, from |-> b.from]>>
           /\ Compiled(b) \in Seq(SchemaStatements)
<1>1. b.t = Target /\ b.from \in Tables \ {Target} /\ b.kind = "clone"
  BY BuilderKinds DEF TableCalls, DeepClone
<1> DEFINE s == [op |-> "like", t |-> b.t, from |-> b.from]
           u == [op |-> "fill", t |-> b.t, from |-> b.from]
<1>2. s \in SchemaStatements /\ u \in SchemaStatements
  BY <1>1, TargetNamed DEF SchemaStatements, TableStatements
<1>3. Compiled(b) = <<s>> \o <<u>>
  BY <1>1, CompiledCases, Zenon DEF DeepClone, CloneOf
<1> HIDE DEF s, u
<1> DEFINE S == SchemaStatements
<1> HIDE DEF S
<1>4. <<s>> \o <<u>> = <<s, u>> /\ <<s, u>> \in Seq(S)
  <2>1. s \in S /\ u \in S
    BY <1>2 DEF S
  <2>2. <<s>> \in Seq(S) /\ <<u>> \in Seq(S) /\ <<s, u>> \in Seq(S)
    BY <2>1
  <2>3. <<s>> \o <<u>> = <<s, u>>
    <3> DEFINE x == <<s>> \o <<u>>
    <3>1. /\ x \in Seq(S) /\ Len(x) = Len(<<s>>) + Len(<<u>>)
          /\ \A i \in 1..Len(<<s>>) + Len(<<u>>) :
                x[i] = IF i <= Len(<<s>>) THEN <<s>>[i] ELSE <<u>>[i - Len(<<s>>)]
      BY <2>2, ConcatProperties, Zenon
    <3> HIDE DEF x
    <3>2. Len(x) = 2 /\ x[1] = s /\ x[2] = u
      BY <3>1
    <3>3. x = <<s, u>>
      BY <3>1, <3>2, <2>2
    <3> QED
      BY <3>3 DEF x
  <2> QED
    BY <2>2, <2>3
<1>5. Compiled(b) = <<s, u>>
  BY <1>3, <1>4
<1> QED
  BY <1>1, <1>4, <1>5, Zenon DEF s, u, S

(* A table with history compiles to statements, one of which makes triggers.*)
LEMMA TrackedCompiled ==
    ASSUME NEW b \in Builders, Tracked(b), Compiles(b)
    PROVE  /\ Compiled(b) \in Seq(SchemaStatements)
           /\ \E i \in DOMAIN Compiled(b) : Compiled(b)[i].op = "triggers"
<1>1. b \in Creates /\ WellMade(b) /\ b.kind = "create" /\ b.def.key # {}
  BY BuilderKinds DEF Tracked, Compiles
<1> DEFINE h == History(b.t)
           pk == CHOOSE c \in b.def.key : TRUE
           list == Seqs!SetToSeq(b.def.unique)
           m == Cardinality(b.def.unique)
           S == SchemaStatements
           A == <<[op |-> "create", t |-> b.t, def |-> b.def, lenient |-> b.lenient]>>
           B == <<[op |-> "like", t |-> h, from |-> b.t]>>
           C == [k \in 1..m |-> [op |-> "dropIndex", t |-> h, c |-> list[k]]]
           E == <<[op |-> "dropKey", t |-> h, c |-> pk],
                  [op |-> "add", t |-> h, c |-> Revision, ty |-> AnyType],
                  [op |-> "addKey", t |-> h, c |-> pk],
                  [op |-> "triggers", t |-> h]>>
<1>2. h \in TableNames /\ b.t \in TableNames
  BY <1>1, CreateFacts, SchemaAssumption DEF TableNames
<1>3. pk \in SchemaColumns /\ Revision \in SchemaColumns
  BY <1>1, CreateFacts DEF SchemaColumns
<1>4. m \in Nat /\ list \in [1..m -> b.def.unique] /\ b.def.unique \subseteq SchemaColumns
  <2>1. b.def.unique \subseteq Columns
    BY <1>1, CreateFacts
  <2>2. IsFiniteSet(b.def.unique)
    BY <2>1, FS_Subset, SchemaAssumption
  <2> QED
    BY <2>1, <2>2, SetListed DEF SchemaColumns
<1>5. AnyType \in ColumnTypes
  BY SchemaAssumption DEF AnyType
<1>6. Compiled(b) = A \o (((B \o C) \o E))
  <2>1. HistoryOf(b) = (B \o C) \o E
    BY Zenon DEF HistoryOf
  <2> HIDE DEF A, B, C, E
  <2> QED
    BY <1>1, <2>1, CompiledCases, Zenon DEF Tracked, A
<1> HIDE DEF h, pk, list, m
<1>7. A \in Seq(S) /\ B \in Seq(S)
  <2>1. /\ [op |-> "create", t |-> b.t, def |-> b.def, lenient |-> b.lenient] \in S
        /\ [op |-> "like", t |-> h, from |-> b.t] \in S
    BY <1>1, <1>2, CreateFacts DEF SchemaStatements, TableStatements
  <2> HIDE DEF S
  <2> QED
    BY <2>1
<1>8. C \in Seq(S)
  <2>1. \A k \in 1..m : [op |-> "dropIndex", t |-> h, c |-> list[k]] \in S
    BY <1>2, <1>4 DEF SchemaStatements, TableStatements
  <2> HIDE DEF S
  <2>2. C \in [1..m -> S]
    BY <2>1
  <2> QED
    BY <1>4, <2>2, FunctionIsSeq
<1>9. E \in Seq(S) /\ Len(E) = 4 /\ E[4].op = "triggers"
  <2>1. /\ [op |-> "dropKey", t |-> h, c |-> pk] \in S
        /\ [op |-> "add", t |-> h, c |-> Revision, ty |-> AnyType] \in S
        /\ [op |-> "addKey", t |-> h, c |-> pk] \in S
        /\ [op |-> "triggers", t |-> h] \in S
    BY <1>2, <1>3, <1>5 DEF SchemaStatements, TableStatements, ColumnStatements
  <2> HIDE DEF S
  <2> QED
    BY <2>1
<1> DEFINE X == (B \o C) \o E
           all == A \o X
<1> HIDE DEF A, B, C, E, S
<1>10. X \in Seq(S) /\ Len(X) \in Nat /\ Len(X) - 4 \in Nat /\ X[Len(X)] = E[4]
  <2>1. B \o C \in Seq(S)
    BY <1>7, <1>8, ConcatProperties
  <2> DEFINE Y == B \o C
  <2>2. Y \in Seq(S) /\ Len(Y) \in Nat
    BY <2>1, LenProperties
  <2> HIDE DEF Y
  <2>3. /\ Y \o E \in Seq(S) /\ Len(Y \o E) = Len(Y) + Len(E)
        /\ \A i \in 1..Len(Y) + Len(E) : (Y \o E)[i] = IF i <= Len(Y) THEN Y[i] ELSE E[i - Len(Y)]
    BY <1>9, <2>2, ConcatProperties
  <2>4. (Y \o E)[Len(Y) + 4] = E[4]
    BY <1>9, <2>2, <2>3
  <2> QED
    BY <1>9, <2>2, <2>3, <2>4 DEF Y
<1> HIDE DEF X
<1>11. /\ all \in Seq(S) /\ Len(all) = Len(A) + Len(X) /\ Len(A) \in Nat
       /\ \A i \in 1..Len(A) + Len(X) : all[i] = IF i <= Len(A) THEN A[i] ELSE X[i - Len(A)]
  BY <1>7, <1>10, ConcatProperties, LenProperties
<1>12. Compiled(b) = all
  BY <1>6 DEF X
<1> HIDE DEF all
<1>13. Len(all) \in DOMAIN all /\ all[Len(all)] = E[4]
  BY <1>10, <1>11, LenProperties
<1> QED
  BY <1>9, <1>11, <1>12, <1>13 DEF S

(* Whatever a builder compiles to are statements.                           *)
LEMMA CompiledType ==
    ASSUME NEW b \in Builders, Compiles(b)
    PROVE  Compiled(b) \in Seq(SchemaStatements)
<1>1. CASE b.kind = "alter"
  <2>1. Compiled(b) \in Seq(AlterStatements)
    BY <1>1, AlterCompiled, BuilderKinds, CompiledCases
  <2> QED
    BY <2>1, AlterAreStatements
<1>2. CASE Tracked(b)
  BY <1>2, TrackedCompiled
<1>3. CASE DeepClone(b)
  BY <1>3, CloneCompiled
<1>4. CASE b.kind # "alter" /\ ~Tracked(b) /\ ~DeepClone(b)
  <2>1. PICK s \in SchemaStatements : Compiled(b) = <<s>>
    BY <1>4, SingleCompiled
  <2> QED
    BY <2>1
<1> QED
  BY <1>1, <1>2, <1>3, <1>4

-----------------------------------------------------------------------------
(* after is what AfterFirst computes.                                       *)
AskSteps(after, tabs, stmts) ==
    after = [k \in 0..Len(stmts) |->
               IF k = 0 THEN tabs
               ELSE IF Accepts(after[k - 1], Aimed(stmts, k)) THEN After(after[k - 1], Aimed(stmts, k))
               ELSE after[k - 1]]

(* A statement aimed at the new name is a statement.                        *)
LEMMA AimedType ==
    ASSUME NEW stmts \in Seq(SchemaStatements), NEW k \in 1..Len(stmts)
    PROVE  Aimed(stmts, k) \in SchemaStatements
<1>1. Len(stmts) \in Nat /\ stmts \in [1..Len(stmts) -> SchemaStatements]
  BY LenProperties
<1>2. CASE NewNames(stmts, k - 1) = {}
  BY <1>1, <1>2 DEF Aimed
<1>3. CASE NewNames(stmts, k - 1) # {}
  <2> DEFINE u == CHOOSE x \in NewNames(stmts, k - 1) : TRUE
  <2>1. u \in NewNames(stmts, k - 1)
    BY <1>3
  <2>2. u \in TableNames
    <3>1. PICK j \in 1..(k - 1) : stmts[j].op = "rename" /\ u = stmts[j].to
      BY <2>1 DEF NewNames
    <3>2. stmts[j] \in SchemaStatements
      BY <1>1, <3>1
    <3> QED
      BY <3>1, <3>2, StatementFacts
  <2>3. Aimed(stmts, k) = [stmts[k] EXCEPT !.t = u]
    BY <1>3 DEF Aimed
  <2> HIDE DEF u
  <2>4. stmts[k] \in SchemaStatements
    BY <1>1
  <2>5. \A s \in SchemaStatements : [s EXCEPT !.t = u] \in SchemaStatements
    BY <2>2 DEF SchemaStatements, ColumnStatements, TableStatements
  <2> QED
    BY <2>3, <2>4, <2>5
<1> QED
  BY <1>2, <1>3

(* There is such a function, of tables.                                     *)
LEMMA AskStepsExist ==
    ASSUME NEW tabs \in SchemaMaps, NEW stmts \in Seq(SchemaStatements)
    PROVE  \E after \in [0..Len(stmts) -> SchemaMaps] : AskSteps(after, tabs, stmts)
<1> DEFINE Next(m, k) == IF Accepts(m, Aimed(stmts, k)) THEN After(m, Aimed(stmts, k)) ELSE m
           Upto(n) == \E f \in [0..n -> SchemaMaps] :
                         \A i \in 0..n : f[i] = IF i = 0 THEN tabs ELSE Next(f[i - 1], i)
           good == {n \in Nat : n <= Len(stmts) => Upto(n)}
<1>1. Len(stmts) \in Nat
  BY LenProperties
<1>2. \A m \in SchemaMaps : \A k \in 1..Len(stmts) : Next(m, k) \in SchemaMaps
  BY AimedType, AfterType
<1> HIDE DEF Next
<1>3. 0 \in good
  <2> DEFINE f == [i \in 0..0 |-> tabs]
  <2>1. f \in [0..0 -> SchemaMaps] /\ \A i \in 0..0 : f[i] = IF i = 0 THEN tabs ELSE Next(f[i - 1], i)
    OBVIOUS
  <2>2. Upto(0)
    BY <2>1, Zenon
  <2> HIDE DEF Upto
  <2> QED
    BY <2>2
<1>4. ASSUME NEW n \in good
      PROVE  n + 1 \in good
  <2> HIDE DEF Upto
  <2> SUFFICES ASSUME n + 1 <= Len(stmts)
               PROVE  Upto(n + 1)
    OBVIOUS
  <2>1. n \in Nat /\ n <= Len(stmts) /\ n + 1 \in 1..Len(stmts) /\ Upto(n)
    BY <1>1
  <2> USE DEF Upto
  <2>2. PICK f \in [0..n -> SchemaMaps] : \A i \in 0..n : f[i] = IF i = 0 THEN tabs ELSE Next(f[i - 1], i)
    BY <2>1, Zenon
  <2> DEFINE g == [i \in 0..(n + 1) |-> IF i = n + 1 THEN Next(f[n], n + 1) ELSE f[i]]
  <2>3. Next(f[n], n + 1) \in SchemaMaps
    BY <1>2, <2>1
  <2>4. g \in [0..(n + 1) -> SchemaMaps]
    BY <2>1, <2>3
  <2>5. ASSUME NEW i \in 0..(n + 1)
        PROVE  g[i] = IF i = 0 THEN tabs ELSE Next(g[i - 1], i)
    <3>1. CASE i = n + 1
      BY <2>1, <3>1
    <3>2. CASE i # n + 1
      <4>1. i \in 0..n /\ g[i] = f[i] /\ (i # 0 => i - 1 \in 0..n /\ g[i - 1] = f[i - 1])
        BY <2>1, <3>2
      <4>2. f[i] = IF i = 0 THEN tabs ELSE Next(f[i - 1], i)
        BY <2>2, <4>1, Zenon
      <4> HIDE DEF g
      <4> QED
        BY <4>1, <4>2
    <3> QED
      BY <3>1, <3>2
  <2> QED
    BY <2>4, <2>5
<1> HIDE DEF good, Upto
<1>5. good = Nat
  <2>1. good \in SUBSET Nat
    BY DEF good
  <2> QED
    BY <1>3, <1>4, <2>1, AllNumbers
<1>6. Upto(Len(stmts))
  BY <1>1, <1>5 DEF good
<1> USE DEF Upto
<1>7. PICK f \in [0..Len(stmts) -> SchemaMaps] :
             \A i \in 0..Len(stmts) : f[i] = IF i = 0 THEN tabs ELSE Next(f[i - 1], i)
  BY <1>6
<1>8. f = [i \in 0..Len(stmts) |-> IF i = 0 THEN tabs ELSE Next(f[i - 1], i)]
  BY <1>7
<1> QED
  BY <1>8, Zenon DEF AskSteps, Next

(* What is asked for: the statements are accepted one after the other.      *)
Asked(asked, stmts) ==
    /\ asked \in [0..Len(stmts) -> SchemaMaps]
    /\ \A k \in 1..Len(stmts) :
          /\ Accepts(asked[k - 1], Aimed(stmts, k))
          /\ asked[k] = After(asked[k - 1], Aimed(stmts, k))

(* What AsAsked computes is asked for, from the tables there are.           *)
LEMMA AsAskedFacts ==
    ASSUME NEW tabs \in SchemaMaps, NEW stmts \in Seq(SchemaStatements), AsAsked(tabs, stmts) # <<>>
    PROVE  Asked(AsAsked(tabs, stmts), stmts) /\ AsAsked(tabs, stmts)[0] = tabs
<1> DEFINE f == AfterFirst(tabs, stmts)
<1>1. f = CHOOSE after : AskSteps(after, tabs, stmts)
  BY Zenon DEF AfterFirst, AskSteps
<1>2. AskSteps(f, tabs, stmts)
  BY <1>1, AskStepsExist, Zenon
<1> HIDE DEF f
<1>3. AsAsked(tabs, stmts) = f /\ \A k \in 1..Len(stmts) : Accepts(f[k - 1], Aimed(stmts, k))
  BY Zenon DEF AsAsked, f
<1>4. Len(stmts) \in Nat
  BY LenProperties
<1>5. /\ f = [k \in 0..Len(stmts) |-> f[k]] /\ f[0] = tabs
      /\ \A k \in 1..Len(stmts) : f[k] = After(f[k - 1], Aimed(stmts, k))
  <2> DEFINE g == [k \in 0..Len(stmts) |->
                     IF k = 0 THEN tabs
                     ELSE IF Accepts(f[k - 1], Aimed(stmts, k)) THEN After(f[k - 1], Aimed(stmts, k))
                     ELSE f[k - 1]]
  <2>1. f = g
    BY <1>2, Zenon DEF AskSteps
  <2>2. g = [k \in 0..Len(stmts) |-> g[k]] /\ g[0] = tabs
    BY <1>4
  <2>3. ASSUME NEW k \in 1..Len(stmts)
        PROVE  g[k] = After(f[k - 1], Aimed(stmts, k))
    <3>1. k \in 0..Len(stmts) /\ k # 0
      BY <1>4
    <3>2. Accepts(f[k - 1], Aimed(stmts, k))
      BY <1>3, Zenon
    <3> QED
      BY <3>1, <3>2, Zenon
  <2> HIDE DEF g
  <2> QED
    BY <2>1, <2>2, <2>3, Zenon
<1> DEFINE good == {n \in Nat : n <= Len(stmts) => f[n] \in SchemaMaps}
<1>6. 0 \in good
  BY <1>5
<1>7. ASSUME NEW n \in good
      PROVE  n + 1 \in good
  <2> SUFFICES ASSUME n + 1 <= Len(stmts)
               PROVE  f[n + 1] \in SchemaMaps
    OBVIOUS
  <2>1. n + 1 \in 1..Len(stmts) /\ (n + 1) - 1 = n /\ f[n] \in SchemaMaps
    BY <1>4
  <2>2. f[n + 1] = After(f[n], Aimed(stmts, n + 1)) /\ Accepts(f[n], Aimed(stmts, n + 1))
    BY <1>3, <1>5, <2>1, Zenon
  <2> QED
    BY <2>1, <2>2, AimedType, AfterType
<1>8. good = Nat
  <2>1. good \in SUBSET Nat
    OBVIOUS
  <2> HIDE DEF good
  <2> QED
    BY <1>6, <1>7, <2>1, AllNumbers
<1>9. \A k \in 0..Len(stmts) : f[k] \in SchemaMaps
  BY <1>4, <1>8
<1> HIDE DEF good
<1>10. f \in [0..Len(stmts) -> SchemaMaps]
  BY <1>5, <1>9
<1> QED
  BY <1>3, <1>5, <1>10, Zenon DEF Asked

-----------------------------------------------------------------------------
(* The statements of a call that alters the table.                          *)
AlterCall(stmts) ==
    /\ stmts \in Seq(AlterStatements) /\ Len(stmts) # 0
    /\ \A i, j \in DOMAIN stmts : stmts[i].op = "rename" /\ stmts[j].op = "rename" => i = j

(* The name of the table after the first k of them, and what it holds then. *)
NameAfter(stmts, k) ==
    IF NewNames(stmts, k) = {} THEN Target ELSE CHOOSE u \in NewNames(stmts, k) : TRUE
AskedTab(asked, stmts, k) == asked[k][NameAfter(stmts, k)]

(* What is known of the statements of an alteration.                        *)
LEMMA AlterCallFacts ==
    ASSUME NEW stmts, AlterCall(stmts)
    PROVE  /\ Len(stmts) \in Nat \ {0} /\ DOMAIN stmts = 1..Len(stmts)
           /\ \A k \in 1..Len(stmts) :
                 /\ stmts[k] \in AlterStatements /\ stmts[k].t = Target
                 /\ stmts[k].op \in ColumnOps => stmts[k] \in AlterColumnStatements
                 /\ stmts[k].op \in ColumnOps \cup {"rename"}
                 /\ stmts[k].op = "rename" => stmts[k].to \in Tables \ {Target}
<1>1. /\ Len(stmts) \in Nat \ {0} /\ DOMAIN stmts = 1..Len(stmts)
      /\ \A k \in 1..Len(stmts) : stmts[k] \in AlterStatements
  BY LenProperties DEF AlterCall
<1>2. \A x \in AlterStatements :
        /\ x.t = Target /\ x.op \in ColumnOps \cup {"rename"}
        /\ x.op \in ColumnOps => x \in AlterColumnStatements
        /\ x.op = "rename" => x.to \in Tables \ {Target}
  BY DEF AlterStatements, AlterColumnStatements, AlterRenames, ColumnOps
<1> QED
  BY <1>1, <1>2

(* The name of the table: the one it had, or the one a statement gave it.   *)
LEMMA NameFacts ==
    ASSUME NEW stmts, AlterCall(stmts), NEW k \in 0..Len(stmts)
    PROVE  /\ \A r \in 1..k : stmts[r].op = "rename" => NameAfter(stmts, k) = stmts[r].to
           /\ (\A r \in 1..k : stmts[r].op # "rename") => NameAfter(stmts, k) = Target
           /\ NameAfter(stmts, k) \in Tables
<1>1. k \in Nat /\ 1..k \subseteq DOMAIN stmts /\ DOMAIN stmts = 1..Len(stmts)
  BY AlterCallFacts
<1>2. ASSUME NEW r \in 1..k, stmts[r].op = "rename"
      PROVE  NameAfter(stmts, k) = stmts[r].to /\ stmts[r].to \in Tables
  <2>1. \A j \in 1..k : stmts[j].op = "rename" => j = r
    BY <1>1, <1>2 DEF AlterCall
  <2>2. NewNames(stmts, k) = {stmts[r].to}
    BY <1>2, <2>1 DEF NewNames
  <2> QED
    BY <1>1, <2>2, <1>2, AlterCallFacts DEF NameAfter
<1>3. ASSUME \A r \in 1..k : stmts[r].op # "rename"
      PROVE  NameAfter(stmts, k) = Target
  <2>1. NewNames(stmts, k) = {}
    BY <1>3 DEF NewNames
  <2> QED
    BY <2>1 DEF NameAfter
<1> QED
  BY <1>2, <1>3, SchemaAssumption

(* A statement of the call is aimed at the name the table has by then.      *)
LEMMA AimedAtName ==
    ASSUME NEW stmts, AlterCall(stmts), NEW k \in 1..Len(stmts)
    PROVE  Aimed(stmts, k) = [stmts[k] EXCEPT !.t = NameAfter(stmts, k - 1)]
<1>1. CASE NewNames(stmts, k - 1) = {}
  <2>1. stmts[k] \in AlterStatements /\ stmts[k].t = Target
    BY AlterCallFacts
  <2>2. [stmts[k] EXCEPT !.t = Target] = stmts[k]
    BY <2>1 DEF AlterStatements, AlterColumnStatements, AlterRenames
  <2> QED
    BY <1>1, <2>2 DEF Aimed, NameAfter
<1>2. CASE NewNames(stmts, k - 1) # {}
  BY <1>2, Zenon DEF Aimed, NameAfter
<1> QED
  BY <1>1, <1>2

(* Which name it is aimed at does not matter to the columns.                *)
LEMMA AimedAlike ==
    ASSUME NEW s \in ColumnStatements, NEW n, NEW u, u = [s EXCEPT !.t = n], NEW tab \in SchemaTables
    PROVE  /\ ColumnFits(tab, u) <=> ColumnFits(tab, s)
           /\ ColumnFits(tab, s) => ColumnChanged(tab, u) = ColumnChanged(tab, s)
<1>1. /\ u.op = s.op /\ u.c = s.c /\ u.t = n
      /\ s.op \in {"add", "modify"} => u.ty = s.ty
      /\ s.op = "renameColumn" => u.d = s.d
  BY DEF ColumnStatements
<1>2. s.op \in ColumnOps
  BY ColumnCases
<1>3. ColumnFits(tab, u) <=> ColumnFits(tab, s)
  BY <1>1, <1>2 DEF ColumnFits, ColumnOps
<1>4. ASSUME ColumnFits(tab, s)
      PROVE  ColumnChanged(tab, u) = ColumnChanged(tab, s)
  <2>1. CASE s.op = "dropColumn"
    BY <1>1, <2>1, DroppedFields
  <2>2. CASE s.op = "add"
    BY <1>1, <2>2, AddedFields
  <2>3. CASE s.op = "modify"
    <3>1. s.c \in DOMAIN tab.cols
      BY <1>4, <2>3 DEF ColumnFits
    <3> QED
      BY <1>1, <2>3, <3>1, ModifiedFields
  <2>4. CASE s.op = "renameColumn"
    BY <1>1, <2>4, RenamedFields
  <2> QED
    BY <1>2, <2>1, <2>2, <2>3, <2>4 DEF ColumnOps
<1> QED
  BY <1>3, <1>4

(* What a statement asks of the table.                                      *)
LEMMA AskedColumn ==
    ASSUME NEW stmts, AlterCall(stmts), NEW asked, Asked(asked, stmts),
           NEW k \in 1..Len(stmts), stmts[k].op \in ColumnOps
    PROVE  /\ AskedTab(asked, stmts, k - 1) \in SchemaTables
           /\ ColumnFits(AskedTab(asked, stmts, k - 1), stmts[k])
           /\ AskedTab(asked, stmts, k) = ColumnChanged(AskedTab(asked, stmts, k - 1), stmts[k])
           /\ NameAfter(stmts, k) = NameAfter(stmts, k - 1)
           /\ \A x \in TableNames \ {NameAfter(stmts, k)} : asked[k][x] = asked[k - 1][x]
<1> DEFINE n == NameAfter(stmts, k - 1)
           s == stmts[k]
           u == Aimed(stmts, k)
           tab == asked[k - 1][n]
<1>1. k - 1 \in 0..Len(stmts) /\ k \in 0..Len(stmts) /\ k \in DOMAIN stmts /\ 1..k = 1..(k - 1) \cup {k}
  BY AlterCallFacts
<1>2. s \in ColumnStatements /\ u = [s EXCEPT !.t = n]
  BY AlterCallFacts, AlterAreStatements, AimedAtName
<1>3. n \in TableNames /\ asked[k - 1] \in SchemaMaps
  BY <1>1, NameFacts, TargetNamed DEF Asked
<1>4. u.t = n /\ u.op = s.op /\ u.op # "rename"
  BY <1>2 DEF ColumnStatements, ColumnOps
<1>5. NameAfter(stmts, k) = n
  <2>1. stmts[k].op # "rename"
    BY DEF ColumnOps
  <2>2. CASE \E r \in 1..(k - 1) : stmts[r].op = "rename"
    BY <1>1, <2>2, NameFacts
  <2>3. CASE \A r \in 1..(k - 1) : stmts[r].op # "rename"
    BY <1>1, <2>1, <2>3, NameFacts
  <2> QED
    BY <2>2, <2>3
<1>6. Accepts(asked[k - 1], u) /\ asked[k] = After(asked[k - 1], u)
  BY DEF Asked
<1> HIDE DEF n, s, u
<1>7. u.op \in ColumnOps
  BY <1>4 DEF s
<1>8. tab # NoTable /\ ColumnFits(tab, u)
  BY <1>4, <1>6, <1>7 DEF Accepts, Has, ColumnOps
<1>9. tab \in SchemaTables
  BY <1>3, <1>8 DEF SchemaMaps
<1>10. asked[k] = [asked[k - 1] EXCEPT ![n] = ColumnChanged(tab, u)]
  BY <1>4, <1>6, <1>7, OnTableCases DEF After
<1>11. asked[k][n] = ColumnChanged(tab, u) /\ \A x \in TableNames \ {n} : asked[k][x] = asked[k - 1][x]
  BY <1>3, <1>10 DEF SchemaMaps
<1>12. ColumnFits(tab, s) /\ ColumnChanged(tab, u) = ColumnChanged(tab, s)
  BY <1>2, <1>8, <1>9, AimedAlike
<1> QED
  BY <1>5, <1>9, <1>11, <1>12 DEF AskedTab, n, s

(* What a new name asks of the tables.                                      *)
LEMMA AskedRename ==
    ASSUME NEW stmts, AlterCall(stmts), NEW asked, Asked(asked, stmts),
           NEW k \in 1..Len(stmts), stmts[k].op = "rename"
    PROVE  /\ AskedTab(asked, stmts, k - 1) \in SchemaTables
           /\ AskedTab(asked, stmts, k) = AskedTab(asked, stmts, k - 1)
           /\ NameAfter(stmts, k - 1) = Target /\ NameAfter(stmts, k) = stmts[k].to
           /\ asked[k][Target] = NoTable
           /\ \A x \in TableNames \ {Target, stmts[k].to} : asked[k][x] = asked[k - 1][x]
<1> DEFINE s == stmts[k]
<1>1. k - 1 \in 0..Len(stmts) /\ k \in 0..Len(stmts) /\ k \in DOMAIN stmts /\ k \in 1..k
      /\ \A r \in 1..(k - 1) : r \in DOMAIN stmts /\ r # k
  BY AlterCallFacts
<1>2. s \in AlterStatements /\ s.t = Target /\ s.to \in Tables \ {Target}
  BY AlterCallFacts
<1>3. NameAfter(stmts, k - 1) = Target
  <2>1. \A r \in 1..(k - 1) : stmts[r].op # "rename"
    BY <1>1 DEF AlterCall
  <2> QED
    BY <1>1, <2>1, NameFacts
<1>4. NameAfter(stmts, k) = s.to
  BY <1>1, NameFacts
<1>5. Aimed(stmts, k) = s
  <2>1. Aimed(stmts, k) = [s EXCEPT !.t = Target]
    BY <1>3, AimedAtName
  <2> QED
    BY <1>2, <2>1 DEF AlterStatements, AlterColumnStatements, AlterRenames
<1>6. Accepts(asked[k - 1], s) /\ asked[k] = After(asked[k - 1], s) /\ asked[k - 1] \in SchemaMaps
  BY <1>1, <1>5 DEF Asked
<1> HIDE DEF s
<1>7. s.op = "rename"
  BY DEF s
<1>8. asked[k - 1][Target] # NoTable
  BY <1>2, <1>6, <1>7 DEF Accepts, Has, ColumnOps
<1>9. asked[k] = [asked[k - 1] EXCEPT ![s.to] = asked[k - 1][Target], ![Target] = NoTable]
  BY <1>2, <1>6, <1>7 DEF After
<1>10. /\ asked[k][s.to] = asked[k - 1][Target] /\ asked[k][Target] = NoTable
       /\ \A x \in TableNames \ {Target, s.to} : asked[k][x] = asked[k - 1][x]
       /\ asked[k - 1][Target] \in SchemaTables
  BY <1>2, <1>6, <1>8, <1>9, TargetNamed DEF SchemaMaps
<1> QED
  BY <1>3, <1>4, <1>10 DEF AskedTab, s

(* It is a table all the time.                                              *)
LEMMA AskedTables ==
    ASSUME NEW stmts, AlterCall(stmts), NEW asked, Asked(asked, stmts), NEW k \in 0..Len(stmts)
    PROVE  AskedTab(asked, stmts, k) \in SchemaTables
<1>1. Len(stmts) \in Nat \ {0}
  BY AlterCallFacts
<1>2. CASE k = 0
  <2>1. 1 \in 1..Len(stmts) /\ 1 - 1 = 0
    BY <1>1
  <2> QED
    BY <1>2, <2>1, AskedColumn, AskedRename, AlterCallFacts
<1>3. CASE k # 0
  <2>1. k \in 1..Len(stmts)
    BY <1>1, <1>3
  <2>2. CASE stmts[k].op = "rename"
    BY <2>1, <2>2, AskedRename
  <2>3. CASE stmts[k].op \in ColumnOps
    <3>1. stmts[k] \in ColumnStatements
      BY <2>1, <2>3, AlterCallFacts, AlterAreStatements
    <3> QED
      BY <2>1, <2>3, <3>1, AskedColumn, ChangedIsTable
  <2> QED
    BY <2>1, <2>2, <2>3, AlterCallFacts
<1> QED
  BY <1>2, <1>3

(* The other tables are as before; the old name is left.                    *)
LEMMA AskedOthers ==
    ASSUME NEW stmts, AlterCall(stmts), NEW asked, Asked(asked, stmts), NEW k \in 0..Len(stmts),
           NEW x \in TableNames \ {NameAfter(stmts, k)}
    PROVE  asked[k][x] = IF x = Target THEN NoTable ELSE asked[0][x]
<1> DEFINE good == {n \in Nat : n <= Len(stmts) =>
                      \A y \in TableNames \ {NameAfter(stmts, n)} :
                         asked[n][y] = IF y = Target THEN NoTable ELSE asked[0][y]}
<1>1. Len(stmts) \in Nat
  BY AlterCallFacts
<1>2. 0 \in good
  <2>1. NameAfter(stmts, 0) = Target
    BY <1>1, NameFacts
  <2> QED
    BY <2>1
<1>3. ASSUME NEW n \in good
      PROVE  n + 1 \in good
  <2> SUFFICES ASSUME n + 1 <= Len(stmts), NEW y \in TableNames \ {NameAfter(stmts, n + 1)}
               PROVE  asked[n + 1][y] = IF y = Target THEN NoTable ELSE asked[0][y]
    OBVIOUS
  <2> DEFINE m == n + 1
  <2>1. m \in 1..Len(stmts) /\ m - 1 = n
    BY <1>1
  <2>2. \A z \in TableNames \ {NameAfter(stmts, n)} :
          asked[n][z] = IF z = Target THEN NoTable ELSE asked[0][z]
    BY <1>1
  <2> HIDE DEF m, good
  <2>3. CASE stmts[m].op \in ColumnOps
    <3>1. NameAfter(stmts, m) = NameAfter(stmts, n) /\ asked[m][y] = asked[n][y]
      BY <2>1, <2>3, AskedColumn DEF m
    <3> QED
      BY <2>2, <3>1 DEF m
  <2>4. CASE stmts[m].op = "rename"
    <3>1. /\ NameAfter(stmts, n) = Target /\ NameAfter(stmts, m) = stmts[m].to
          /\ asked[m][Target] = NoTable
          /\ \A z \in TableNames \ {Target, stmts[m].to} : asked[m][z] = asked[n][z]
      BY <2>1, <2>4, AskedRename
    <3> QED
      BY <2>2, <3>1 DEF m
  <2> QED
    BY <2>1, <2>3, <2>4, AlterCallFacts
<1>4. good = Nat
  <2>1. good \in SUBSET Nat
    OBVIOUS
  <2> HIDE DEF good
  <2> QED
    BY <1>2, <1>3, <2>1, AllNumbers
<1> QED
  BY <1>1, <1>4

(* A column no statement from k on to m names stays as it is.               *)
LEMMA AskedFrame ==
    ASSUME NEW stmts, AlterCall(stmts), NEW asked, Asked(asked, stmts), NEW c,
           NEW k \in 0..Len(stmts), NEW m \in k..Len(stmts),
           \A i \in (k + 1)..m : ~Names(stmts[i], c)
    PROVE  SameAt(AskedTab(asked, stmts, k), AskedTab(asked, stmts, m), c)
<1> DEFINE good == {n \in Nat : k + n <= m =>
                      SameAt(AskedTab(asked, stmts, k), AskedTab(asked, stmts, k + n), c)}
<1>1. Len(stmts) \in Nat /\ k \in Nat /\ m \in Nat /\ m <= Len(stmts) /\ m - k \in Nat /\ k + (m - k) = m
  BY AlterCallFacts
<1>2. 0 \in good
  BY <1>1 DEF SameAt
<1>3. ASSUME NEW n \in good
      PROVE  n + 1 \in good
  <2> SUFFICES ASSUME k + (n + 1) <= m
               PROVE  SameAt(AskedTab(asked, stmts, k), AskedTab(asked, stmts, k + (n + 1)), c)
    OBVIOUS
  <2> DEFINE j == k + (n + 1)
  <2>1. j \in 1..Len(stmts) /\ j - 1 = k + n /\ j \in (k + 1)..m
    BY <1>1
  <2>2. SameAt(AskedTab(asked, stmts, k), AskedTab(asked, stmts, j - 1), c)
    BY <1>1, <2>1
  <2> HIDE DEF j, good
  <2>3. CASE stmts[j].op \in ColumnOps
    <3>1. stmts[j] \in ColumnStatements
      BY <2>1, <2>3, AlterCallFacts, AlterAreStatements
    <3>2. SameAt(AskedTab(asked, stmts, j - 1), AskedTab(asked, stmts, j), c)
      BY <2>1, <2>3, <3>1, AskedColumn, ChangedElsewhere
    <3> QED
      BY <2>2, <3>2, SameOn DEF j
  <2>4. CASE stmts[j].op = "rename"
    <3>1. AskedTab(asked, stmts, j) = AskedTab(asked, stmts, j - 1)
      BY <2>1, <2>4, AskedRename
    <3> QED
      BY <2>2, <3>1 DEF j
  <2> QED
    BY <2>1, <2>3, <2>4, AlterCallFacts
<1>4. good = Nat
  <2>1. good \in SUBSET Nat
    OBVIOUS
  <2> HIDE DEF good
  <2> QED
    BY <1>2, <1>3, <2>1, AllNumbers
<1>5. k + (m - k) <= m => SameAt(AskedTab(asked, stmts, k), AskedTab(asked, stmts, k + (m - k)), c)
  BY <1>1, <1>4, Zenon
<1> QED
  BY <1>1, <1>5

-----------------------------------------------------------------------------
(* How a call that alters the table goes on.  Of the statements that name a *)
(* column those that ran are the first k, and the column is as after these. *)
Reached(stmts, left, c, k) == \A i \in Touching(stmts, c) : i \in left <=> k < i
NameNow(stmts, left) == IF left = {} THEN NameAfter(stmts, Len(stmts)) ELSE Target

InStep(tabs, stmts, left, asked) ==
    /\ \A r \in DOMAIN stmts \ left : stmts[r].op = "rename" => left = {}
    /\ \A x \in TableNames \ {NameNow(stmts, left)} :
          tabs[x] = IF x = Target THEN NoTable ELSE asked[0][x]
    /\ tabs[NameNow(stmts, left)] \in SchemaTables
    /\ \A c \in SchemaColumns : \E k \in 0..Len(stmts) :
          /\ Reached(stmts, left, c, k)
          /\ SameAt(tabs[NameNow(stmts, left)], AskedTab(asked, stmts, k), c)

(* Or one of those left is the last to name a column, and can never run: it *)
(* needs the column and the column is gone, or the other way round; or the  *)
(* table has another name already.                                          *)
Stuck(tabs, stmts, left) ==
    \/ left # {} /\ tabs[Target] = NoTable
    \/ \E c \in SchemaColumns, i \in left :
          /\ Touching(stmts, c) \cap left = {i}
          /\ (c \in DOMAIN tabs[Target].cols) # NeedsColumn(stmts[i], c)

AlterGoes(tabs, stmts, left, asked) == InStep(tabs, stmts, left, asked) \/ Stuck(tabs, stmts, left)

(* Three statements on one column, or two that modify it, are excluded.     *)
LEMMA FewTouch ==
    ASSUME NEW stmts, AlterCall(stmts), ~Unordered(stmts), NEW c,
           NEW i \in Touching(stmts, c), NEW j \in Touching(stmts, c), i < j
    PROVE  /\ \A k \in Touching(stmts, c) : k = i \/ k = j
           /\ ~(stmts[i].op = "modify" /\ stmts[j].op = "modify")
<1>1. /\ DOMAIN stmts = 1..Len(stmts) /\ Len(stmts) \in Nat
      /\ stmts[i].op \in ColumnOps /\ i \in 1..Len(stmts) /\ Names(stmts[i], c)
      /\ j \in 1..Len(stmts)
  BY AlterCallFacts DEF Touching, Names
<1>2. stmts[i] \in AlterColumnStatements
  BY <1>1, AlterCallFacts
<1>3. c \in Columns
  BY <1>1, <1>2 DEF Names, AlterColumnStatements
<1>4. ASSUME NEW k \in Touching(stmts, c), k # i, k # j
      PROVE  FALSE
  <2>1. k \in 1..Len(stmts)
    BY <1>1 DEF Touching
  <2>2. \/ k < i
        \/ i < k /\ k < j
        \/ j < k
    BY <1>1, <1>4, <2>1
  <2> QED
    BY <1>3, <2>2, Zenon DEF Unordered
<1>5. ~(stmts[i].op = "modify" /\ stmts[j].op = "modify")
  BY <1>3, Zenon DEF Unordered
<1> QED
  BY <1>4, <1>5

(* A statement of an alteration that the database accepts.                  *)
LEMMA AlterAccepted ==
    ASSUME NEW tabs \in SchemaMaps, NEW stmts, AlterCall(stmts), NEW j \in 1..Len(stmts),
           Accepts(tabs, stmts[j])
    PROVE  tabs[Target] \in SchemaTables
<1> DEFINE s == stmts[j]
<1>1. s.t = Target /\ s.op \in ColumnOps \cup {"rename"} /\ Target \in TableNames
  BY AlterCallFacts, TargetNamed
<1> HIDE DEF s
<1>2. tabs[Target] # NoTable
  BY <1>1 DEF Accepts, Has, ColumnOps, s
<1> QED
  BY <1>1, <1>2 DEF SchemaMaps

(* One that alters a column alters that of the table.                       *)
LEMMA ColumnAccepted ==
    ASSUME NEW tabs \in SchemaMaps, NEW stmts, AlterCall(stmts), NEW j \in 1..Len(stmts),
           Accepts(tabs, stmts[j]), stmts[j].op \in ColumnOps
    PROVE  /\ tabs[Target] \in SchemaTables /\ ColumnFits(tabs[Target], stmts[j])
           /\ After(tabs, stmts[j]) = [tabs EXCEPT ![Target] = ColumnChanged(tabs[Target], stmts[j])]
<1> DEFINE s == stmts[j]
<1>1. s.t = Target /\ s.op \in ColumnOps
  BY AlterCallFacts
<1>2. tabs[Target] \in SchemaTables
  BY AlterAccepted
<1> HIDE DEF s
<1>3. ColumnFits(tabs[Target], s) /\ s.op # "rename" /\ OnTable(tabs, s) = ColumnChanged(tabs[Target], s)
  BY <1>1, OnTableCases DEF Accepts, ColumnOps, s
<1>4. After(tabs, s) = [tabs EXCEPT ![Target] = ColumnChanged(tabs[Target], s)]
  BY <1>1, <1>3 DEF After
<1> QED
  BY <1>2, <1>3, <1>4 DEF s

(* One that gives the table another name leaves none under this one.        *)
LEMMA RenameAccepted ==
    ASSUME NEW tabs \in SchemaMaps, NEW stmts, AlterCall(stmts), NEW j \in 1..Len(stmts),
           Accepts(tabs, stmts[j]), stmts[j].op = "rename"
    PROVE  /\ tabs[Target] \in SchemaTables
           /\ After(tabs, stmts[j]) = [tabs EXCEPT ![stmts[j].to] = tabs[Target], ![Target] = NoTable]
<1>1. stmts[j].t = Target
  BY AlterCallFacts
<1>2. tabs[Target] \in SchemaTables
  BY AlterAccepted
<1> QED
  BY <1>1, <1>2 DEF After

(* It stays stuck.                                                          *)
LEMMA StuckStays ==
    ASSUME NEW tabs \in SchemaMaps, NEW stmts, AlterCall(stmts), NEW left \in SUBSET DOMAIN stmts,
           NEW j \in left, Accepts(tabs, stmts[j]), Stuck(tabs, stmts, left)
    PROVE  Stuck(After(tabs, stmts[j]), stmts, left \ {j})
<1> DEFINE s == stmts[j]
           tab == tabs[Target]
<1>1. /\ j \in 1..Len(stmts) /\ s.op \in ColumnOps \cup {"rename"} /\ Target \in TableNames
      /\ s.op = "rename" => s.to \in Tables \ {Target}
      /\ s.op \in ColumnOps => s \in ColumnStatements
  BY AlterCallFacts, AlterAreStatements, TargetNamed
<1>2. /\ tab \in SchemaTables /\ tab # NoTable
  BY <1>1, AlterAccepted, SchemaAssumption
<1>3. PICK c \in SchemaColumns, i \in left :
        /\ Touching(stmts, c) \cap left = {i}
        /\ (c \in DOMAIN tab.cols) # NeedsColumn(stmts[i], c)
  BY <1>2 DEF Stuck
<1>4. CASE s.op = "rename"
  <2>1. ~Names(s, c) /\ i # j
    BY <1>3, <1>4 DEF Names, Touching, ColumnOps
  <2>3. After(tabs, s) = [tabs EXCEPT ![s.to] = tab, ![Target] = NoTable]
    BY <1>1, <1>4, RenameAccepted
  <2> HIDE DEF s
  <2>2. After(tabs, s)[Target] = NoTable
    BY <1>1, <1>4, <2>3 DEF SchemaMaps
  <2> USE DEF s
  <2> QED
    BY <2>1, <2>2 DEF Stuck
<1>5. CASE s.op \in ColumnOps
  <2>1. ColumnFits(tab, s) /\ After(tabs, s) = [tabs EXCEPT ![Target] = ColumnChanged(tab, s)]
    BY <1>1, <1>5, ColumnAccepted
  <2>2. After(tabs, s)[Target] = ColumnChanged(tab, s)
    BY <1>1, <2>1 DEF SchemaMaps
  <2>3. i # j
    <3> SUFFICES ASSUME i = j
                 PROVE  FALSE
      OBVIOUS
    <3>1. Names(s, c)
      BY <1>3 DEF Touching
    <3>2. c \in DOMAIN tab.cols <=> NeedsColumn(s, c)
      BY <1>1, <1>2, <1>5, <2>1, <3>1, FitsColumns
    <3>3. NeedsColumn(s, c) \in BOOLEAN
      BY DEF NeedsColumn
    <3> HIDE DEF tab
    <3> QED
      BY <1>3, <3>2, <3>3
  <2>4. ~Names(s, c)
    BY <1>3, <2>3 DEF Touching
  <2>5. c \in DOMAIN tab.cols <=> c \in DOMAIN ColumnChanged(tab, s).cols
    BY <1>1, <1>2, <1>5, <2>1, <2>4, ChangedElsewhere DEF SameAt
  <2>6. Touching(stmts, c) \cap (left \ {j}) = {i}
    BY <1>3, <2>3
  <2> QED
    BY <1>3, <2>2, <2>3, <2>5, <2>6 DEF Stuck
<1> QED
  BY <1>1, <1>4, <1>5

(* A statement of the call that the database runs keeps the rest in step    *)
(* with what is asked, or leaves one that can never run.                    *)
LEMMA RenameGoes ==
    ASSUME NEW tabs \in SchemaMaps, NEW stmts, AlterCall(stmts), NEW asked, Asked(asked, stmts),
           NEW left \in SUBSET DOMAIN stmts, NEW j \in left, Accepts(tabs, stmts[j]),
           stmts[j].op = "rename", InStep(tabs, stmts, left, asked)
    PROVE  AlterGoes(After(tabs, stmts[j]), stmts, left \ {j}, asked)
<1> DEFINE s == stmts[j]
           new == After(tabs, stmts[j])
           n == Len(stmts)
<1>1. /\ j \in 1..n /\ n \in Nat /\ DOMAIN stmts = 1..n /\ s.to \in Tables \ {Target}
      /\ Target \in TableNames /\ s.to \in TableNames
  BY AlterCallFacts, TargetNamed
<1>2. tabs[Target] \in SchemaTables /\ new = [tabs EXCEPT ![s.to] = tabs[Target], ![Target] = NoTable]
  BY <1>1, RenameAccepted
<1>3. /\ new[s.to] = tabs[Target] /\ new[Target] = NoTable
      /\ \A x \in TableNames \ {s.to, Target} : new[x] = tabs[x]
  BY <1>1, <1>2 DEF SchemaMaps
<1> HIDE DEF new
<1>4. CASE left \ {j} # {}
  BY <1>3, <1>4 DEF AlterGoes, Stuck, new
<1>5. CASE left \ {j} = {}
  <2>1. NameNow(stmts, left) = Target /\ NameNow(stmts, left \ {j}) = s.to
    <3>1. NameAfter(stmts, n) = s.to
      BY <1>1, NameFacts
    <3> QED
      BY <1>5, <3>1 DEF NameNow
  <2>2. \A x \in TableNames \ {s.to} : new[x] = IF x = Target THEN NoTable ELSE asked[0][x]
    BY <1>3, <2>1 DEF InStep
  <2>3. ASSUME NEW c \in SchemaColumns
        PROVE  \E k \in 0..n : /\ Reached(stmts, left \ {j}, c, k)
                               /\ SameAt(new[s.to], AskedTab(asked, stmts, k), c)
    <3>1. PICK k \in 0..n : Reached(stmts, left, c, k) /\ SameAt(tabs[Target], AskedTab(asked, stmts, k), c)
      BY <2>1 DEF InStep
    <3>2. j \notin Touching(stmts, c)
      BY DEF Touching, Names, ColumnOps
    <3>3. Reached(stmts, left \ {j}, c, k)
      BY <3>1, <3>2 DEF Reached
    <3> QED
      BY <1>3, <3>1, <3>3
  <2>4. InStep(new, stmts, left \ {j}, asked)
    BY <1>2, <1>3, <1>5, <2>1, <2>2, <2>3 DEF InStep
  <2> QED
    BY <2>4 DEF AlterGoes, new
<1> QED
  BY <1>4, <1>5

(* A column whose earlier statement is left behind: that one is stuck.      *)
LEMMA LeftBehind ==
    ASSUME NEW tab \in SchemaTables, NEW stmts, AlterCall(stmts), NEW asked, Asked(asked, stmts),
           ~Unordered(stmts), NEW left \in SUBSET DOMAIN stmts, NEW j \in left,
           stmts[j].op \in ColumnOps, ColumnFits(tab, stmts[j]),
           NEW c, Names(stmts[j], c), NEW k \in 0..Len(stmts), Reached(stmts, left, c, k),
           SameAt(tab, AskedTab(asked, stmts, k), c),
           NEW i \in Touching(stmts, c), i < j, k < i
    PROVE  /\ Touching(stmts, c) \cap (left \ {j}) = {i}
           /\ (c \in DOMAIN ColumnChanged(tab, stmts[j]).cols) # NeedsColumn(stmts[i], c)
<1> DEFINE V(m) == AskedTab(asked, stmts, m)
           si == stmts[i]
           sj == stmts[j]
<1>1. /\ DOMAIN stmts = 1..Len(stmts) /\ Len(stmts) \in Nat /\ k \in Nat
      /\ i \in 1..Len(stmts) /\ j \in 1..Len(stmts) /\ i \in Nat /\ j \in Nat
      /\ j \in Touching(stmts, c) /\ si.op \in ColumnOps /\ Names(si, c)
  BY AlterCallFacts DEF Touching, Names
<1>2. /\ \A m \in Touching(stmts, c) : m = i \/ m = j
      /\ ~(si.op = "modify" /\ sj.op = "modify")
  BY <1>1, FewTouch
<1>3. i \in left
  BY DEF Reached
<1>4. si \in ColumnStatements /\ sj \in ColumnStatements
  BY <1>1, AlterCallFacts, AlterAreStatements
<1>5. /\ V(i - 1) \in SchemaTables /\ ColumnFits(V(i - 1), si) /\ V(i) = ColumnChanged(V(i - 1), si)
      /\ V(j - 1) \in SchemaTables /\ ColumnFits(V(j - 1), sj)
  BY <1>1, AskedColumn
<1>6. SameAt(V(k), V(i - 1), c)
  <2>1. i - 1 \in k..Len(stmts) /\ \A m \in (k + 1)..(i - 1) : m \in DOMAIN stmts /\ m # i /\ m # j
    BY <1>1
  <2>2. \A m \in (k + 1)..(i - 1) : ~Names(stmts[m], c)
    BY <1>2, <2>1 DEF Touching
  <2> QED
    BY <2>1, <2>2, AskedFrame
<1>7. SameAt(V(i), V(j - 1), c)
  <2>1. /\ i \in 0..Len(stmts) /\ j - 1 \in i..Len(stmts)
        /\ \A m \in (i + 1)..(j - 1) : m \in DOMAIN stmts /\ m # i /\ m # j
    BY <1>1
  <2>2. \A m \in (i + 1)..(j - 1) : ~Names(stmts[m], c)
    BY <1>2, <2>1 DEF Touching
  <2> QED
    BY <2>1, <2>2, AskedFrame
<1>8. /\ c \in DOMAIN V(i - 1).cols <=> NeedsColumn(si, c)
      /\ c \in DOMAIN V(i).cols <=> GivesColumn(si, c)
  BY <1>1, <1>4, <1>5, FitsColumns
<1>9. c \in DOMAIN V(j - 1).cols <=> NeedsColumn(sj, c)
  BY <1>4, <1>5, FitsColumns
<1>10. /\ c \in DOMAIN tab.cols <=> NeedsColumn(sj, c)
       /\ c \in DOMAIN ColumnChanged(tab, sj).cols <=> GivesColumn(sj, c)
  BY <1>4, FitsColumns
<1>11. (NeedsColumn(si, c) <=> GivesColumn(si, c)) /\ (NeedsColumn(si, c) <=> NeedsColumn(sj, c))
  BY <1>6, <1>7, <1>8, <1>9, <1>10 DEF SameAt
<1>12. si.op = "modify" /\ NeedsColumn(si, c)
  BY <1>1, <1>4, <1>5, <1>11, StaysOnlyModified
<1>13. ~GivesColumn(sj, c)
  <2>1. NeedsColumn(sj, c)
    BY <1>11, <1>12
  <2>2. GivesColumn(sj, c) => sj.op = "modify"
    BY <1>4, <2>1, StaysOnlyModified
  <2> QED
    BY <1>2, <1>12, <2>2
<1>14. c \notin DOMAIN ColumnChanged(tab, sj).cols
  BY <1>10, <1>13
<1>15. NeedsColumn(si, c) = TRUE /\ (c \in DOMAIN ColumnChanged(tab, sj).cols) = FALSE
  BY <1>12, <1>14 DEF NeedsColumn
<1>16. Touching(stmts, c) \cap (left \ {j}) = {i}
  BY <1>1, <1>2, <1>3
<1> QED
  BY <1>15, <1>16

(* The same for a statement that alters a column.                           *)
LEMMA ColumnGoes ==
    ASSUME NEW tabs \in SchemaMaps, NEW stmts, AlterCall(stmts), NEW asked, Asked(asked, stmts),
           ~Unordered(stmts), NEW left \in SUBSET DOMAIN stmts, NEW j \in left,
           Accepts(tabs, stmts[j]), stmts[j].op \in ColumnOps, InStep(tabs, stmts, left, asked)
    PROVE  AlterGoes(After(tabs, stmts[j]), stmts, left \ {j}, asked)
<1> DEFINE s == stmts[j]
           tab == tabs[Target]
           q == ColumnChanged(tab, s)
           new == After(tabs, s)
           n == Len(stmts)
           rest == left \ {j}
           V(m) == AskedTab(asked, stmts, m)
<1>1. /\ j \in 1..n /\ n \in Nat /\ DOMAIN stmts = 1..n /\ Target \in TableNames /\ j \in Nat
  BY AlterCallFacts, TargetNamed
<1>2. s \in ColumnStatements
  BY <1>1, AlterCallFacts, AlterAreStatements
<1>3. tab \in SchemaTables /\ ColumnFits(tab, s) /\ new = [tabs EXCEPT ![Target] = q]
  BY <1>1, ColumnAccepted
<1>4. new[Target] = q /\ \A x \in TableNames \ {Target} : new[x] = tabs[x]
  BY <1>1, <1>3 DEF SchemaMaps
<1>5. q \in SchemaTables
  BY <1>2, <1>3, ChangedIsTable
<1>6. NameNow(stmts, left) = Target
  BY DEF NameNow
<1> HIDE DEF new, q, s
<1>7. NameNow(stmts, rest) = Target /\ \A r \in DOMAIN stmts \ rest : stmts[r].op = "rename" => rest = {}
  <2>1. ASSUME NEW r \in DOMAIN stmts \ rest, stmts[r].op = "rename"
        PROVE  FALSE
    <3>1. r # j
      BY <2>1 DEF ColumnOps
    <3>2. r \in DOMAIN stmts \ left
      BY <3>1
    <3> QED
      BY <2>1, <3>2 DEF InStep
  <2>2. CASE rest = {}
    <3>1. \A r \in 1..n : stmts[r].op # "rename"
      BY <1>1, <2>1, <2>2
    <3>2. NameAfter(stmts, n) = Target
      BY <1>1, <3>1, NameFacts
    <3> QED
      BY <2>1, <2>2, <3>2 DEF NameNow
  <2>3. CASE rest # {}
    BY <2>1, <2>3 DEF NameNow
  <2> QED
    BY <2>2, <2>3
<1>8. ASSUME NEW c \in SchemaColumns, NEW k \in 0..n, Reached(stmts, left, c, k), SameAt(tab, V(k), c),
             Names(s, c), \A i \in Touching(stmts, c) : ~(k < i /\ i < j)
      PROVE  SameAt(tab, V(j - 1), c) /\ Reached(stmts, rest, c, j)
  <2>1. j \in Touching(stmts, c) /\ k < j
    BY <1>1, <1>8 DEF Touching, Reached, s
  <2>2. /\ j - 1 \in k..n /\ \A m \in (k + 1)..(j - 1) : m \in DOMAIN stmts /\ k < m /\ m < j
    BY <1>1, <2>1
  <2>3. \A m \in (k + 1)..(j - 1) : ~Names(stmts[m], c)
    BY <1>8, <2>2 DEF Touching
  <2>4. SameAt(V(k), V(j - 1), c)
    BY <2>2, <2>3, AskedFrame
  <2>5. ASSUME NEW i \in Touching(stmts, c)
        PROVE  i \in rest <=> j < i
    <3>1. i \in left <=> k < i
      BY <1>8 DEF Reached
    <3>2. i \in 1..n /\ ~(k < i /\ i < j)
      BY <1>1, <1>8 DEF Touching
    <3> QED
      BY <1>1, <2>1, <3>1, <3>2
  <2> QED
    BY <1>8, <2>4, <2>5, SameOn DEF Reached
<1>9. \A c \in SchemaColumns : \E k \in 0..n : Reached(stmts, left, c, k) /\ SameAt(tab, V(k), c)
  BY <1>6 DEF InStep
<1>10. CASE \E c \in SchemaColumns, k \in 0..n : \E i \in Touching(stmts, c) :
              /\ Reached(stmts, left, c, k) /\ SameAt(tab, V(k), c)
              /\ Names(s, c) /\ k < i /\ i < j
  <2>0. PICK c \in SchemaColumns, k \in 0..n : \E i \in Touching(stmts, c) :
              /\ Reached(stmts, left, c, k) /\ SameAt(tab, V(k), c)
              /\ Names(s, c) /\ k < i /\ i < j
    BY <1>10, Zenon
  <2>1. PICK i \in Touching(stmts, c) :
              /\ Reached(stmts, left, c, k) /\ SameAt(tab, V(k), c)
              /\ Names(s, c) /\ k < i /\ i < j
    BY <2>0
  <2>2. /\ Touching(stmts, c) \cap rest = {i}
        /\ (c \in DOMAIN q.cols) # NeedsColumn(stmts[i], c)
    BY <1>3, <2>1, LeftBehind DEF q, s
  <2>3. i \in rest
    BY <2>2
  <2>4. Stuck(new, stmts, rest)
    BY <1>4, <2>2, <2>3 DEF Stuck
  <2> QED
    BY <2>4 DEF AlterGoes, new, s
<1>11. CASE \A c \in SchemaColumns, k \in 0..n : \A i \in Touching(stmts, c) :
              ~(/\ Reached(stmts, left, c, k) /\ SameAt(tab, V(k), c)
                /\ Names(s, c) /\ k < i /\ i < j)
  <2>1. \A c \in SchemaColumns : Names(s, c) => SameAt(tab, V(j - 1), c) /\ Reached(stmts, rest, c, j)
    BY <1>8, <1>9, <1>11
  <2>2. \A c : Names(s, c) => c \in SchemaColumns
    BY <1>2, ColumnCases DEF Names
  <2>3. /\ V(j - 1) \in SchemaTables /\ ColumnFits(V(j - 1), s) /\ V(j) = ColumnChanged(V(j - 1), s)
    BY <1>1, AskedColumn DEF s
  <2>4. ASSUME NEW c \in SchemaColumns
        PROVE  \E k \in 0..n : Reached(stmts, rest, c, k) /\ SameAt(q, V(k), c)
    <3>1. CASE Names(s, c)
      <4>1. SameAt(q, V(j), c)
        BY <1>2, <1>3, <2>1, <2>2, <2>3, <3>1, ChangedAlike DEF q
      <4>2. Reached(stmts, rest, c, j)
        BY <2>1, <3>1, Zenon
      <4>3. j \in 0..n
        BY <1>1
      <4> QED
        BY <4>1, <4>2, <4>3, Zenon
    <3>2. CASE ~Names(s, c)
      <4>1. PICK k \in 0..n : Reached(stmts, left, c, k) /\ SameAt(tab, V(k), c)
        BY <1>9
      <4>2. SameAt(tab, q, c)
        BY <1>2, <1>3, <3>2, ChangedElsewhere DEF q
      <4>3. SameAt(q, V(k), c)
        BY <4>1, <4>2, SameBack, SameOn
      <4>4. j \notin Touching(stmts, c)
        BY <3>2 DEF Touching, s
      <4>5. Reached(stmts, rest, c, k)
        BY <4>1, <4>4 DEF Reached
      <4> QED
        BY <4>3, <4>5
    <3> QED
      BY <3>1, <3>2
  <2>5. \A x \in TableNames \ {Target} : new[x] = IF x = Target THEN NoTable ELSE asked[0][x]
    BY <1>4, <1>6 DEF InStep
  <2> HIDE DEF rest, tab
  <2>6. InStep(new, stmts, rest, asked)
    BY <1>4, <1>5, <1>7, <2>4, <2>5 DEF InStep
  <2> QED
    BY <2>6 DEF AlterGoes, new, s, rest
<1> QED
  BY <1>10, <1>11

(* At first nothing ran: the tables are those the call found.               *)
LEMMA AlterBegins ==
    ASSUME NEW stmts, AlterCall(stmts), NEW asked, Asked(asked, stmts)
    PROVE  AlterGoes(asked[0], stmts, DOMAIN stmts, asked)
<1>1. Len(stmts) \in Nat \ {0} /\ DOMAIN stmts = 1..Len(stmts) /\ 0 \in 0..Len(stmts)
  BY AlterCallFacts
<1>2. NameNow(stmts, DOMAIN stmts) = Target /\ NameAfter(stmts, 0) = Target
  BY <1>1, NameFacts DEF NameNow
<1>3. asked[0][Target] = AskedTab(asked, stmts, 0) /\ asked[0][Target] \in SchemaTables
  BY <1>1, <1>2, AskedTables DEF AskedTab
<1>4. \A x \in TableNames \ {Target} : asked[0][x] = IF x = Target THEN NoTable ELSE asked[0][x]
  OBVIOUS
<1>5. ASSUME NEW c \in SchemaColumns
      PROVE  \E k \in 0..Len(stmts) : /\ Reached(stmts, DOMAIN stmts, c, k)
                                      /\ SameAt(asked[0][Target], AskedTab(asked, stmts, k), c)
  <2>1. Reached(stmts, DOMAIN stmts, c, 0)
    BY <1>1 DEF Reached, Touching
  <2>2. SameAt(asked[0][Target], AskedTab(asked, stmts, 0), c)
    BY <1>3 DEF SameAt
  <2> QED
    BY <1>1, <2>1, <2>2
<1> QED
  BY <1>2, <1>3, <1>5, Zenon DEF AlterGoes, InStep

(* In the end the tables are those asked for.                               *)
LEMMA AlterEnds ==
    ASSUME NEW tabs \in SchemaMaps, NEW stmts, AlterCall(stmts), NEW asked, Asked(asked, stmts),
           AlterGoes(tabs, stmts, {}, asked)
    PROVE  tabs = asked[Len(stmts)]
<1> DEFINE n == Len(stmts)
           at == NameAfter(stmts, n)
<1>1. n \in Nat /\ n \in 0..n /\ DOMAIN stmts = 1..n /\ at \in TableNames
  BY AlterCallFacts, NameFacts, TargetNamed
<1>2. NameNow(stmts, {}) = at /\ InStep(tabs, stmts, {}, asked)
  BY DEF NameNow, AlterGoes, Stuck
<1>3. tabs[at] \in SchemaTables /\ asked[n][at] \in SchemaTables /\ asked[n][at] = AskedTab(asked, stmts, n)
  BY <1>1, <1>2, AskedTables DEF InStep, AskedTab
<1>4. ASSUME NEW c \in SchemaColumns
      PROVE  SameAt(tabs[at], asked[n][at], c)
  <2>1. PICK k \in 0..n : Reached(stmts, {}, c, k) /\ SameAt(tabs[at], AskedTab(asked, stmts, k), c)
    BY <1>2 DEF InStep
  <2>2. n \in k..n /\ \A i \in (k + 1)..n : i \in DOMAIN stmts /\ k < i
    BY <1>1
  <2>3. \A i \in (k + 1)..n : ~Names(stmts[i], c)
    BY <2>1, <2>2 DEF Reached, Touching
  <2>4. SameAt(AskedTab(asked, stmts, k), AskedTab(asked, stmts, n), c)
    BY <2>2, <2>3, AskedFrame
  <2> QED
    BY <1>3, <2>1, <2>4, SameOn
<1>5. tabs[at] = asked[n][at]
  BY <1>3, <1>4, SameTables
<1>6. \A x \in TableNames \ {at} : tabs[x] = asked[n][x]
  BY <1>1, <1>2, AskedOthers DEF InStep
<1>7. asked[n] \in SchemaMaps
  BY <1>1 DEF Asked
<1> HIDE DEF n, at
<1>8. \A x \in TableNames : tabs[x] = asked[n][x]
  BY <1>5, <1>6
<1> QED
  BY <1>7, <1>8 DEF SchemaMaps, n

(* And in between it goes on.                                               *)
LEMMA AlterRuns ==
    ASSUME NEW tabs \in SchemaMaps, NEW stmts, AlterCall(stmts), NEW asked, Asked(asked, stmts),
           ~Unordered(stmts), NEW left \in SUBSET DOMAIN stmts, NEW j \in left,
           Accepts(tabs, stmts[j]), AlterGoes(tabs, stmts, left, asked)
    PROVE  AlterGoes(After(tabs, stmts[j]), stmts, left \ {j}, asked)
<1>1. stmts[j].op \in ColumnOps \/ stmts[j].op = "rename"
  BY AlterCallFacts
<1>2. CASE Stuck(tabs, stmts, left)
  BY <1>2, StuckStays DEF AlterGoes
<1>3. CASE InStep(tabs, stmts, left, asked)
  BY <1>1, <1>3, ColumnGoes, RenameGoes
<1> QED
  BY <1>2, <1>3 DEF AlterGoes

-----------------------------------------------------------------------------
(* How a deep clone goes on.  The table may be filled twice: by the call,   *)
(* and by the run that began when the builder was returned.                 *)
CloneCall(stmts, from) ==
    /\ from \in TableNames \ {Target}
    /\ stmts = <<[op |-> "like", t |-> Target, from |-> from], [op |-> "fill", t |-> Target, from |-> from]>>

CopyOf(before, from, n) ==
    [before EXCEPT ![Target] = [cols |-> before[from].cols, key |-> before[from].key,
                                unique |-> before[from].unique, rows |-> n]]

CloneGoes(tabs, from, left, mine, before) ==
    \/ 2 \in left /\ (tabs = before \/ tabs = CopyOf(before, from, 0))
    \/ ~(2 \in left /\ 2 \in mine) /\ tabs = CopyOf(before, from, before[from].rows)
    \/ 2 \notin left \cup mine /\ tabs = CopyOf(before, from, before[from].rows + before[from].rows)

(* The copy is a table like the other.                                      *)
LEMMA CopyFacts ==
    ASSUME NEW before \in SchemaMaps, NEW from \in TableNames \ {Target},
           before[from] \in SchemaTables, NEW n \in Nat
    PROVE  /\ CopyOf(before, from, n) \in SchemaMaps
           /\ CopyOf(before, from, n)[from] = before[from]
           /\ CopyOf(before, from, n)[Target] =
                [cols |-> before[from].cols, key |-> before[from].key,
                 unique |-> before[from].unique, rows |-> n]
           /\ CopyOf(before, from, n)[Target] \in SchemaTables
           /\ CopyOf(before, from, n)[Target].rows = n
<1> DEFINE tab == [cols |-> before[from].cols, key |-> before[from].key,
                   unique |-> before[from].unique, rows |-> n]
<1>1. tab \in SchemaTables
  BY TableFacts, MakesTable
<1>2. tab.rows = n
  OBVIOUS
<1>3. Target \in TableNames
  BY TargetNamed
<1>4. CopyOf(before, from, n) = [before EXCEPT ![Target] = tab]
  BY Zenon DEF CopyOf
<1> HIDE DEF tab
<1>5. /\ CopyOf(before, from, n) \in SchemaMaps /\ CopyOf(before, from, n)[from] = before[from]
      /\ CopyOf(before, from, n)[Target] = tab
  BY <1>1, <1>3, <1>4 DEF SchemaMaps
<1> QED
  BY <1>1, <1>2, <1>5, Zenon DEF tab

(* To copy it again is to copy it with other rows.                          *)
LEMMA CopyAgain ==
    ASSUME NEW before \in SchemaMaps, NEW from \in TableNames \ {Target},
           before[from] \in SchemaTables, NEW n \in Nat, NEW m \in Nat,
           NEW old, old = CopyOf(before, from, n)
    PROVE  [old EXCEPT ![Target] = [old[Target] EXCEPT !.rows = m]] = CopyOf(before, from, m)
<1> DEFINE tab == [cols |-> before[from].cols, key |-> before[from].key,
                   unique |-> before[from].unique, rows |-> m]
<1>1. old[Target] = [cols |-> before[from].cols, key |-> before[from].key,
                     unique |-> before[from].unique, rows |-> n]
  BY CopyFacts
<1>2. [old[Target] EXCEPT !.rows = m] = tab
  BY <1>1
<1>3. CopyOf(before, from, m) = [before EXCEPT ![Target] = tab]
  BY Zenon DEF CopyOf
<1> DEFINE was == [cols |-> before[from].cols, key |-> before[from].key,
                   unique |-> before[from].unique, rows |-> n]
<1>4. old = [before EXCEPT ![Target] = was]
  BY Zenon DEF CopyOf
<1> HIDE DEF tab, was
<1>5. [old EXCEPT ![Target] = tab] = [before EXCEPT ![Target] = tab]
  BY <1>4, TargetNamed DEF SchemaMaps
<1> QED
  BY <1>2, <1>3, <1>5

(* A copy begins without rows.                                              *)
LEMMA LikeCopies ==
    ASSUME NEW before \in SchemaMaps, NEW from \in TableNames \ {Target},
           NEW s, s = [op |-> "like", t |-> Target, from |-> from], Accepts(before, s)
    PROVE  /\ before[Target] = NoTable /\ before[from] \in SchemaTables
           /\ After(before, s) = CopyOf(before, from, 0)
<1>1. s.op = "like" /\ s.t = Target /\ s.from = from
  OBVIOUS
<1>2. before[Target] = NoTable /\ before[from] # NoTable
  BY <1>1 DEF Accepts, Has, ColumnOps
<1>3. before[from] \in SchemaTables
  BY <1>2 DEF SchemaMaps
<1> DEFINE tab == [cols |-> before[from].cols, key |-> before[from].key,
                   unique |-> before[from].unique, rows |-> 0]
<1>4. OnTable(before, s) = tab
  <2>1. OnTable(before, s) = [before[from] EXCEPT !.rows = 0]
    BY <1>1, OnTableCases
  <2>2. [before[from] EXCEPT !.rows = 0] = tab
    BY <1>3, TableFacts
  <2> QED
    BY <2>1, <2>2
<1>5. CopyOf(before, from, 0) = [before EXCEPT ![Target] = tab]
  BY Zenon DEF CopyOf
<1> HIDE DEF tab
<1>6. After(before, s) = [before EXCEPT ![Target] = tab]
  BY <1>1, <1>4 DEF After
<1> QED
  BY <1>2, <1>3, <1>5, <1>6

(* Filled, it has the rows it had and those of the other.                   *)
LEMMA FillCopies ==
    ASSUME NEW before \in SchemaMaps, NEW from \in TableNames \ {Target},
           before[from] \in SchemaTables, NEW n \in Nat,
           NEW s, s = [op |-> "fill", t |-> Target, from |-> from]
    PROVE  After(CopyOf(before, from, n), s) = CopyOf(before, from, n + before[from].rows)
<1> DEFINE old == CopyOf(before, from, n)
           m == n + before[from].rows
<1>1. s.op = "fill" /\ s.t = Target /\ s.from = from
  OBVIOUS
<1>2. m \in Nat
  BY TableFacts
<1>3. old[Target].rows = n /\ old[from] = before[from]
  <2>1. CopyOf(before, from, n)[Target].rows = n
    BY CopyFacts
  <2>2. CopyOf(before, from, n)[from] = before[from]
    BY CopyFacts
  <2> QED
    BY <2>1, <2>2
<1> HIDE DEF old
<1>4. OnTable(old, s) = [old[Target] EXCEPT !.rows = m]
  BY <1>1, <1>3, OnTableCases
<1>5. After(old, s) = [old EXCEPT ![Target] = [old[Target] EXCEPT !.rows = m]]
  BY <1>1, <1>4 DEF After
<1> HIDE DEF m
<1>6. [old EXCEPT ![Target] = [old[Target] EXCEPT !.rows = m]] = CopyOf(before, from, m)
  BY <1>2, CopyAgain DEF old
<1> QED
  BY <1>5, <1>6 DEF old, m

(* What a deep clone asks for.                                              *)
LEMMA CloneAsked ==
    ASSUME NEW stmts, NEW from, CloneCall(stmts, from), NEW asked, Asked(asked, stmts)
    PROVE  /\ Len(stmts) = 2 /\ DOMAIN stmts = {1, 2}
           /\ asked[0] \in SchemaMaps /\ asked[0][Target] = NoTable /\ asked[0][from] \in SchemaTables
           /\ asked[0][from].rows \in Nat
           /\ asked[2] = CopyOf(asked[0], from, asked[0][from].rows)
<1> DEFINE rows == asked[0][from].rows
<1>1. /\ Len(stmts) = 2 /\ DOMAIN stmts = {1, 2}
      /\ stmts[1] = [op |-> "like", t |-> Target, from |-> from]
      /\ stmts[2] = [op |-> "fill", t |-> Target, from |-> from]
  BY DEF CloneCall
<1>2. Aimed(stmts, 1) = stmts[1] /\ Aimed(stmts, 2) = stmts[2]
  <2>1. \A i \in 1..2 : stmts[i].op # "rename"
    BY <1>1
  <2>2. NewNames(stmts, 1 - 1) = {} /\ NewNames(stmts, 2 - 1) = {}
    BY <2>1 DEF NewNames
  <2> QED
    BY <2>2 DEF Aimed
<1>3. /\ asked[0] \in SchemaMaps
      /\ Accepts(asked[0], stmts[1]) /\ asked[1] = After(asked[0], stmts[1])
      /\ asked[2] = After(asked[1], stmts[2])
  <2>1. 1 \in 1..2 /\ 2 \in 1..2 /\ 1 - 1 = 0 /\ 2 - 1 = 1 /\ 0 \in 0..2
    OBVIOUS
  <2> QED
    BY <1>1, <1>2, <2>1 DEF Asked
<1>4. from \in TableNames \ {Target}
  BY DEF CloneCall
<1>5. /\ asked[0][Target] = NoTable /\ asked[0][from] \in SchemaTables
      /\ asked[1] = CopyOf(asked[0], from, 0)
  BY <1>1, <1>3, <1>4, LikeCopies
<1>6. rows \in Nat
  BY <1>5, TableFacts
<1>7. asked[2] = CopyOf(asked[0], from, rows)
  <2>1. 0 \in Nat /\ 0 + rows = rows
    BY <1>6
  <2>2. After(CopyOf(asked[0], from, 0), stmts[2]) = CopyOf(asked[0], from, 0 + rows)
    BY <1>1, <1>3, <1>4, <1>5, <2>1, FillCopies
  <2> QED
    BY <1>3, <1>5, <2>1, <2>2, Zenon
<1> QED
  BY <1>1, <1>3, <1>5, <1>6, <1>7

(* A run of either keeps the copy going.                                    *)
LEMMA CloneRuns ==
    ASSUME NEW stmts, NEW from, CloneCall(stmts, from), NEW asked, Asked(asked, stmts),
           NEW tabs \in SchemaMaps, NEW left, NEW mine, CloneGoes(tabs, from, left, mine, asked[0]),
           NEW i \in {1, 2}, Accepts(tabs, stmts[i])
    PROVE  /\ i \in left => CloneGoes(After(tabs, stmts[i]), from, left \ {i}, mine, asked[0])
           /\ i \in mine => CloneGoes(After(tabs, stmts[i]), from, left, mine \ {i}, asked[0])
<1> DEFINE before == asked[0]
           rows == asked[0][from].rows
           new == After(tabs, stmts[i])
<1>1. /\ stmts[1] = [op |-> "like", t |-> Target, from |-> from]
      /\ stmts[2] = [op |-> "fill", t |-> Target, from |-> from]
      /\ from \in TableNames \ {Target}
  BY DEF CloneCall
<1>2. before \in SchemaMaps /\ before[Target] = NoTable /\ before[from] \in SchemaTables /\ rows \in Nat
  BY CloneAsked
<1>3. ASSUME NEW n \in Nat
      PROVE  CopyOf(before, from, n)[Target] # NoTable
  <2>1. CopyOf(before, from, n)[Target] \in SchemaTables
    BY <1>1, <1>2, CopyFacts
  <2> QED
    BY <2>1, SchemaAssumption
<1>4. 0 \in Nat /\ rows + rows \in Nat /\ 0 + rows = rows
  BY <1>2
<1> HIDE DEF before, rows, new
<1>5. CASE i = 1
  <2>1. tabs[Target] = NoTable /\ new = CopyOf(tabs, from, 0)
    BY <1>1, <1>5, LikeCopies DEF new
  <2>2. tabs = before /\ 2 \in left
    <3>1. /\ tabs # CopyOf(before, from, 0)
          /\ tabs # CopyOf(before, from, rows) /\ tabs # CopyOf(before, from, rows + rows)
      BY <1>2, <1>3, <1>4, <2>1 DEF rows
    <3> QED
      BY <3>1 DEF CloneGoes, before, rows
  <2>3. new = CopyOf(before, from, 0)
    BY <2>1, <2>2
  <2> QED
    BY <1>5, <2>2, <2>3 DEF CloneGoes, before, new
<1>6. CASE i = 2
  <2>1. tabs[Target] # NoTable
    <3>1. stmts[i].op = "fill" /\ stmts[i].t = Target
      BY <1>1, <1>6
    <3> QED
      BY <3>1 DEF Accepts, Has, ColumnOps
  <2>2. CASE 2 \in left /\ tabs = CopyOf(before, from, 0)
    <3>1. After(CopyOf(before, from, 0), stmts[2]) = CopyOf(before, from, 0 + rows)
      BY <1>1, <1>2, <1>4, FillCopies DEF rows, before
    <3>2. new = CopyOf(before, from, rows)
      BY <1>4, <1>6, <2>2, <3>1, Zenon DEF new
    <3> QED
      BY <1>6, <3>2 DEF CloneGoes, before, rows, new
  <2>3. CASE ~(2 \in left /\ 2 \in mine) /\ tabs = CopyOf(before, from, rows)
    <3>1. After(CopyOf(before, from, rows), stmts[2]) = CopyOf(before, from, rows + rows)
      BY <1>1, <1>2, FillCopies DEF rows, before
    <3>2. new = CopyOf(before, from, rows + rows)
      BY <1>6, <2>3, <3>1, Zenon DEF new
    <3> QED
      BY <1>6, <2>3, <3>2 DEF CloneGoes, before, rows, new
  <2>4. CASE 2 \notin left \cup mine
    BY <1>6, <2>4
  <2> QED
    BY <1>2, <2>1, <2>2, <2>3, <2>4 DEF CloneGoes, before, rows
<1> QED
  BY <1>5, <1>6 DEF new, before

(* When nothing of the call is left, the copy has each row once or twice.   *)
LEMMA CloneEnds ==
    ASSUME NEW stmts, NEW from, CloneCall(stmts, from), NEW asked, Asked(asked, stmts),
           NEW tabs, NEW mine, CloneGoes(tabs, from, {}, mine, asked[0])
    PROVE  tabs = asked[2] \/ tabs = [asked[2] EXCEPT ![Target].rows = 2 * @]
<1> DEFINE before == asked[0]
           rows == asked[0][from].rows
           old == asked[2]
<1>1. /\ before \in SchemaMaps /\ before[from] \in SchemaTables /\ rows \in Nat
      /\ old = CopyOf(before, from, rows) /\ from \in TableNames \ {Target}
  BY CloneAsked DEF CloneCall
<1>2. CASE tabs = CopyOf(before, from, rows)
  BY <1>1, <1>2
<1>3. CASE tabs = CopyOf(before, from, rows + rows)
  <2>1. rows + rows \in Nat /\ 2 * rows = rows + rows
    BY <1>1
  <2> HIDE DEF before, rows, old
  <2>2. old[Target].rows = rows
    BY <1>1, CopyFacts, Zenon
  <2>3. [old EXCEPT ![Target].rows = 2 * @] = [old EXCEPT ![Target] = [old[Target] EXCEPT !.rows = 2 * rows]]
    BY <2>2
  <2>4. [old EXCEPT ![Target] = [old[Target] EXCEPT !.rows = rows + rows]] = CopyOf(before, from, rows + rows)
    BY <1>1, <2>1, CopyAgain
  <2> QED
    BY <1>3, <2>1, <2>3, <2>4 DEF old
<1> QED
  BY <1>2, <1>3 DEF CloneGoes

-----------------------------------------------------------------------------
(* What holds of every call: a statement nobody waits for is of an earlier  *)
(* call, unless a deep clone ran it by itself; no trigger is ever made; and *)
(* while only its own statements ran, the call is on its way to what it     *)
(* asks for.                                                                *)
Pending == answer = "pending"
Single(b) == b.kind # "alter" /\ ~Tracked(b) /\ ~DeepClone(b)
Mine == {i \in {1, 2} : <<sent, i>> \in stray}

CallMade == Pending => sent # 0 /\ builder \in Builders /\ Compiles(builder)
NoneLeft == ~Pending => toRun = {}
SentOnce == Pending /\ ~DeepClone(builder) => \A s \in stray : s[1] # sent
TriggersLeft ==
    Pending => \A i \in DOMAIN Statements : Statements[i].op = "triggers" => i \in toRun
DueAsked == Pending /\ due # <<>> => Asked(due, Statements)
CallGoes ==
    Pending /\ quiet /\ due # <<>> =>
        /\ builder.kind = "alter" /\ ~Unordered(Statements) =>
             AlterGoes(tables, Statements, toRun, due)
        /\ DeepClone(builder) => CloneGoes(tables, builder.from, toRun, Mine, due[0])
        /\ Single(builder) => tables = due[IF toRun = {} THEN 1 ELSE 0]

SchemaInv ==
    SchemaTypeOK /\ CallMade /\ NoneLeft /\ SentOnce /\ TriggersLeft /\ DueAsked /\ CallGoes

(* The statements of a call depend on the builder and the dialect alone.    *)
LEMMA StatementsNext ==
    ASSUME NEW b, dialect' = dialect, builder' = b
    PROVE  /\ Statements' = IF Compiles(b) THEN Compiled(b) ELSE <<>>
           /\ Compiles(builder)' <=> Compiles(b)
           /\ Tracked(builder)' <=> Tracked(b)
           /\ DeepClone(builder)' <=> DeepClone(b)
           /\ Single(builder)' <=> Single(b)
BY DEF Statements, Compiles, Compiled, MySql, Tracked, DeepClone, Single

(* And what they ask for on those and the tables before.                    *)
LEMMA AskedNext ==
    ASSUME NEW asked, NEW stmts, Asked(asked, stmts), dialect' = dialect, due' = asked,
           Statements' = stmts
    PROVE  Asked(due, Statements)'
<1>1. ASSUME NEW k \in 1..Len(stmts)
      PROVE  /\ Accepts(due[k - 1], Aimed(Statements, k))'
             /\ due'[k] = After(due'[k - 1], Aimed(Statements', k))
  <2> DEFINE tabs == asked[k - 1]
             s == Aimed(stmts, k)
  <2>1. Accepts(tabs, s) /\ asked[k] = After(tabs, s)
    BY Zenon DEF Asked
  <2>2. due'[k - 1] = tabs /\ Aimed(Statements', k) = s
    BY Zenon
  <2> HIDE DEF tabs, s
  <2>3. Accepts(due[k - 1], Aimed(Statements, k))'
    <3>1. Accepts(tabs, s)'
      BY <2>1 DEF Accepts, ColumnFits, MySql
    <3>2. due'[k - 1] = tabs /\ Aimed(Statements', k) = s
      BY <2>2
    <3> QED
      BY <3>1, <3>2 DEF Accepts, ColumnFits, MySql
  <2>4. due'[k] = After(due'[k - 1], Aimed(Statements', k))
    BY <2>1, <2>2, Zenon
  <2> QED
    BY <2>3, <2>4
<1>2. due' \in [0..Len(Statements') -> SchemaMaps]
  BY DEF Asked
<1> QED
  BY <1>1, <1>2, Zenon DEF Asked

(* The statements there are of a builder.                                   *)
LEMMA StatementsType ==
    ASSUME SchemaTypeOK
    PROVE  /\ Statements \in Seq(SchemaStatements)
           /\ \A i \in DOMAIN Statements : builder \in Builders /\ Compiles(builder)
                                           /\ Statements = Compiled(builder)
           /\ builder = NoBuilder => Statements = <<>>
<1>1. CASE builder = NoBuilder
  <2>1. builder.kind = "none"
    BY <1>1 DEF NoBuilder
  <2>2. Statements = <<>>
    BY <2>1, CompiledCases DEF Statements
  <2> QED
    BY <1>1, <2>2
<1>2. CASE builder # NoBuilder
  <2>1. builder \in Builders
    BY <1>2 DEF SchemaTypeOK
  <2>2. CASE Compiles(builder)
    BY <1>2, <2>1, <2>2, CompiledType DEF Statements
  <2>3. CASE ~Compiles(builder)
    BY <1>2, <2>3 DEF Statements
  <2> QED
    BY <2>2, <2>3
<1> QED
  BY <1>1, <1>2

(* What the statements of each kind of call are.                            *)
LEMMA CallKinds ==
    ASSUME SchemaTypeOK, builder \in Builders, Compiles(builder)
    PROVE  /\ Statements = Compiled(builder) /\ Statements \in Seq(SchemaStatements)
           /\ builder.kind = "alter" => AlterCall(Statements)
           /\ DeepClone(builder) => CloneCall(Statements, builder.from)
           /\ Single(builder) => \E s \in SchemaStatements : Statements = <<s>>
           /\ Tracked(builder) => \E i \in DOMAIN Statements : Statements[i].op = "triggers"
<1>1. Statements = Compiled(builder) /\ Statements \in Seq(SchemaStatements)
  BY StatementsType DEF Statements
<1>2. builder.kind = "alter" => AlterCall(Statements)
  <2> SUFFICES ASSUME builder.kind = "alter"
               PROVE  AlterCall(Statements)
    OBVIOUS
  <2>1. builder \in Alterations
    BY BuilderKinds
  <2>2. Statements = AlterOf(builder)
    BY <1>1, CompiledCases, Zenon
  <2> QED
    BY <2>1, <2>2, AlterCompiled, Zenon DEF AlterCall
<1>3. DeepClone(builder) => CloneCall(Statements, builder.from)
  BY <1>1, CloneCompiled, TargetNamed DEF CloneCall
<1>4. Single(builder) => \E s \in SchemaStatements : Statements = <<s>>
  BY <1>1, SingleCompiled DEF Single
<1>5. Tracked(builder) => \E i \in DOMAIN Statements : Statements[i].op = "triggers"
  BY <1>1, TrackedCompiled
<1> QED
  BY <1>1, <1>2, <1>3, <1>4, <1>5

(* In the first state.                                                      *)
LEMMA SchemaBegins == SchemaInit => SchemaInv
<1> SUFFICES ASSUME SchemaInit
             PROVE  SchemaInv
  OBVIOUS
<1>1. ~Pending /\ toRun = {}
  BY DEF SchemaInit, Pending
<1>2. tables \in SchemaMaps
  <2>1. ASSUME NEW n \in TableNames, tables[n] # NoTable
        PROVE  tables[n] \in SchemaTables
    <3>1. PICK key \in SUBSET {AnyColumn} : tables[n] = [TableOf({AnyColumn}, key, {}) EXCEPT !.rows = 1]
      <4>1. tables[n] \in Before
        BY DEF SchemaInit
      <4> QED
        BY <2>1, <4>1 DEF Before
    <3> DEFINE cols == [x \in {AnyColumn} |-> AnyType]
    <3>2. tables[n] = [cols |-> cols, key |-> key, unique |-> {}, rows |-> 1]
      BY <3>1 DEF TableOf
    <3>3. cols \in [{AnyColumn} -> ColumnTypes] /\ {AnyColumn} \in SUBSET SchemaColumns
      BY SchemaAssumption DEF AnyType, AnyColumn, SchemaColumns
    <3> HIDE DEF cols
    <3> QED
      BY <3>2, <3>3, MakesTable
  <2>2. tables \in [TableNames -> Before]
    BY DEF SchemaInit
  <2> QED
    BY <2>1, <2>2 DEF SchemaMaps
<1>3. SchemaTypeOK
  BY <1>1, <1>2, SchemaAssumption DEF SchemaInit, SchemaTypeOK, SchemaMaps
<1> QED
  BY <1>1, <1>3 DEF SchemaInv, CallMade, NoneLeft, SentOnce, TriggersLeft, DueAsked, CallGoes

(* What is left of earlier calls is of the builder that is offered again.   *)
LEMMA OfferedFacts ==
    ASSUME SchemaTypeOK, NEW b \in Offered
    PROVE  /\ b \in Builders
           /\ Compiles(b) => stray \subseteq (1..sent) \X DOMAIN Compiled(b)
           /\ ~Compiles(b) => stray = {} /\ toRun = {}
<1>1. CASE builder = NoBuilder
  <2>1. b \in Builders
    BY <1>1 DEF Offered
  <2>2. DOMAIN Statements = {}
    BY <1>1, StatementsType
  <2>3. stray = {} /\ toRun = {}
    BY <2>2 DEF SchemaTypeOK
  <2> QED
    BY <2>1, <2>3
<1>2. CASE builder # NoBuilder
  <2>1. b = builder /\ b \in Builders
    BY <1>2 DEF Offered, SchemaTypeOK
  <2>2. /\ Compiles(b) => Statements = Compiled(b)
        /\ ~Compiles(b) => DOMAIN Statements = {}
    BY <2>1 DEF Statements
  <2> QED
    BY <2>1, <2>2 DEF SchemaTypeOK
<1> QED
  BY <1>1, <1>2

(* A call begins.                                                           *)
LEMMA SendKeeps ==
    ASSUME SchemaInv, NEW b \in Offered, SendSchema(b)
    PROVE  SchemaInv'
<1> DEFINE st == Compiled(b)
           asked == AsAsked(tables, st)
<1>1. /\ SchemaTypeOK /\ Compiles(b) /\ b \in Builders
      /\ stray \subseteq (1..sent) \X DOMAIN st /\ sent \in Nat
  <2>1. SchemaTypeOK /\ Compiles(b)
    BY DEF SchemaInv, SendSchema
  <2> QED
    BY <2>1, OfferedFacts, SchemaAssumption DEF SchemaTypeOK
<1>2. /\ dialect' = dialect /\ builder' = b /\ sent' = sent + 1 /\ answer' = "pending"
      /\ toRun' = DOMAIN st /\ due' = asked /\ tables' = tables /\ quiet' = quiet
      /\ stray' = IF DeepClone(b) THEN stray \cup {sent + 1} \X DOMAIN st ELSE stray
      /\ sent < MaxSchemaCalls
  BY DEF SendSchema, MayCall, DeepClone
<1>3. /\ Statements' = st /\ (Compiles(builder)' <=> Compiles(b))
      /\ (Tracked(builder)' <=> Tracked(b)) /\ (DeepClone(builder)' <=> DeepClone(b))
      /\ (Single(builder)' <=> Single(b))
  BY <1>1, <1>2, StatementsNext
<1>4. st \in Seq(SchemaStatements) /\ tables \in SchemaMaps
  BY <1>1, CompiledType DEF SchemaTypeOK, SchemaMaps
<1> HIDE DEF st, asked
<1>5. SchemaTypeOK'
  <2>1. stray' \subseteq (1..sent') \X DOMAIN Statements'
    BY <1>1, <1>2, <1>3
  <2>2. sent' \in 0..MaxSchemaCalls
    BY <1>1, <1>2, SchemaAssumption
  <2> QED
    BY <1>1, <1>2, <1>3, <2>1, <2>2 DEF SchemaTypeOK
<1>6. CallMade' /\ NoneLeft' /\ TriggersLeft'
  <2>1. CallMade'
    BY <1>1, <1>2, <1>3 DEF CallMade
  <2>2. NoneLeft' /\ TriggersLeft'
    BY <1>2, <1>3 DEF NoneLeft, TriggersLeft, Pending
  <2> QED
    BY <2>1, <2>2
<1>7. SentOnce'
  <2> SUFFICES ASSUME ~DeepClone(b), NEW s \in stray
               PROVE  s[1] # sent + 1
    BY <1>2, <1>3 DEF SentOnce
  <2>1. s[1] \in 1..sent
    BY <1>1
  <2> QED
    BY <1>1, <2>1
<1>8. asked # <<>> => Asked(asked, st) /\ asked[0] = tables
  BY <1>4, AsAskedFacts DEF asked
<1>9. DueAsked'
  <2>1. asked # <<>> => Asked(due, Statements)'
    BY <1>2, <1>3, <1>8, AskedNext
  <2> QED
    BY <1>2, <2>1 DEF DueAsked
<1>10. CallGoes'
  <2> SUFFICES ASSUME asked # <<>>
               PROVE  /\ b.kind = "alter" => AlterGoes(tables, st, DOMAIN st, asked)
                      /\ DeepClone(b) => 2 \in DOMAIN st /\ tables = asked[0]
                      /\ Single(b) => DOMAIN st # {} /\ tables = asked[0]
    BY <1>2, <1>3, Zenon DEF CallGoes, CloneGoes
  <2>1. /\ b.kind = "alter" => AlterCall(st)
        /\ DeepClone(b) => CloneCall(st, b.from)
        /\ Single(b) => \E s \in SchemaStatements : st = <<s>>
    <3>1. b.kind = "alter" => AlterCall(st)
      <4> SUFFICES ASSUME b.kind = "alter"
                   PROVE  AlterCall(st)
        OBVIOUS
      <4>1. b \in Alterations
        BY <1>1, BuilderKinds
      <4>2. st = AlterOf(b)
        BY CompiledCases, Zenon DEF st
      <4> QED
        BY <4>1, <4>2, AlterCompiled, Zenon DEF AlterCall
    <3>2. DeepClone(b) => CloneCall(st, b.from)
      BY <1>1, CloneCompiled, TargetNamed DEF CloneCall, st
    <3>3. Single(b) => \E s \in SchemaStatements : st = <<s>>
      BY <1>1, SingleCompiled DEF Single, st
    <3> QED
      BY <3>1, <3>2, <3>3
  <2>2. b.kind = "alter" => AlterGoes(tables, st, DOMAIN st, asked)
    BY <1>8, <2>1, AlterBegins
  <2>3. DeepClone(b) => 2 \in DOMAIN st /\ tables = asked[0]
    BY <1>8, <2>1, CloneAsked
  <2>4. Single(b) => DOMAIN st # {} /\ tables = asked[0]
    BY <1>8, <2>1
  <2> QED
    BY <2>2, <2>3, <2>4
<1> QED
  BY <1>5, <1>6, <1>7, <1>9, <1>10 DEF SchemaInv

(* A call that cannot begin.                                                *)
LEMMA ThrowKeeps ==
    ASSUME SchemaInv, NEW b \in Offered, SendThrows(b)
    PROVE  SchemaInv'
<1>1. SchemaTypeOK /\ ~Compiles(b) /\ b \in Builders /\ stray = {} /\ toRun = {} /\ sent \in Nat
  <2>1. SchemaTypeOK /\ ~Compiles(b)
    BY DEF SchemaInv, SendThrows
  <2> QED
    BY <2>1, OfferedFacts, SchemaAssumption DEF SchemaTypeOK
<1>2. /\ dialect' = dialect /\ builder' = b /\ sent' = sent + 1 /\ answer' = answer /\ ~Pending
      /\ toRun' = toRun /\ due' = due /\ tables' = tables /\ quiet' = quiet /\ stray' = stray
      /\ sent < MaxSchemaCalls
  BY DEF SendThrows, MayCall, Pending
<1>3. SchemaTypeOK'
  <2>1. sent' \in 0..MaxSchemaCalls
    BY <1>1, <1>2, SchemaAssumption
  <2> QED
    BY <1>1, <1>2, <2>1 DEF SchemaTypeOK
<1>4. ~Pending' /\ toRun' = {}
  BY <1>1, <1>2 DEF Pending
<1> QED
  BY <1>3, <1>4 DEF SchemaInv, CallMade, NoneLeft, SentOnce, TriggersLeft, DueAsked, CallGoes

(* A statement that ran is one, and no trigger; the tables stay tables.     *)
LEMMA RunFacts ==
    ASSUME SchemaTypeOK, NEW i \in DOMAIN Statements, Accepts(tables, Statements[i])
    PROVE  /\ Statements[i] \in SchemaStatements /\ Statements[i].op # "triggers"
           /\ After(tables, Statements[i]) \in SchemaMaps
<1>1. Statements[i] \in SchemaStatements
  BY StatementsType
<1>2. Statements[i].op # "triggers"
  BY DEF Accepts, ColumnOps
<1>3. tables \in SchemaMaps
  BY DEF SchemaTypeOK, SchemaMaps
<1> QED
  BY <1>1, <1>2, <1>3, AfterType

(* The database runs a statement of the call.                               *)
LEMMA OwnKeeps ==
    ASSUME SchemaInv, NEW i \in toRun, RunOwn(i)
    PROVE  SchemaInv'
<1> DEFINE st == Statements
           new == After(tables, Statements[i])
<1>1. SchemaTypeOK /\ Pending /\ sent # 0 /\ builder \in Builders /\ Compiles(builder)
  BY DEF SchemaInv, NoneLeft, CallMade
<1>2. i \in DOMAIN st /\ toRun \subseteq DOMAIN st /\ tables \in SchemaMaps
  BY <1>1 DEF SchemaTypeOK, SchemaMaps
<1>3. /\ Accepts(tables, st[i]) /\ tables' = new /\ toRun' = toRun \ {i}
      /\ dialect' = dialect /\ builder' = builder /\ sent' = sent /\ answer' = answer
      /\ stray' = stray /\ due' = due /\ quiet' = quiet
  BY DEF RunOwn
<1>4. /\ Statements' = st /\ Compiles(builder)' /\ (DeepClone(builder)' <=> DeepClone(builder))
      /\ (Single(builder)' <=> Single(builder)) /\ Pending' /\ Mine' = Mine
  <2>1. Statements' = st
    BY <1>1, <1>3, StatementsNext DEF Statements
  <2>2. /\ Compiles(builder)' /\ (DeepClone(builder)' <=> DeepClone(builder))
        /\ (Single(builder)' <=> Single(builder))
    BY <1>1, <1>3, StatementsNext
  <2>3. Pending' /\ Mine' = Mine
    BY <1>1, <1>3 DEF Pending, Mine
  <2> QED
    BY <2>1, <2>2, <2>3
<1>5. st[i].op # "triggers" /\ new \in SchemaMaps
  BY <1>1, <1>2, <1>3, RunFacts
<1> HIDE DEF st, new
<1>6. SchemaTypeOK'
  BY <1>1, <1>2, <1>3, <1>4, <1>5 DEF SchemaTypeOK, SchemaMaps, st
<1>7. CallMade' /\ NoneLeft' /\ SentOnce'
  BY <1>1, <1>3, <1>4 DEF SchemaInv, CallMade, NoneLeft, SentOnce
<1>8. TriggersLeft'
  <2>1. \A j \in DOMAIN st : st[j].op = "triggers" => j \in toRun
    BY <1>1 DEF SchemaInv, TriggersLeft, st
  <2> QED
    BY <1>3, <1>4, <1>5, <2>1 DEF TriggersLeft
<1>9. due # <<>> => Asked(due, st)
  BY <1>1 DEF SchemaInv, DueAsked, st
<1>10. DueAsked'
  <2>1. due # <<>> => Asked(due, Statements)'
    BY <1>3, <1>4, <1>9, AskedNext
  <2> QED
    BY <1>3, <2>1 DEF DueAsked
<1>11. CallGoes'
  <2> SUFFICES ASSUME quiet, due # <<>>
               PROVE  /\ builder.kind = "alter" /\ ~Unordered(st) => AlterGoes(new, st, toRun \ {i}, due)
                      /\ DeepClone(builder) => CloneGoes(new, builder.from, toRun \ {i}, Mine, due[0])
                      /\ Single(builder) => new = due[IF toRun \ {i} = {} THEN 1 ELSE 0]
    BY <1>3, <1>4, Zenon DEF CallGoes
  <2>1. /\ builder.kind = "alter" /\ ~Unordered(st) => AlterGoes(tables, st, toRun, due)
        /\ DeepClone(builder) => CloneGoes(tables, builder.from, toRun, Mine, due[0])
        /\ Single(builder) => tables = due[IF toRun = {} THEN 1 ELSE 0]
    BY <1>1 DEF SchemaInv, CallGoes, st
  <2>2. /\ builder.kind = "alter" => AlterCall(st)
        /\ DeepClone(builder) => CloneCall(st, builder.from)
        /\ Single(builder) => \E s \in SchemaStatements : st = <<s>>
    BY <1>1, CallKinds DEF st
  <2>3. ASSUME builder.kind = "alter", ~Unordered(st)
        PROVE  AlterGoes(new, st, toRun \ {i}, due)
    BY <1>2, <1>3, <1>9, <2>1, <2>2, <2>3, AlterRuns DEF new, st
  <2>4. ASSUME DeepClone(builder)
        PROVE  CloneGoes(new, builder.from, toRun \ {i}, Mine, due[0])
    <3>1. i \in {1, 2}
      BY <1>2, <1>9, <2>2, <2>4, CloneAsked
    <3> QED
      BY <1>2, <1>3, <1>9, <2>1, <2>2, <2>4, <3>1, CloneRuns DEF new, st
  <2>5. ASSUME Single(builder)
        PROVE  new = due[IF toRun \ {i} = {} THEN 1 ELSE 0]
    <3>1. PICK s \in SchemaStatements : st = <<s>>
      BY <2>2, <2>5
    <3>2. i = 1 /\ toRun = {1} /\ Len(st) = 1 /\ toRun \ {i} = {}
      BY <1>2, <3>1
    <3>3. tables = due[0]
      BY <2>1, <2>5, <3>2
    <3>4. Aimed(st, 1) = st[1]
      BY DEF Aimed, NewNames
    <3>5. due[1] = After(due[1 - 1], Aimed(st, 1))
      BY <1>9, <3>2 DEF Asked
    <3>6. due[1] = new
      BY <3>2, <3>3, <3>4, <3>5 DEF new, st
    <3> QED
      BY <3>2, <3>6
  <2> QED
    BY <2>3, <2>4, <2>5
<1> QED
  BY <1>6, <1>7, <1>8, <1>10, <1>11 DEF SchemaInv

(* It refuses one.                                                          *)
LEMMA RefusedKeeps ==
    ASSUME SchemaInv, NEW i \in toRun, Refused(i)
    PROVE  SchemaInv'
<1>1. SchemaTypeOK /\ Pending /\ sent # 0 /\ sent \in Nat
  BY SchemaAssumption DEF SchemaInv, NoneLeft, CallMade, SchemaTypeOK
<1>2. /\ dialect' = dialect /\ builder' = builder /\ sent' = sent /\ tables' = tables
      /\ answer' = "rejected" /\ toRun' = {} /\ quiet' = TRUE
      /\ stray' = stray \cup {sent} \X (toRun \ {i})
  BY DEF Refused, CallEnds
<1>3. Statements' = Statements
  BY <1>2, StatementsNext DEF Statements
<1>4. SchemaTypeOK'
  <2>1. {sent} \X (toRun \ {i}) \subseteq (1..sent) \X DOMAIN Statements
    BY <1>1 DEF SchemaTypeOK
  <2> QED
    BY <1>1, <1>2, <1>3, <2>1 DEF SchemaTypeOK
<1>5. ~Pending' /\ toRun' = {}
  BY <1>2 DEF Pending
<1> QED
  BY <1>4, <1>5 DEF SchemaInv, CallMade, NoneLeft, SentOnce, TriggersLeft, DueAsked, CallGoes

(* It runs, or refuses, one that nobody waits for.                          *)
LEMMA StrayKeeps ==
    ASSUME SchemaInv, NEW s \in stray, RunStray(s)
    PROVE  SchemaInv'
<1> DEFINE st == Statements
           i == s[2]
           new == After(tables, Statements[s[2]])
<1>1. SchemaTypeOK /\ tables \in SchemaMaps
  BY DEF SchemaInv, SchemaTypeOK, SchemaMaps
<1>2. i \in DOMAIN st /\ s[1] \in 1..sent /\ s = <<s[1], i>>
  BY <1>1 DEF SchemaTypeOK
<1>3. /\ dialect' = dialect /\ builder' = builder /\ sent' = sent /\ answer' = answer
      /\ toRun' = toRun /\ due' = due /\ stray' = stray \ {s}
      /\ \/ /\ Accepts(tables, st[i]) /\ tables' = new
            /\ quiet' = (quiet /\ (Pending => s[1] = sent))
         \/ tables' = tables /\ quiet' = quiet
  BY DEF RunStray, Pending
<1>4. /\ Statements' = st /\ (Compiles(builder)' <=> Compiles(builder))
      /\ (DeepClone(builder)' <=> DeepClone(builder))
      /\ (Single(builder)' <=> Single(builder)) /\ (Pending' <=> Pending)
  <2>1. Statements' = st
    BY <1>3, StatementsNext DEF Statements
  <2>2. /\ (Compiles(builder)' <=> Compiles(builder)) /\ (DeepClone(builder)' <=> DeepClone(builder))
        /\ (Single(builder)' <=> Single(builder))
    BY <1>3, StatementsNext
  <2>3. Pending' <=> Pending
    BY <1>3 DEF Pending
  <2> QED
    BY <2>1, <2>2, <2>3
<1>5. Accepts(tables, st[i]) => new \in SchemaMaps
  BY <1>1, <1>2, RunFacts
<1> HIDE DEF st, new, i
<1>6. SchemaTypeOK'
  <2>1. tables' \in SchemaMaps
    BY <1>1, <1>3, <1>5
  <2>2. quiet' \in BOOLEAN
    BY <1>1, <1>3 DEF SchemaTypeOK
  <2> QED
    BY <1>1, <1>3, <1>4, <2>1, <2>2 DEF SchemaTypeOK, SchemaMaps, st
<1>7. CallMade' /\ NoneLeft' /\ SentOnce'
  BY <1>3, <1>4 DEF SchemaInv, CallMade, NoneLeft, SentOnce
<1>8. TriggersLeft'
  BY <1>3, <1>4 DEF SchemaInv, TriggersLeft, st
<1>9. Pending /\ due # <<>> => Asked(due, st)
  BY DEF SchemaInv, DueAsked, st
<1>10. DueAsked'
  <2>1. Pending /\ due # <<>> => Asked(due, Statements)'
    BY <1>3, <1>4, <1>9, AskedNext
  <2> QED
    BY <1>3, <1>4, <2>1 DEF DueAsked
<1>11. CallGoes'
  <2> SUFFICES ASSUME Pending, quiet', due # <<>>
               PROVE  /\ builder.kind = "alter" /\ ~Unordered(st) => AlterGoes(tables', st, toRun, due)
                      /\ DeepClone(builder) => CloneGoes(tables', builder.from, toRun, Mine', due[0])
                      /\ Single(builder) => tables' = due[IF toRun = {} THEN 1 ELSE 0]
    BY <1>3, <1>4, Zenon DEF CallGoes
  <2>1. quiet
    BY <1>1, <1>3 DEF SchemaTypeOK
  <2>2. /\ builder.kind = "alter" /\ ~Unordered(st) => AlterGoes(tables, st, toRun, due)
        /\ DeepClone(builder) => CloneGoes(tables, builder.from, toRun, Mine, due[0])
        /\ Single(builder) => tables = due[IF toRun = {} THEN 1 ELSE 0]
    BY <2>1 DEF SchemaInv, CallGoes, st
  <2>3. CASE tables' = tables
    <3>1. Mine' \subseteq Mine
      BY <1>3 DEF Mine
    <3>2. ASSUME DeepClone(builder)
          PROVE  CloneGoes(tables, builder.from, toRun, Mine', due[0])
      BY <2>2, <3>1, <3>2 DEF CloneGoes
    <3> QED
      BY <2>2, <2>3, <3>2
  <2>4. CASE Accepts(tables, st[i]) /\ tables' = new /\ s[1] = sent
    <3>1. DeepClone(builder)
      BY <2>4 DEF SchemaInv, SentOnce
    <3>2. builder.kind # "alter" /\ ~Single(builder)
      BY <3>1 DEF DeepClone, Single
    <3>3. CloneCall(st, builder.from)
      BY <3>1, CallKinds DEF SchemaInv, CallMade, st
    <3>4. i \in {1, 2}
      BY <1>2, <1>9, <3>3, CloneAsked
    <3>5. i \in Mine /\ Mine' = Mine \ {i}
      <4>1. s = <<sent, i>>
        BY <1>2, <2>4
      <4> QED
        BY <1>3, <3>4, <4>1 DEF Mine
    <3>6. CloneGoes(new, builder.from, toRun, Mine \ {i}, due[0])
      BY <1>1, <1>9, <2>2, <2>4, <3>1, <3>3, <3>4, <3>5, CloneRuns DEF new, st, i
    <3> QED
      BY <2>4, <3>2, <3>5, <3>6
  <2> QED
    BY <1>3, <2>3, <2>4
<1> QED
  BY <1>6, <1>7, <1>8, <1>10, <1>11 DEF SchemaInv

(* The call resolves.                                                       *)
LEMMA ResolveKeeps ==
    ASSUME SchemaInv, Resolve
    PROVE  SchemaInv'
<1>1. /\ dialect' = dialect /\ builder' = builder /\ sent' = sent /\ tables' = tables
      /\ answer' = "resolved" /\ toRun' = {} /\ quiet' = TRUE /\ stray' = stray
  BY DEF Resolve, CallEnds
<1>2. Statements' = Statements
  BY <1>1, StatementsNext DEF Statements
<1>3. SchemaTypeOK'
  BY <1>1, <1>2 DEF SchemaInv, SchemaTypeOK
<1>4. ~Pending' /\ toRun' = {}
  BY <1>1 DEF Pending
<1> QED
  BY <1>3, <1>4 DEF SchemaInv, CallMade, NoneLeft, SentOnce, TriggersLeft, DueAsked, CallGoes

(* As it does, the tables are those it asked for.                           *)
LEMMA ResolveAsAsked ==
    ASSUME SchemaInv, Resolve, quiet, due # <<>>, ~Unordered(Statements)
    PROVE  tables \in {due[Len(Statements)]} \cup Doubled(due[Len(Statements)])
<1>1. SchemaTypeOK /\ Pending /\ toRun = {} /\ tables \in SchemaMaps
  BY DEF SchemaInv, Resolve, Pending, SchemaTypeOK, SchemaMaps
<1>2. builder \in Builders /\ Compiles(builder) /\ Asked(due, Statements)
  BY <1>1 DEF SchemaInv, CallMade, DueAsked
<1>3. /\ builder.kind = "alter" => AlterGoes(tables, Statements, {}, due)
      /\ DeepClone(builder) => CloneGoes(tables, builder.from, {}, Mine, due[0])
      /\ Single(builder) => tables = due[1]
  BY <1>1 DEF SchemaInv, CallGoes
<1>4. ~Tracked(builder)
  BY <1>1, <1>2, CallKinds DEF SchemaInv, TriggersLeft
<1>5. CASE builder.kind = "alter"
  <2>1. tables = due[Len(Statements)]
    BY <1>1, <1>2, <1>3, <1>5, CallKinds, AlterEnds
  <2> QED
    BY <2>1
<1>6. CASE DeepClone(builder)
  <2>1. CloneCall(Statements, builder.from)
    BY <1>1, <1>2, <1>6, CallKinds
  <2>2. tables = due[2] \/ tables = [due[2] EXCEPT ![Target].rows = 2 * @]
    BY <1>2, <1>3, <1>6, <2>1, CloneEnds
  <2>3. Len(Statements) = 2 /\ DOMAIN Statements = {1, 2}
    BY <1>2, <2>1, CloneAsked
  <2>4. Statements[2].op = "fill" /\ Statements[2].t = Target
    BY <2>1 DEF CloneCall
  <2>5. [due[2] EXCEPT ![Target].rows = 2 * @] \in Doubled(due[2])
    BY <2>3, <2>4 DEF Doubled
  <2> QED
    BY <2>2, <2>3, <2>5
<1>7. CASE Single(builder)
  <2>1. Len(Statements) = 1
    BY <1>1, <1>2, <1>7, CallKinds
  <2> QED
    BY <1>3, <1>7, <2>1
<1> QED
  BY <1>4, <1>5, <1>6, <1>7 DEF Single

-----------------------------------------------------------------------------
(* Every step keeps the invariant.                                          *)
LEMMA SchemaKeeps == SchemaInv /\ [SchemaNext]_schemaVars => SchemaInv'
<1> SUFFICES ASSUME SchemaInv, [SchemaNext]_schemaVars
             PROVE  SchemaInv'
  OBVIOUS
<1>1. CASE \E b \in Offered : SendSchema(b) \/ SendThrows(b)
  BY <1>1, SendKeeps, ThrowKeeps
<1>2. CASE \E i \in toRun : RunOwn(i) \/ Refused(i)
  BY <1>2, OwnKeeps, RefusedKeeps
<1>3. CASE \E s \in stray : RunStray(s)
  BY <1>3, StrayKeeps
<1>4. CASE Resolve
  BY <1>4, ResolveKeeps
<1>5. CASE UNCHANGED schemaVars
  <2>1. /\ dialect' = dialect /\ builder' = builder /\ sent' = sent /\ tables' = tables
        /\ answer' = answer /\ toRun' = toRun /\ quiet' = quiet /\ stray' = stray /\ due' = due
    BY <1>5 DEF schemaVars
  <2>2. /\ Statements' = Statements /\ (Compiles(builder)' <=> Compiles(builder))
        /\ (DeepClone(builder)' <=> DeepClone(builder)) /\ (Single(builder)' <=> Single(builder))
    BY <2>1, StatementsNext DEF Statements
  <2>3. SchemaTypeOK'
    BY <2>1, <2>2 DEF SchemaInv, SchemaTypeOK
  <2>4. CallMade' /\ NoneLeft' /\ SentOnce' /\ TriggersLeft'
    BY <2>1, <2>2 DEF SchemaInv, CallMade, NoneLeft, SentOnce, TriggersLeft, Pending
  <2>5. DueAsked'
    <3>1. Pending /\ due # <<>> => Asked(due, Statements)'
      BY <2>1, <2>2, AskedNext DEF SchemaInv, DueAsked
    <3> QED
      BY <2>1, <3>1 DEF DueAsked, Pending
  <2>6. CallGoes'
    <3>1. CallGoes
      BY DEF SchemaInv
    <3> QED
      BY <2>1, <2>2, <3>1, Zenon DEF CallGoes, Pending, Mine
  <2> QED
    BY <2>3, <2>4, <2>5, <2>6 DEF SchemaInv
<1> QED
  BY <1>1, <1>2, <1>3, <1>4, <1>5 DEF SchemaNext

(* The state of the schema builders and of the database stays of its type.  *)
THEOREM SchemaTyped == SchemaSpec => []SchemaTypeOK
<1>1. SchemaInv => SchemaTypeOK
  BY DEF SchemaInv
<1> QED
  BY <1>1, SchemaBegins, SchemaKeeps, PTL DEF SchemaSpec

(* Whatever order the database runs the statements of a call in, a call that *)
(* resolves has left the tables as they would be after the statements one by *)
(* one, unless three of them name one column or two modify it, or what is    *)
(* left of an earlier, refused call got in between; a deep clone holds each  *)
(* row once or twice.                                                        *)
THEOREM SchemaCallsAsAsked == SchemaSpec => ResolvedAsAsked
<1> DEFINE Step == answer = "pending" /\ answer' = "resolved" /\ quiet /\ due # <<>> /\ ~Unordered(Statements)
                   => LET asked == due[Len(Statements)] IN tables \in {asked} \cup Doubled(asked)
<1>1. SchemaInv /\ [SchemaNext]_schemaVars => [Step]_schemaVars
  <2> SUFFICES ASSUME SchemaInv, SchemaNext, answer = "pending", answer' = "resolved",
                      quiet, due # <<>>, ~Unordered(Statements)
               PROVE  tables \in {due[Len(Statements)]} \cup Doubled(due[Len(Statements)])
    OBVIOUS
  <2>1. Resolve
    BY DEF SchemaNext, SendSchema, SendThrows, MayCall, RunOwn, Refused, CallEnds, RunStray
  <2> QED
    BY <2>1, ResolveAsAsked
<1> QED
  BY <1>1, SchemaBegins, SchemaKeeps, PTL DEF SchemaSpec, ResolvedAsAsked
=============================================================================
