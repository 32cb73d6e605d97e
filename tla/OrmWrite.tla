------------------------------- MODULE OrmWrite -------------------------------
(***************************************************************************)
(* The builders of INSERT, UPDATE and DELETE: their methods are called in  *)
(* any order, and toDB() compiles the columns, the rows of cells, and the  *)
(* list of values the placeholders stand for, in three dialects.  What a   *)
(* row gives, the cells that hold it and the placeholders are kept apart.  *)
(***************************************************************************)
EXTENDS Filters, Naturals, Sequences, FiniteSets

CONSTANTS
    WriteColumns,  \* columns of the table
    KeyColumn,     \* the one of them that is its key and counts itself
    NoColumn,      \* a value that belongs to no column
    NoWrite,       \* nothing compiled
    MaxRows,       \* bound: rows of an insert
    MaxSteps       \* bound: calls

ASSUME WriteAssumption ==
    /\ KeyColumn \in WriteColumns /\ WriteColumns # {KeyColumn}
    /\ NoColumn \notin WriteColumns
    /\ {MaxRows, MaxSteps} \subseteq Nat

VARIABLES
    engine,     \* sql (mysql), sqlite or mssql
    model,      \* there is a model, whose columns are known
    notNull,    \* its columns take no NULL
    inProgress, \* the builder
    steps,      \* calls so far
    compiled    \* what toDB() returned, when it was the last call, or NoWrite

writeVars == <<engine, model, notNull, inProgress, steps, compiled>>

(* given is history: what the rows say; moved too: values() was called again*)
(* and with other columns.                                                  *)
NewWriter(what) ==
    [kind |-> what, columns |-> <<>>, values |-> <<>>, given |-> <<>>, moved |-> FALSE,
     ignore |-> FALSE, replace |-> FALSE, duplicate |-> FALSE, updates |-> <<>>,
     sets |-> <<>>, wheres |-> 0, limit |-> FALSE, offset |-> FALSE]

WriteInit ==
    /\ engine \in {"sql", "sqlite", "mssql"}
    /\ model \in BOOLEAN /\ notNull \in BOOLEAN /\ (notNull => model)
    /\ \E what \in {"insert", "update", "delete"} : inProgress = NewWriter(what)
    /\ steps = 0 /\ compiled = NoWrite

OnWriter(w) ==
    /\ steps' = steps + 1
    /\ inProgress' = w /\ compiled' = NoWrite
    /\ UNCHANGED <<engine, model, notNull>>

-----------------------------------------------------------------------------
DataRows == [WriteColumns -> {"value", "null", "undefined"}]
Cell(n, r, c) == IF r[c] = "value" THEN <<"value", n, c>> ELSE <<r[c], 0, NoColumn>>
IsValue(cell) == cell[1] = "value"

(* Sequences of keys of the data: of those it gives, and some it leaves     *)
(* undefined.                                                               *)
KeyOrders(rows) ==
    {s \in UNION {[1..n -> WriteColumns] : n \in 0..Cardinality(WriteColumns)} :
        /\ Seqs!IsInjective(s)
        /\ \A i \in DOMAIN rows, c \in WriteColumns : rows[i][c] # "undefined" => c \in Seqs!ToSet(s)}

(* values() with an object or an array: its keys are the columns from then  *)
(* on, its rows are added to those that are there.                          *)
WriteValues(rows, columns) ==
    LET n == Len(inProgress.values)
    IN  OnWriter([inProgress EXCEPT
            !.columns = columns,
            !.values = @ \o [i \in DOMAIN rows |->
                                [j \in DOMAIN columns |-> Cell(n + i, rows[i], columns[j])]],
            !.given = @ \o rows,
            !.moved = @ \/ (n > 0 /\ columns # inProgress.columns)])

OrIgnore == inProgress.kind = "insert" /\ OnWriter([inProgress EXCEPT !.ignore = TRUE])
OrReplace == inProgress.kind = "insert" /\ OnWriter([inProgress EXCEPT !.replace = TRUE])

(* onDuplicate(column), and update(columns) of what it returns; raw is a    *)
(* RawQuery with two values.                                                *)
OnDuplicate(updates) ==
    /\ inProgress.kind = "insert"
    /\ OnWriter([inProgress EXCEPT !.duplicate = TRUE, !.updates = updates])

(* UpdateQueryBuilder.update(): one value is an array of n elements.        *)
Assigns(columns, n) ==
    /\ inProgress.kind = "update"
    /\ OnWriter([inProgress EXCEPT
          !.sets = [i \in DOMAIN columns |-> <<columns[i], IF i = 1 THEN n ELSE 1>>]])

WriteWhere ==
    /\ inProgress.kind # "insert" /\ inProgress.wheres < 2
    /\ OnWriter([inProgress EXCEPT !.wheres = @ + 1])
WriteTake == inProgress.kind = "delete" /\ OnWriter([inProgress EXCEPT !.limit = TRUE])
WriteSkip == inProgress.kind = "delete" /\ OnWriter([inProgress EXCEPT !.offset = TRUE])

-----------------------------------------------------------------------------
IsKey(w, j) == model /\ w.columns[j] = KeyColumn

(* The elements of s at some of its positions, in their order.              *)
Keep(s, positions) ==
    LET kept == Filtered([j \in DOMAIN s |-> j], positions)
    IN  [k \in DOMAIN kept |-> s[kept[k]]]

(* The key is among the columns when every row has one.                     *)
ColumnsOf(w) ==
    Keep(w.columns, {j \in DOMAIN w.columns : IsKey(w, j) =>
                        \A row \in Seqs!ToSet(w.values) : j <= Len(row) /\ IsValue(row[j])})

(* Mutant: a row without a key says NULL in its place.                      *)
CellsWithKey(w, row) == row

(* A row lists its key if it has one.                                       *)
CellsOf(w, row) == Keep(row, {j \in DOMAIN row : IsKey(w, j) => IsValue(row[j])})

WrittenRows(w) == [i \in DOMAIN w.values |-> CellsOf(w, w.values[i])]
ValuesOf(w) ==
    LET cells == Seqs!FlattenSeq(WrittenRows(w))
    IN  Filtered(cells, {cell \in Seqs!ToSet(cells) : IsValue(cell)})

(* compile() throws: no columns, no rows, a row longer than the columns,    *)
(* NULL where the model forbids it, or what the engine does not know.      *)
InsertThrows(w) ==
    \/ w.values = <<>>
    \/ \E row \in Seqs!ToSet(w.values) :
          \/ Len(row) > Len(w.columns)
          \/ \E j \in DOMAIN row : notNull /\ ~IsKey(w, j) /\ ~IsValue(row[j])
    \/ ColumnsOf(w) = <<>>
    \/ engine = "mssql" /\ w.ignore
    \/ w.duplicate /\ ~w.replace /\ w.updates = <<>>

(* The value of a column in the first row; for the text, and as it is found.*)
FirstGiven(w, c) == Cell(1, w.given[1], c)
FirstBound(w, c) ==
    LET js == {j \in DOMAIN w.columns : w.columns[j] = c /\ j <= Len(w.values[1])}
    IN  IF js = {} THEN <<"undefined", 0, NoColumn>> ELSE w.values[1][CHOOSE j \in js : TRUE]

Raw(n) == <<"raw", n, NoColumn>>
Updates(w) == IF w.duplicate /\ ~w.replace THEN w.updates ELSE <<>>

UpsertMarks(w) ==
    Seqs!FlattenSeq([k \in DOMAIN Updates(w) |->
        IF Updates(w)[k] = NoColumn THEN <<Raw(1), Raw(2)>> ELSE <<FirstGiven(w, Updates(w)[k])>>])

(* Only sqlite flattens the values of a raw update.                         *)
UpsertBinds(w) ==
    Seqs!FlattenSeq([k \in DOMAIN Updates(w) |->
        IF Updates(w)[k] # NoColumn THEN <<FirstBound(w, Updates(w)[k])>>
        ELSE IF engine = "sqlite" THEN <<Raw(1), Raw(2)>> ELSE <<Raw(0)>>])

(* mssql merges the row whose unique column has the value of the first row, *)
(* before it inserts.                                                       *)
Merges(w) == engine = "mssql" /\ Updates(w) # <<>>
Checked == CHOOSE c \in WriteColumns : c # KeyColumn

InsertMarks(w) ==
    IF Merges(w) THEN <<FirstGiven(w, Checked)>> \o UpsertMarks(w) \o ValuesOf(w)
    ELSE ValuesOf(w) \o UpsertMarks(w)
InsertBinds(w) ==
    IF Merges(w) THEN <<FirstBound(w, Checked)>> \o UpsertBinds(w) \o ValuesOf(w)
    ELSE ValuesOf(w) \o UpsertBinds(w)

-----------------------------------------------------------------------------
WhereMarks(w) == [i \in 1..w.wheres |-> <<"where", i, NoColumn>>]

(* An array is spread over the list of values.                              *)
SetMarks(w) == [k \in DOMAIN w.sets |-> <<"set", 1, w.sets[k][1]>>]
SetBinds(w) ==
    Seqs!FlattenSeq([k \in DOMAIN w.sets |-> [i \in 1..w.sets[k][2] |-> <<"set", i, w.sets[k][1]>>]])

(* mssql writes TOP and its number before FROM.                             *)
LimitMarks(w) ==
    IF engine = "mssql" THEN <<>>
    ELSE (IF w.limit THEN <<<<"limit", 0, NoColumn>>>> ELSE <<>>)
           \o (IF w.offset THEN <<<<"offset", 0, NoColumn>>>> ELSE <<>>)

(* The placeholders in the order of the text.                               *)
WriteMarks(w) ==
    CASE w.kind = "insert" -> InsertMarks(w)
      [] w.kind = "update" -> SetMarks(w) \o WhereMarks(w)
      [] w.kind = "delete" -> WhereMarks(w) \o LimitMarks(w)

(* The values in the order they are listed.                                 *)
WriteBinds(w) ==
    CASE w.kind = "insert" -> InsertBinds(w)
      [] w.kind = "update" -> SetBinds(w) \o WhereMarks(w)
      [] w.kind = "delete" -> WhereMarks(w) \o LimitMarks(w)

WriteToDB ==
    /\ steps' = steps + 1
    /\ compiled' = IF inProgress.kind = "insert" /\ InsertThrows(inProgress) THEN NoWrite
                   ELSE [columns |-> ColumnsOf(inProgress), rows |-> WrittenRows(inProgress),
                         marks |-> WriteMarks(inProgress), binds |-> WriteBinds(inProgress)]
    /\ UNCHANGED <<engine, model, notNull, inProgress>>

WriteCall ==
    \/ /\ inProgress.kind = "insert"
       /\ \E n \in 1..(MaxRows - Len(inProgress.values)) : \E rows \in [1..n -> DataRows] :
             \E columns \in KeyOrders(rows) : WriteValues(rows, columns)
    \/ OrIgnore \/ OrReplace
    \/ \E updates \in {<<>>, <<Checked>>, <<NoColumn, Checked>>} : OnDuplicate(updates)
    \/ \E n \in 0..2 : Assigns(<<Checked, KeyColumn>>, n)
    \/ WriteWhere \/ WriteTake \/ WriteSkip
    \/ WriteToDB

WriteNext == steps < MaxSteps /\ WriteCall

WriteSpec == WriteInit /\ [][WriteNext]_writeVars
-----------------------------------------------------------------------------
(* Rows with and without a key in one insert.                               *)
KeysMixed(w) ==
    model /\ \E r, s \in Seqs!ToSet(w.given) : r[KeyColumn] = "value" /\ s[KeyColumn] # "value"

(* What the compilers cannot lay out: values() again with other columns,    *)
(* arrays as values, and raw updates outside sqlite.                        *)
Misfit(w) ==
    \/ w.moved
    \/ \E s \in Seqs!ToSet(w.sets) : s[2] # 1
    \/ engine # "sqlite" /\ NoColumn \in Seqs!ToSet(Updates(w))

(* Every row of an INSERT has a cell for each of its columns, which holds   *)
(* what the row gives for that column, unless rows with a key are mixed     *)
(* with rows without one: then their lengths differ, so that the database   *)
(* refuses them, and no cell is taken for that of another column.  And each *)
(* placeholder of an INSERT, an upsert, an UPDATE or a DELETE meets its own *)
(* value.  Not so after what Misfit lists.                                  *)
WriteFits ==
    compiled # NoWrite /\ ~Misfit(inProgress) =>
        /\ compiled.marks = compiled.binds
        /\ \A i \in DOMAIN compiled.rows :
              IF Len(compiled.rows[i]) = Len(compiled.columns)
                THEN \A j \in DOMAIN compiled.columns :
                        compiled.rows[i][j] = Cell(i, inProgress.given[i], compiled.columns[j])
                ELSE KeysMixed(inProgress)
===============================================================================
