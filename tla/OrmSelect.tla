------------------------------ MODULE OrmSelect ------------------------------
(***************************************************************************)
(* A select builder: its methods are called in any order, any number of    *)
(* times and before or after it was compiled or cloned; toDB() compiles    *)
(* the text of the query and the list of values its placeholders stand     *)
(* for.  A statement is the values of its placeholders, in their order.    *)
(***************************************************************************)
EXTENDS Filters, Naturals, Sequences

CONSTANTS
    MaxPart,   \* bound: conditions of a query, and compilations that add one
    MaxCalls,  \* bound: calls
    NoQuery    \* no query, no compiled statement

ASSUME SelectAssumption == {MaxPart, MaxCalls} \subseteq Nat

VARIABLES
    query,    \* the builder
    copy,     \* what clone() returned, or NoQuery
    related,  \* conditions of the query whereExist(relation) made, shared by both
    calls,    \* calls so far
    out       \* what toDB() returned, when it was the last call, or NoQuery

selectVars == <<query, copy, related, calls, out>>

(* kind is where, having (a condition on an aggregate), raw, nested or      *)
(* exists; of joins table, misnamed or raw; qualified when its columns      *)
(* carry the alias of the query.                                            *)
Statement(kind, values, qualified) ==
    [kind |-> kind, values |-> values, qualified |-> qualified]

(* The values of the next statement of a part, which no other one has.      *)
Values(part, stmts, n) == [i \in 1..n |-> <<part, Len(stmts), i>>]

NewQuery == [columns |-> <<>>, joins |-> <<>>, wheres |-> <<>>, groups |-> <<>>,
             limit |-> <<>>, offset |-> <<>>, alias |-> "",
             relation |-> "none", relWheres |-> <<>>, recursive |-> FALSE]

SelectInit ==
    /\ query = NewQuery /\ copy = NoQuery /\ related = <<>>
    /\ out = NoQuery /\ calls = 0

Call == calls < MaxCalls /\ calls' = calls + 1
OnQuery(q) == Call /\ query' = q /\ out' = NoQuery /\ UNCHANGED <<copy, related>>
Qualified(q) == q.alias # ""

(* A statement is added to a part of the query.                             *)
Add(part, kind, n, qualified) ==
    OnQuery([query EXCEPT ![part] = Append(@, Statement(kind, Values(part, @, n), qualified))])

(* where and its siblings: whereNull, where, and whereIn and whereBetween   *)
(* take no, one and more values; having is where() on an aggregate column,  *)
(* raw a raw condition.                                                     *)
Where(kind, n) ==
    /\ Len(query.wheres) < MaxPart
    /\ kind = "having" => n = 1
    /\ Add("wheres", kind, n, kind # "raw" /\ Qualified(query))

(* where(function): the callback fills a builder of its own, whose columns  *)
(* take the alias the query has at that moment.                             *)
WhereNested ==
    /\ Len(query.wheres) < MaxPart
    /\ Add("wheres", "nested", 2, Qualified(query))

HasExists(q) == \E i \in DOMAIN q.wheres : q.wheres[i].kind = "exists"

(* whereExist(relation): the callback may add a condition; the one that     *)
(* names the outer query is only added when the query is compiled.          *)
WhereExist(n) ==
    /\ Len(query.wheres) < MaxPart /\ related = <<>>
    /\ Call
    /\ query' = [query EXCEPT !.wheres = Append(@, Statement("exists", <<>>, FALSE))]
    /\ related' = <<Statement("where", Values("related", <<>>, n), FALSE)>>
    /\ out' = NoQuery
    /\ UNCHANGED copy

(* innerJoin and the others with a raw query, here one with a value, or     *)
(* with a table and its keys.                                               *)
Join(kind) ==
    /\ query.joins = <<>>
    /\ \/ kind = "raw" /\ Add("joins", "raw", 1, FALSE)
       \/ kind = "table" /\ Add("joins", "table", 0, Qualified(query))

(* select of a column, or of a raw query with values.                       *)
Select(n) ==
    /\ query.columns = <<>>
    /\ Add("columns", IF n = 0 THEN "column" ELSE "raw", n, n = 0 /\ Qualified(query))

GroupBy(n) == query.groups = <<>> /\ Add("groups", "other", n, FALSE)

Take == OnQuery([query EXCEPT !.limit = <<"limit">>])
Skip == OnQuery([query EXCEPT !.offset = <<"offset">>])

(* clearColumns, clearWhere, clearJoins, clearGroupBy.                      *)
Clear(part) == OnQuery([query EXCEPT ![part] = <<>>])

(* setAlias: the statements made so far take it over (a join for its own    *)
(* table, which is not kept here).                                          *)
WithAlias(q, alias) ==
    LET Renamed(s) == [s EXCEPT !.qualified = s.kind \in {"where", "having", "column"} \/ @]
    IN  [q EXCEPT !.alias = alias,
            !.columns = [i \in DOMAIN @ |-> Renamed(@[i])],
            !.wheres = [i \in DOMAIN @ |-> Renamed(@[i])]]

SetAlias == OnQuery(WithAlias(query, "own"))

(* populate of a belongs-to relation; its callback may add a condition.     *)
Populate(n) ==
    /\ query.relation = "none"
    /\ OnQuery([query EXCEPT !.relation = "pending",
                  !.relWheres = <<Statement("where", Values("relation", <<>>, n), TRUE)>>])

(* withRecursive(): the query of a tree.                                    *)
WithRecursive == ~query.recursive /\ OnQuery([query EXCEPT !.recursive = TRUE])

(* The clone of a join takes the alias of the query for its table: without  *)
(* one it throws, as that of a raw join does.                               *)
Clonable(q) == \A i \in DOMAIN q.joins : q.joins[i].kind = "table" /\ q.joins[i].qualified
Misnamed == Statement("misnamed", <<>>, FALSE)

(* clone() copies the statements, not the groups and not the relations.     *)
Cloned(q) ==
    [q EXCEPT !.joins = [i \in DOMAIN @ |-> Misnamed], !.groups = <<>>,
              !.relation = "none", !.relWheres = <<>>, !.recursive = FALSE]

Clone ==
    /\ copy = NoQuery /\ Clonable(query)
    /\ Call
    /\ copy' = Cloned(query)
    /\ out' = NoQuery
    /\ UNCHANGED <<query, related>>

-----------------------------------------------------------------------------
(* A belongs-to relation is compiled: its table is joined and its query     *)
(* merged into the one that populates it.                                   *)
Joined(q) ==
    LET a == IF q.alias = "" THEN WithAlias(q, "model") ELSE q
    IN  [a EXCEPT !.relation = "merged",
            !.joins = Append(@, Statement("table", <<>>, TRUE)),
            !.columns = Append(@, Statement("column", <<>>, TRUE)),
            !.wheres = @ \o q.relWheres]

(* Mutant: nothing remembers that it was compiled.                          *)
MergedAgain(q) == IF q.relation = "none" THEN q ELSE Joined(q)
Merged(q) == IF q.relation = "pending" THEN Joined(q) ELSE q

Bindings(stmts) == Seqs!FlattenSeq([i \in DOMAIN stmts |-> stmts[i].values])

(* An EXISTS statement holds the values of the related query's conditions.  *)
Built(s, conditions) ==
    IF s.kind = "exists" THEN [s EXCEPT !.values = Bindings(conditions)] ELSE s

(* Conditions on an aggregate go to HAVING, the others to WHERE.            *)
Having(stmts) == {s \in Seqs!ToSet(stmts) : s.kind = "having"}
WhereOf(q, conditions) ==
    LET stmts == Filtered(q.wheres, Seqs!ToSet(q.wheres) \ Having(q.wheres))
    IN  [i \in DOMAIN stmts |-> Built(stmts[i], conditions)]
HavingOf(q) == Filtered(q.wheres, Having(q.wheres))

(* LIMIT and OFFSET; an OFFSET alone gets a LIMIT without placeholder.      *)
LimitOf(q) == q.limit \o q.offset

(* Mutant: the conditions are listed before the joins.                      *)
BoundWhereFirst(q, conditions) ==
    Bindings(WhereOf(q, conditions)) \o Bindings(q.joins) \o Bindings(HavingOf(q)) \o LimitOf(q)

(* The values compile() lists, in its order: those of the columns and of    *)
(* the groups are left out.                                                 *)
Bound(q, conditions) ==
    Bindings(q.joins) \o Bindings(WhereOf(q, conditions)) \o Bindings(HavingOf(q)) \o LimitOf(q)

(* The order of the parts in the text.                                      *)
Marks(q, conditions) ==
    Bindings(q.columns) \o Bindings(q.joins) \o Bindings(WhereOf(q, conditions))
      \o Bindings(q.groups) \o Bindings(HavingOf(q)) \o LimitOf(q)

(* The alias FROM declares: the conditions are compiled before it and may   *)
(* have set it.                                                             *)
FromAlias(before, after) == after

(* What compile() returns for q, compiled to c: marks are the values its    *)
(* placeholders stand for, outer the alias EXISTS names.                    *)
Output(of, c, from, conditions, outer) ==
    [of |-> of, from |-> from, outer |-> outer,
     marks |-> Marks(c, conditions), binds |-> Bound(c, conditions),
     columns |-> c.columns, joins |-> c.joins, where |-> WhereOf(c, conditions),
     groups |-> c.groups, having |-> HavingOf(c)]

(* A recursion is compiled: two clones of the query, the first without its  *)
(* joins, the second, which is joined with the recursion, without its       *)
(* conditions.                                                              *)
Recursion(q, from, conditions, outer) ==
    LET first == [Cloned(q) EXCEPT !.joins = <<>>]
        again == WithAlias([Cloned(q) EXCEPT !.wheres = <<>>], "recursive")
    IN  [Output("recursion", first, from, conditions, outer) EXCEPT
           !.marks = @ \o Marks(again, conditions), !.binds = @ \o Bound(again, conditions),
           !.joins = again.joins]

(* Every compilation of a recursion joins it once more.                     *)
JoinedAgain(q) ==
    IF q.recursive THEN [q EXCEPT !.joins = Append(@, Statement("table", <<>>, TRUE))] ELSE q

(* toDB(): every compilation adds the condition of EXISTS on the outer row  *)
(* again, and gives the builder whereExist() was called on an alias.        *)
ToDB ==
    LET m == Merged(query)
        aliased == IF HasExists(m) /\ m.alias = "" THEN [m EXCEPT !.alias = "exists"] ELSE m
        conditions == IF HasExists(m) THEN Append(related, Statement("raw", <<>>, TRUE)) ELSE related
        outer == IF HasExists(m) THEN aliased.alias ELSE ""
    IN  /\ m.recursive => Clonable(m)
        /\ Len(conditions) <= MaxPart
        /\ Call
        /\ query' = JoinedAgain(aliased)
        /\ related' = conditions
        /\ out' = IF m.recursive
                    THEN Recursion(query', m.alias, conditions, outer)
                    ELSE Output("query", aliased, FromAlias(m.alias, aliased.alias), conditions, outer)
        /\ UNCHANGED copy

(* toDB() of a recursion that cannot be cloned throws, with its relations   *)
(* compiled.                                                                *)
ToDBThrows ==
    LET m == Merged(query)
    IN  m.recursive /\ ~Clonable(m) /\ OnQuery(m)

(* toDB() of the clone.                                                     *)
CopyToDB ==
    /\ copy # NoQuery
    /\ LET aliased == IF HasExists(copy) /\ query.alias = "" THEN [query EXCEPT !.alias = "exists"] ELSE query
           conditions == IF HasExists(copy) THEN Append(related, Statement("raw", <<>>, TRUE)) ELSE related
       IN  /\ Len(conditions) <= MaxPart
           /\ Call
           /\ query' = aliased
           /\ related' = conditions
           /\ out' = Output("copy", copy, copy.alias, conditions,
                            IF HasExists(copy) THEN aliased.alias ELSE "")
           /\ UNCHANGED copy

SelectNext ==
    \/ \E kind \in {"where", "having", "raw"}, n \in 0..1 : Where(kind, n)
    \/ \E n \in 0..1 : WhereExist(n) \/ GroupBy(n) \/ Select(n) \/ Populate(n)
    \/ \E kind \in {"raw", "table"} : Join(kind)
    \/ \E part \in {"columns", "wheres", "joins", "groups"} : Clear(part)
    \/ WhereNested \/ Take \/ Skip \/ SetAlias \/ WithRecursive
    \/ Clone \/ ToDB \/ ToDBThrows \/ CopyToDB

SelectSpec == SelectInit /\ [][SelectNext]_selectVars
-----------------------------------------------------------------------------
(* What is compiled fits together.  The list of values is that of the       *)
(* placeholders in the text, one by one, whatever was called before.  The   *)
(* condition a compilation adds to EXISTS names the outer query by the      *)
(* alias its FROM declares ("WHERE is first, it can change table alias").   *)
(* And in a query joined with a populated relation every condition and      *)
(* every column names its table.  Not so: raw columns and groups that have  *)
(* values, EXISTS and conditions of a clone or of a recursion, raw and      *)
(* nested conditions, and an alias that an EXISTS compiled before gave the  *)
(* query.  It says nothing of the joins of a clone, which are misnamed.     *)
StatementFits ==
    out # NoQuery =>
      /\ Bindings(out.columns) = <<>> /\ Bindings(out.groups) = <<>> => out.marks = out.binds
      /\ out.of = "query" /\ out.outer # "" => out.outer = out.from
      /\ out.of = "query" /\ query.relation = "merged" /\ out.from # "exists" =>
           \A part \in {out.columns, out.where} : \A i \in DOMAIN part :
              part[i].kind \in {"where", "column"} => part[i].qualified

(* A query compiled twice in a row gives the same statement, but for a      *)
(* recursion, which the second one joins once more, and for nothing else of *)
(* it; unless it has an EXISTS on a relation, which grows.                  *)
RecompilesTheSame ==
    [][ToDB /\ out # NoQuery /\ ~HasExists(query) /\ out.of # "copy" =>
         out' = IF query.recursive THEN [out EXCEPT !.joins = Append(@, Misnamed)] ELSE out]_selectVars
==============================================================================
