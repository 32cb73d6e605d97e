--------------------------- MODULE OrmTransactions ---------------------------
(***************************************************************************)
(* transaction() of the SQL drivers.  A driver object is shared by every   *)
(* query of the process: sqlite has one connection, mysql a pool, mssql a  *)
(* pool and one field that names the transaction queries go through.       *)
(* A transaction writes two rows, one after the other; other code writes   *)
(* rows of its own at any moment.  Each query is answered in one step.     *)
(***************************************************************************)
EXTENDS FiniteSets

CONSTANTS
    Txs,      \* calls of transaction()
    Others,   \* queries that belong to no transaction
    TxConns,  \* connections of the pool; Db is the only one of sqlite
    Db,
    NoTx      \* no transaction, no connection

ASSUME TxAssumption ==
    /\ Db \in TxConns
    /\ NoTx \notin Txs \cup Others \cup TxConns
    /\ Txs \cap Others = {}

VARIABLES
    kind,     \* the driver: sqlite, mysql or mssql
    table,    \* the committed rows
    begun,    \* begun[c]: the transaction begun on a connection, or NoTx
    pending,  \* pending[c]: rows written in it
    request,  \* _transactionRequest of mssql: a connection or NoTx
    step,     \* step[t]: what a transaction does next, or how it ended
    own,      \* own[t]: the connection its BEGIN went to
    answered, \* the other queries that were answered
    met       \* history: transactions that were open beside another one

txVars == <<kind, table, begun, pending, request, step, own, answered, met>>

RowsOf(t) == {t} \X {"first", "second"}
Open == {begun[c] : c \in TxConns} \ {NoTx}
FreeConns == {c \in TxConns : begun[c] = NoTx}

TxInit ==
    /\ kind \in {"sqlite", "mysql", "mssql"}
    /\ table = {} /\ answered = {} /\ met = {}
    /\ begun = [c \in TxConns |-> NoTx]
    /\ pending = [c \in TxConns |-> {}]
    /\ request = NoTx
    /\ step = [t \in Txs |-> "idle"]
    /\ own = [t \in Txs |-> NoTx]

StepTo(t, s) == step' = [step EXCEPT ![t] = s]

(* Connections BEGIN can be sent to: sqlite has no other than its own.      *)
BeginConns == IF kind = "sqlite" THEN {Db} ELSE FreeConns

(* BEGIN is answered.  The mssql driver now sends queries through it.       *)
Begin(t, c) ==
    /\ step[t] = "idle"
    /\ c \in BeginConns
    /\ begun[c] = NoTx
    /\ begun' = [begun EXCEPT ![c] = t]
    /\ own' = [own EXCEPT ![t] = c]
    /\ request' = IF kind = "mssql" THEN c ELSE request
    /\ met' = IF Open = {} THEN met ELSE met \cup Open \cup {t}
    /\ StepTo(t, "first")
    /\ UNCHANGED <<kind, table, pending, answered>>

(* BEGIN is refused, by sqlite whenever a transaction is open.              *)
BeginFails(t) ==
    /\ step[t] = "idle"
    /\ StepTo(t, "rejected")
    /\ UNCHANGED <<kind, table, begun, pending, request, own, answered, met>>

(* The connections executeOnDb can send a query to.                         *)
Route ==
    CASE kind = "sqlite" -> {Db}
      [] kind = "mysql" -> FreeConns
      [] kind = "mssql" -> IF request = NoTx THEN FreeConns ELSE {request}

(* A row is written: within the transaction of its connection, if any.      *)
Put(row, c) ==
    IF begun[c] = NoTx
      THEN table' = table \cup {row} /\ UNCHANGED pending
      ELSE pending' = [pending EXCEPT ![c] = @ \cup {row}] /\ UNCHANGED table

(* The next query of a transaction.                                         *)
Query(t) ==
    /\ step[t] \in {"first", "second"}
    /\ \E c \in Route : Put(<<t, step[t]>>, c)
    /\ StepTo(t, IF step[t] = "first" THEN "second" ELSE "commit")
    /\ UNCHANGED <<kind, begun, request, own, answered, met>>

(* It is refused: the mysql driver rejects, the others roll back.           *)
QueryFails(t) ==
    /\ step[t] \in {"first", "second"}
    /\ StepTo(t, IF kind = "mysql" THEN "rejected" ELSE "rollback")
    /\ UNCHANGED <<kind, table, begun, pending, request, own, answered, met>>

(* The connection is done with its transaction.                             *)
Release(t) ==
    /\ begun' = [begun EXCEPT ![own[t]] = NoTx]
    /\ pending' = [pending EXCEPT ![own[t]] = {}]
    /\ request' = NoTx

(* Mutant: a failed COMMIT only rejects.                                    *)
CommitFailsForgotten(t) ==
    /\ step[t] = "commit"
    /\ kind # "mysql"
    /\ StepTo(t, "rejected")
    /\ UNCHANGED <<kind, table, begun, pending, request, own, answered, met>>

CommitFails(t) ==
    /\ step[t] = "commit"
    /\ kind # "mysql"
    /\ StepTo(t, "rollback")
    /\ UNCHANGED <<kind, table, begun, pending, request, own, answered, met>>

(* COMMIT is answered.  The mysql driver resolves without sending one, and  *)
(* keeps the connection.                                                    *)
Commit(t) ==
    /\ step[t] = "commit"
    /\ StepTo(t, "resolved")
    /\ IF kind = "mysql"
         THEN UNCHANGED <<table, begun, pending, request>>
         ELSE table' = table \cup pending[own[t]] /\ Release(t)
    /\ UNCHANGED <<kind, own, answered, met>>

(* ROLLBACK is answered and the error of the transaction thrown.            *)
Rollback(t) ==
    /\ step[t] = "rollback"
    /\ StepTo(t, "rejected")
    /\ Release(t)
    /\ UNCHANGED <<kind, table, own, answered, met>>

(* Code outside any transaction writes a row.                               *)
OtherQuery(q) ==
    /\ q \notin answered
    /\ \E c \in Route : Put(<<q, "first">>, c)
    /\ answered' = answered \cup {q}
    /\ UNCHANGED <<kind, begun, request, step, own, met>>

TxStep(t) ==
    \/ \E c \in TxConns : Begin(t, c)
    \/ BeginFails(t) \/ Query(t) \/ QueryFails(t)
    \/ Commit(t) \/ CommitFails(t) \/ Rollback(t)

TxNext == (\E t \in Txs : TxStep(t)) \/ (\E q \in Others : OtherQuery(q))

TxSpec == TxInit /\ [][TxNext]_txVars

-----------------------------------------------------------------------------
AnyRow == (Txs \cup Others) \X {"first", "second"}

TxTypeOK ==
    /\ table \subseteq AnyRow
    /\ begun \in [TxConns -> Txs \cup {NoTx}]
    /\ pending \in [TxConns -> SUBSET AnyRow]
    /\ request \in TxConns \cup {NoTx}
    /\ own \in [Txs -> TxConns \cup {NoTx}]
    /\ met \subseteq Txs /\ answered \subseteq Others

(* The rows of t that are, or may still become, part of the table.          *)
Stored(t) == RowsOf(t) \cap table
Waiting(t) == RowsOf(t) \cap UNION {pending[c] : c \in TxConns}

AllOrNothing(t) ==
    /\ Stored(t) = IF step[t] = "resolved" THEN RowsOf(t) ELSE {}
    /\ step[t] = "rejected" => Waiting(t) = {}

(* A transaction of sqlite, and one of mssql that was never open beside     *)
(* another, shows all its rows when it resolves and none of them before or  *)
(* if it rejects, whatever other queries and failures come in between.      *)
AtomicUnlessShared ==
    \A t \in Txs : kind # "mysql" /\ t \notin met => AllOrNothing(t)
==============================================================================
