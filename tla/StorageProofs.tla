---------------------------- MODULE StorageProofs ----------------------------
(***************************************************************************)
(* Safety of the ORM and of what rbac keeps with it, component by          *)
(* component, for every value of their constants.                          *)
(***************************************************************************)
EXTENDS OrmTransactions, OrmMigrations, OrmModel, OrmInsert, Sessions, UserActions,
        FiniteSetTheorems, TLAPS

-----------------------------------------------------------------------------
(* OrmTransactions.                                                         *)

Running == {"first", "second", "commit", "rollback"}

(* The drivers that send COMMIT and ROLLBACK: a transaction under way has   *)
(* its connection, and a connection that began one has it under way.        *)
OwnsConn ==
    /\ \A t \in Txs : step[t] \in Running => own[t] \in TxConns /\ begun[own[t]] = t
    /\ \A c \in TxConns : begun[c] # NoTx => step[begun[c]] \in Running /\ own[begun[c]] = c
    /\ \A c \in TxConns : begun[c] = NoTx => pending[c] = {}

(* A transaction that never met another is the only one open while it is    *)
(* under way, and every query of the driver goes through its connection.    *)
Alone ==
    /\ kind = "sqlite" => \A c \in TxConns : begun[c] # NoTx => c = Db
    /\ \A t \in Txs : t \notin met /\ step[t] \in Running =>
          /\ \A c \in TxConns : begun[c] \in {t, NoTx}
          /\ kind = "mssql" => request = own[t]

(* Its rows are in its own connection, as many as it has written, until it  *)
(* resolves.                                                                *)
RowsInPlace ==
    \A t \in Txs : t \notin met =>
        /\ \A c \in TxConns : begun[c] # t => RowsOf(t) \cap pending[c] = {}
        /\ RowsOf(t) \cap table = IF step[t] = "resolved" THEN RowsOf(t) ELSE {}
        /\ step[t] \in {"second", "commit"} => <<t, "first">> \in pending[own[t]]
        /\ step[t] = "commit" => <<t, "second">> \in pending[own[t]]

TxInv ==
    /\ TxTypeOK
    /\ kind \in {"sqlite", "mysql", "mssql"}
    /\ step \in [Txs -> {"idle", "resolved", "rejected"} \cup Running]
    /\ kind # "mysql" => OwnsConn /\ Alone /\ RowsInPlace

(* No transaction is open and no row written at first.                      *)
LEMMA TxInvInit == TxInit => TxInv
  BY TxAssumption DEF TxInit, TxInv, TxTypeOK, Running, OwnsConn, Alone, RowsInPlace

(* Every step keeps the variables within their types, on every driver.      *)
LEMMA TxTypeInductive ==
    ASSUME TxInv, TxNext
    PROVE  /\ TxTypeOK'
           /\ kind' = kind
           /\ step' \in [Txs -> {"idle", "resolved", "rejected"} \cup Running]
<1>0. /\ TxTypeOK /\ kind \in {"sqlite", "mysql", "mssql"}
      /\ step \in [Txs -> {"idle", "resolved", "rejected"} \cup Running]
  BY DEF TxInv
<1>1. ASSUME NEW t \in Txs, NEW c \in TxConns, Begin(t, c)
      PROVE  TxTypeOK'
  BY <1>0, <1>1 DEF Begin, TxTypeOK, StepTo, Open, AnyRow
<1>2. ASSUME NEW r \in AnyRow, NEW c \in TxConns, Put(r, c)
      PROVE  table' \subseteq AnyRow /\ pending' \in [TxConns -> SUBSET AnyRow]
  BY <1>0, <1>2 DEF Put, TxTypeOK
<1>3. \A c \in Route : c \in TxConns
  BY <1>0, TxAssumption DEF Route, FreeConns, TxTypeOK
<1>4. ASSUME NEW t \in Txs, Query(t)
      PROVE  TxTypeOK'
  <2>1. <<t, step[t]>> \in AnyRow
    BY <1>4 DEF Query, AnyRow
  <2>2. table' \subseteq AnyRow /\ pending' \in [TxConns -> SUBSET AnyRow]
    BY <1>2, <1>3, <1>4, <2>1 DEF Query
  <2> QED
    BY <1>0, <1>4, <2>2 DEF Query, TxTypeOK, AnyRow
<1>5. ASSUME NEW q \in Others, OtherQuery(q)
      PROVE  TxTypeOK'
  <2>1. <<q, "first">> \in AnyRow
    BY DEF AnyRow
  <2>2. table' \subseteq AnyRow /\ pending' \in [TxConns -> SUBSET AnyRow]
    BY <1>2, <1>3, <1>5, <2>1 DEF OtherQuery
  <2> QED
    BY <1>0, <1>5, <2>2 DEF OtherQuery, TxTypeOK, AnyRow
<1>6. ASSUME NEW t \in Txs, BeginFails(t) \/ QueryFails(t) \/ CommitFails(t)
      PROVE  TxTypeOK'
  BY <1>0, <1>6 DEF BeginFails, QueryFails, CommitFails, TxTypeOK, AnyRow
<1>7. ASSUME NEW t \in Txs, Commit(t) \/ Rollback(t)
      PROVE  TxTypeOK'
  <2>1. Commit(t) /\ kind # "mysql" => pending[own[t]] \subseteq AnyRow
    BY <1>0 DEF Commit, TxInv, OwnsConn, Running, TxTypeOK
  <2>2. table' \subseteq AnyRow
    BY <1>0, <1>7, <2>1 DEF Commit, Rollback, TxTypeOK
  <2>3. /\ begun' \in [TxConns -> Txs \cup {NoTx}]
        /\ pending' \in [TxConns -> SUBSET AnyRow]
        /\ request' \in TxConns \cup {NoTx}
    BY <1>0, <1>7 DEF Commit, Rollback, Release, TxTypeOK
  <2> QED
    BY <1>0, <1>7, <2>2, <2>3 DEF Commit, Rollback, TxTypeOK
<1>8. /\ kind' = kind
      /\ step' \in [Txs -> {"idle", "resolved", "rejected"} \cup Running]
  BY <1>0 DEF TxNext, TxStep, Begin, BeginFails, Query, QueryFails, Commit, CommitFails, Rollback,
              OtherQuery, StepTo, Running
<1> QED
  BY <1>1, <1>4, <1>5, <1>6, <1>7, <1>8 DEF TxNext, TxStep

(* Each step keeps that connections belong to transactions under way ...    *)
LEMMA OwnsConnInductive ==
    ASSUME TxInv, TxNext, kind # "mysql"
    PROVE  OwnsConn'
<1>0. /\ TxTypeOK /\ OwnsConn
      /\ step \in [Txs -> {"idle", "resolved", "rejected"} \cup Running]
  BY DEF TxInv
<1>1. ASSUME NEW t \in Txs, NEW c \in TxConns, Begin(t, c)
      PROVE  OwnsConn'
  BY <1>0, <1>1, TxAssumption DEF Begin, StepTo, OwnsConn, Running, TxTypeOK
<1>2. ASSUME NEW r, NEW c \in TxConns, Put(r, c)
      PROVE  \A d \in TxConns : begun[d] = NoTx => pending'[d] = {}
  BY <1>0, <1>2 DEF Put, OwnsConn, TxTypeOK
<1>3. \A c \in Route : c \in TxConns
  BY <1>0, TxAssumption DEF Route, FreeConns, TxTypeOK, TxInv
<1>4. ASSUME NEW t \in Txs, Query(t)
      PROVE  OwnsConn'
  <2>1. \A d \in TxConns : begun[d] = NoTx => pending'[d] = {}
    BY <1>2, <1>3, <1>4 DEF Query
  <2>2. UNCHANGED <<begun, own>> /\ step[t] \in Running /\ step'[t] \in Running
    BY <1>0, <1>4 DEF Query, StepTo, Running
  <2>3. \A u \in Txs : u # t => step'[u] = step[u]
    BY <1>0, <1>4 DEF Query, StepTo
  <2> QED
    BY <1>0, <2>1, <2>2, <2>3 DEF OwnsConn, TxTypeOK
<1>5. ASSUME NEW q \in Others, OtherQuery(q)
      PROVE  OwnsConn'
  <2>1. \A d \in TxConns : begun[d] = NoTx => pending'[d] = {}
    BY <1>2, <1>3, <1>5 DEF OtherQuery
  <2> QED
    BY <1>0, <1>5, <2>1 DEF OtherQuery, OwnsConn
<1>6. ASSUME NEW t \in Txs, BeginFails(t) \/ QueryFails(t) \/ CommitFails(t)
      PROVE  OwnsConn'
  BY <1>0, <1>6 DEF BeginFails, QueryFails, CommitFails, StepTo, OwnsConn, Running, TxTypeOK
<1>7. ASSUME NEW t \in Txs, Commit(t) \/ Rollback(t)
      PROVE  OwnsConn'
  <2>1. own[t] \in TxConns /\ begun[own[t]] = t
    BY <1>0, <1>7 DEF Commit, Rollback, OwnsConn, Running
  <2>2. /\ begun' = [begun EXCEPT ![own[t]] = NoTx]
        /\ pending' = [pending EXCEPT ![own[t]] = {}]
        /\ own' = own
        /\ step' \in {[step EXCEPT ![t] = "resolved"], [step EXCEPT ![t] = "rejected"]}
    BY <1>7 DEF Commit, Rollback, Release, StepTo
  <2> QED
    BY <1>0, <2>1, <2>2 DEF OwnsConn, Running, TxTypeOK
<1> QED
  BY <1>1, <1>4, <1>5, <1>6, <1>7 DEF TxNext, TxStep

(* ... that one which never met another is alone ...                        *)
LEMMA AloneInductive ==
    ASSUME TxInv, TxNext, kind # "mysql"
    PROVE  Alone'
<1>0. /\ TxTypeOK /\ OwnsConn /\ Alone /\ kind' = kind
      /\ step \in [Txs -> {"idle", "resolved", "rejected"} \cup Running]
  BY TxTypeInductive DEF TxInv
<1>1. ASSUME NEW t \in Txs, NEW c \in TxConns, Begin(t, c)
      PROVE  Alone'
  <2>1. kind = "sqlite" => c = Db
    BY <1>1 DEF Begin, BeginConns
  <2>2. \A u \in Txs \ met' : u # t /\ step[u] \in Running => FALSE
    BY <1>0, <1>1, TxAssumption DEF Begin, Open, OwnsConn, TxTypeOK
  <2>3. t \notin met' => \A d \in TxConns : begun[d] = NoTx
    BY <1>0, <1>1 DEF Begin, Open, TxTypeOK
  <2>4. /\ begun' = [begun EXCEPT ![c] = t]
        /\ own' = [own EXCEPT ![t] = c]
        /\ step' = [step EXCEPT ![t] = "first"]
        /\ kind = "mssql" => request' = c
    BY <1>1 DEF Begin, StepTo
  <2> QED
    BY <1>0, <2>1, <2>2, <2>3, <2>4 DEF Alone, TxTypeOK
<1>2. ASSUME UNCHANGED <<begun, request, own, met>>,
             \A u \in Txs : step'[u] \in Running => step[u] \in Running
      PROVE  Alone'
  BY <1>0, <1>2 DEF Alone
<1>3. ASSUME NEW t \in Txs, Query(t) \/ BeginFails(t) \/ QueryFails(t) \/ CommitFails(t)
      PROVE  Alone'
  <2>1. UNCHANGED <<begun, request, own, met>>
    BY <1>3 DEF Query, BeginFails, QueryFails, CommitFails
  <2>2. \A u \in Txs : step'[u] \in Running => step[u] \in Running
    BY <1>0, <1>3 DEF Query, BeginFails, QueryFails, CommitFails, StepTo, Running
  <2> QED
    BY <1>2, <2>1, <2>2
<1>4. ASSUME NEW q \in Others, OtherQuery(q)
      PROVE  Alone'
  BY <1>2, <1>4 DEF OtherQuery
<1>5. ASSUME NEW t \in Txs, Commit(t) \/ Rollback(t)
      PROVE  Alone'
  <2>1. own[t] \in TxConns /\ begun[own[t]] = t
    BY <1>0, <1>5 DEF Commit, Rollback, OwnsConn, Running
  <2>2. /\ begun' = [begun EXCEPT ![own[t]] = NoTx]
        /\ UNCHANGED <<own, met>>
        /\ step' \in {[step EXCEPT ![t] = "resolved"], [step EXCEPT ![t] = "rejected"]}
    BY <1>5 DEF Commit, Rollback, Release, StepTo
  <2>3. \A u \in Txs \ met : u # t => step[u] \notin Running
    BY <1>0, <2>1, TxAssumption DEF Alone
  <2> QED
    BY <1>0, <2>1, <2>2, <2>3 DEF Alone, Running, TxTypeOK
<1> QED
  BY <1>1, <1>3, <1>4, <1>5 DEF TxNext, TxStep

(* A row of somebody else disturbs nobody, wherever it is written.          *)
LEMMA PutKeeps ==
    ASSUME TxTypeOK, NEW x, NEW w, NEW c \in TxConns, Put(<<x, w>>, c), NEW u, u # x
    PROVE  /\ RowsOf(u) \cap table' = RowsOf(u) \cap table
           /\ \A d \in TxConns : RowsOf(u) \cap pending'[d] = RowsOf(u) \cap pending[d]
<1>1. <<x, w>> \notin RowsOf(u)
  BY DEF RowsOf
<1>2. table' \in {table, table \cup {<<x, w>>}}
  BY DEF Put
<1>3. \A d \in TxConns : pending'[d] \in {pending[d], pending[d] \cup {<<x, w>>}}
  BY DEF Put, TxTypeOK
<1> QED
  BY <1>1, <1>2, <1>3

(* The queries of a transaction that never met another go to the connection *)
(* it has begun.                                                            *)
LEMMA RoutedHome ==
    ASSUME TxInv, kind # "mysql", NEW t \in Txs, t \notin met, step[t] \in Running,
           NEW c \in Route
    PROVE  c = own[t] /\ c \in TxConns /\ begun[c] = t /\ t # NoTx
<1>1. own[t] \in TxConns /\ begun[own[t]] = t /\ t # NoTx
  BY TxAssumption DEF TxInv, OwnsConn
<1>2. CASE kind = "sqlite"
  BY <1>1, <1>2 DEF Route, TxInv, Alone
<1>3. CASE kind = "mssql"
  BY <1>1, <1>3, TxAssumption DEF Route, TxInv, Alone
<1> QED
  BY <1>1, <1>2, <1>3 DEF TxInv

(* ... and that the rows of such a transaction are where they belong.       *)
LEMMA RowsInPlaceInductive ==
    ASSUME TxInv, TxNext, kind # "mysql"
    PROVE  RowsInPlace'
<1>0. /\ TxTypeOK /\ OwnsConn /\ Alone /\ RowsInPlace
      /\ step \in [Txs -> {"idle", "resolved", "rejected"} \cup Running]
  BY DEF TxInv
<1>1. ASSUME NEW t \in Txs, NEW c \in TxConns, Begin(t, c)
      PROVE  RowsInPlace'
  <2>1. pending[c] = {}
    BY <1>0, <1>1 DEF Begin, OwnsConn
  <2>2. /\ begun' = [begun EXCEPT ![c] = t]
        /\ own' = [own EXCEPT ![t] = c]
        /\ step' = [step EXCEPT ![t] = "first"]
        /\ UNCHANGED <<table, pending>>
        /\ met \subseteq met'
    BY <1>1 DEF Begin, StepTo
  <2> QED
    BY <1>0, <1>1, <2>1, <2>2 DEF Begin, RowsInPlace, TxTypeOK
<1>2. \A c \in Route : c \in TxConns
  BY <1>0, TxAssumption DEF Route, FreeConns, TxTypeOK, TxInv
<1>3. ASSUME NEW t \in Txs, Query(t)
      PROVE  RowsInPlace'
  <2>1. PICK c \in Route : Put(<<t, step[t]>>, c)
    BY <1>3 DEF Query
  <2>2. /\ UNCHANGED <<begun, own, met>>
        /\ step[t] \in {"first", "second"}
        /\ step' = [step EXCEPT ![t] = IF step[t] = "first" THEN "second" ELSE "commit"]
    BY <1>3 DEF Query, StepTo
  <2> SUFFICES ASSUME NEW u \in Txs, u \notin met
               PROVE
        /\ \A d \in TxConns : begun[d] # u => RowsOf(u) \cap pending'[d] = {}
        /\ RowsOf(u) \cap table' = IF step'[u] = "resolved" THEN RowsOf(u) ELSE {}
        /\ step'[u] \in {"second", "commit"} => <<u, "first">> \in pending'[own[u]]
        /\ step'[u] = "commit" => <<u, "second">> \in pending'[own[u]]
    BY <2>2 DEF RowsInPlace
  <2>3. CASE u # t
    <3>1. /\ RowsOf(u) \cap table' = RowsOf(u) \cap table
          /\ \A d \in TxConns : RowsOf(u) \cap pending'[d] = RowsOf(u) \cap pending[d]
      BY <1>0, <1>2, <2>1, <2>3, PutKeeps
    <3>2. step'[u] = step[u] /\ (step[u] \in Running => own[u] \in TxConns)
      BY <1>0, <2>2, <2>3 DEF OwnsConn
    <3>3. \A w \in {"first", "second"} : <<u, w>> \in RowsOf(u)
      BY DEF RowsOf
    <3> QED
      BY <1>0, <3>1, <3>2, <3>3 DEF RowsInPlace, Running
  <2>4. CASE u = t
    <3>1. c = own[t] /\ c \in TxConns /\ begun[c] = t /\ t # NoTx
      BY <1>3, <2>2, <2>4, RoutedHome, TxNext DEF Running
    <3>2. table' = table /\ pending' = [pending EXCEPT ![c] = @ \cup {<<t, step[t]>>}]
      BY <2>1, <3>1 DEF Put
    <3>3. /\ \A d \in TxConns : d # c => pending'[d] = pending[d]
          /\ pending'[c] = pending[c] \cup {<<t, step[t]>>}
      BY <1>0, <3>1, <3>2 DEF TxTypeOK
    <3>4. step'[t] = IF step[t] = "first" THEN "second" ELSE "commit"
      BY <1>0, <2>2
    <3> QED
      BY <1>0, <2>2, <2>4, <3>1, <3>2, <3>3, <3>4 DEF RowsInPlace
  <2> QED
    BY <2>3, <2>4
<1>4. ASSUME NEW q \in Others, OtherQuery(q)
      PROVE  RowsInPlace'
  <2>1. PICK c \in Route : Put(<<q, "first">>, c)
    BY <1>4 DEF OtherQuery
  <2>2. UNCHANGED <<begun, own, step, met>>
    BY <1>4 DEF OtherQuery
  <2>3. \A u \in Txs :
          /\ RowsOf(u) \cap table' = RowsOf(u) \cap table
          /\ \A d \in TxConns : RowsOf(u) \cap pending'[d] = RowsOf(u) \cap pending[d]
    BY <1>0, <1>2, <2>1, PutKeeps, TxAssumption
  <2>4. \A u \in Txs : step[u] \in Running => own[u] \in TxConns
    BY <1>0 DEF OwnsConn
  <2>5. \A u, w : w \in {"first", "second"} => <<u, w>> \in RowsOf(u)
    BY DEF RowsOf
  <2> QED
    BY <1>0, <2>2, <2>3, <2>4, <2>5 DEF RowsInPlace, Running
<1>5. ASSUME NEW t \in Txs, BeginFails(t) \/ QueryFails(t) \/ CommitFails(t)
      PROVE  RowsInPlace'
  <2>1. /\ UNCHANGED <<table, begun, pending, own, met>>
        /\ step' \in {[step EXCEPT ![t] = "rejected"], [step EXCEPT ![t] = "rollback"]}
        /\ step[t] \in {"idle", "first", "second", "commit"}
    BY <1>5 DEF BeginFails, QueryFails, CommitFails, StepTo
  <2> QED
    BY <1>0, <2>1 DEF RowsInPlace
<1>6. ASSUME NEW t \in Txs, Commit(t) \/ Rollback(t)
      PROVE  RowsInPlace'
  <2>1. own[t] \in TxConns /\ begun[own[t]] = t /\ t # NoTx
    BY <1>0, <1>6, TxAssumption DEF Commit, Rollback, OwnsConn, Running
  <2>2. /\ begun' = [begun EXCEPT ![own[t]] = NoTx]
        /\ pending' = [pending EXCEPT ![own[t]] = {}]
        /\ UNCHANGED <<own, met>>
        /\ \/ /\ step[t] = "commit" /\ step' = [step EXCEPT ![t] = "resolved"]
              /\ table' = table \cup pending[own[t]]
           \/ /\ step[t] = "rollback" /\ step' = [step EXCEPT ![t] = "rejected"]
              /\ table' = table
    BY <1>6 DEF Commit, Rollback, Release, StepTo
  <2> SUFFICES ASSUME NEW u \in Txs, u \notin met
               PROVE
        /\ \A d \in TxConns : begun'[d] # u => RowsOf(u) \cap pending'[d] = {}
        /\ RowsOf(u) \cap table' = IF step'[u] = "resolved" THEN RowsOf(u) ELSE {}
        /\ step'[u] \in {"second", "commit"} => <<u, "first">> \in pending'[own[u]]
        /\ step'[u] = "commit" => <<u, "second">> \in pending'[own[u]]
    BY <2>2 DEF RowsInPlace
  <2>3. CASE u # t
    <3>1. RowsOf(u) \cap table' = RowsOf(u) \cap table
      BY <1>0, <2>1, <2>2, <2>3 DEF RowsInPlace
    <3>2. step'[u] = step[u] /\ step[u] \notin Running
      BY <1>0, <2>1, <2>2, <2>3 DEF Alone
    <3>3. \A d \in TxConns : pending'[d] \in {pending[d], {}} /\ (begun'[d] # u => begun[d] # u)
      BY <1>0, <2>1, <2>2, <2>3 DEF TxTypeOK
    <3> QED
      BY <1>0, <3>1, <3>2, <3>3 DEF RowsInPlace, Running
  <2>4. CASE u = t
    <3>1. step[t] = "commit" => RowsOf(t) \subseteq pending[own[t]]
      <4>1. RowsOf(t) = {<<t, "first">>, <<t, "second">>}
        BY DEF RowsOf
      <4>2. step[t] = "commit" => {<<t, "first">>, <<t, "second">>} \subseteq pending[own[t]]
        BY <1>0, <2>4 DEF RowsInPlace
      <4> QED
        BY <4>1, <4>2
    <3>2. \A d \in TxConns : RowsOf(t) \cap pending'[d] = {}
      <4>1. \A d \in TxConns \ {own[t]} : pending'[d] = pending[d] /\ begun[d] # t
        BY <1>0, <2>1, <2>2 DEF TxTypeOK, OwnsConn
      <4>2. pending'[own[t]] = {}
        BY <1>0, <2>1, <2>2 DEF TxTypeOK
      <4> QED
        BY <1>0, <2>4, <4>1, <4>2 DEF RowsInPlace
    <3>3. step'[t] \in {"resolved", "rejected"} /\ (step'[t] = "resolved" <=> step[t] = "commit")
      BY <1>0, <2>2
    <3>4. RowsOf(t) \cap table = {}
      BY <1>0, <2>2, <2>4 DEF RowsInPlace
    <3>5. RowsOf(t) \cap table' = IF step'[t] = "resolved" THEN RowsOf(t) ELSE {}
      BY <2>2, <3>1, <3>3, <3>4
    <3> QED
      BY <2>4, <3>2, <3>3, <3>5
  <2> QED
    BY <2>3, <2>4
<1> QED
  BY <1>1, <1>3, <1>4, <1>5, <1>6 DEF TxNext, TxStep

(* The invariant of the transactions holds in every reachable state.        *)
LEMMA TxInvHolds == TxSpec => []TxInv
<1>1. TxInv /\ UNCHANGED txVars => TxInv'
  BY DEF txVars, TxInv, TxTypeOK, OwnsConn, Alone, RowsInPlace
<1>2. TxInv /\ TxNext => TxInv'
  BY TxTypeInductive, OwnsConnInductive, AloneInductive, RowsInPlaceInductive DEF TxInv
<1> QED
  BY <1>1, <1>2, TxInvInit, PTL DEF TxSpec

(* The rows a driver holds and the steps of its transactions stay within    *)
(* their types on sqlite, mysql and mssql.                                  *)
THEOREM TxTypeCorrect == TxSpec => []TxTypeOK
<1>1. TxInv => TxTypeOK
  BY DEF TxInv
<1> QED
  BY <1>1, TxInvHolds, PTL

(* A transaction of sqlite, and one of mssql that was never open beside     *)
(* another, shows all its rows or none, for any number of transactions,     *)
(* connections and other queries and whatever fails.                        *)
THEOREM TxAtomic == TxSpec => []AtomicUnlessShared
<1>1. TxInv => AtomicUnlessShared
  <2> SUFFICES ASSUME TxInv, NEW t \in Txs, kind # "mysql", t \notin met
               PROVE  AllOrNothing(t)
    BY DEF AtomicUnlessShared
  <2>1. OwnsConn /\ RowsInPlace
    BY DEF TxInv
  <2>2. Stored(t) = IF step[t] = "resolved" THEN RowsOf(t) ELSE {}
    BY <2>1 DEF RowsInPlace, Stored
  <2>3. step[t] = "rejected" => \A c \in TxConns : begun[c] # t
    BY <2>1, TxAssumption DEF OwnsConn, Running
  <2>4. step[t] = "rejected" => Waiting(t) = {}
    <3>1. step[t] = "rejected" => \A c \in TxConns : RowsOf(t) \cap pending[c] = {}
      BY <2>1, <2>3 DEF RowsInPlace
    <3> QED
      BY <3>1 DEF Waiting
  <2> QED
    BY <2>2, <2>4 DEF AllOrNothing
<1> QED
  BY <1>1, TxInvHolds, PTL

-----------------------------------------------------------------------------
(* OrmInsert.                                                               *)

InsertTypeOK ==
    /\ modelKey \in [Records -> Int]
    /\ dataOf \in [RowIds -> Records \cup {NoRecord, Mixed}]
    /\ lastRowId \in 0..LastRow
    /\ inserting \in [Inserts -> {"idle", "sent", "answer", "ignored"}]
    /\ batch \in [Inserts -> Batches \cup {<<>>}]
    /\ sentKeys \in [Inserts -> Seq(Int)]
    /\ reported \in [Inserts -> Int]
    /\ guessed \subseteq Records
    /\ \A c \in Inserts : Len(sentKeys[c]) = Len(batch[c])
    /\ \A c \in Inserts : inserting[c] # "idle" => batch[c] \in Batches
    /\ \A c \in Inserts : inserting[c] \in {"idle", "sent"} => reported[c] = NoId
    /\ behaviour \in [Inserts -> Behaviours]
    /\ \A c \in Inserts : behaviour[c] # "None" => Len(batch[c]) = 1
    /\ \A c \in Inserts : inserting[c] = "ignored" => reported[c] \in Nat /\ Len(batch[c]) = 1

(* The models an answered call may still give a key to, and which.          *)
Counting(c) == inserting[c] = "answer" /\ reported[c] # NoId /\ ~KeyListed(sentKeys[c])
Claim(c, i) == Counted(reported[c], Len(batch[c]), i)

(* A key that was sent is the model's still.                                *)
SentKeysStay ==
    \A c \in Inserts : \A i \in 1..Len(batch[c]) :
        sentKeys[c][i] # NoId => modelKey[batch[c][i]] = sentKeys[c][i]

(* The keys of which something is said: not those a model brought along or  *)
(* was answered when its insert was ignored.                                *)
Sure == Int \ ({NoId, Preset} \cup Doubtful)

(* The keys an answered call has yet to hand out are those of its own rows, *)
(* and no model has them already.                                           *)
ClaimsOwn ==
    \A c \in Inserts : Counting(c) => \A i \in 1..Len(batch[c]) :
        /\ Claim(c, i) \in 1..lastRowId
        /\ Claim(c, i) \in Sure =>
             /\ dataOf[Claim(c, i)] \in {batch[c][i], Mixed, NoRecord}
             /\ \A m \in Records : modelKey[m] # Claim(c, i)

(* No two calls have the same key to hand out, and no two models share one, *)
(* but for what models bring along or were answered when ignored.           *)
KeysApart ==
    /\ \A c, d \in Inserts : Counting(c) /\ Counting(d) /\ c # d =>
          \A i \in 1..Len(batch[c]), j \in 1..Len(batch[d]) : Claim(c, i) # Claim(d, j)
    /\ \A m, o \in Records : m # o /\ modelKey[m] = modelKey[o] => modelKey[m] \notin Sure

KeysNameOwnRows ==
    \A m \in Records :
        /\ modelKey[m] \notin {NoId, Preset} /\ m \notin guessed => modelKey[m] \in 1..lastRowId
        /\ modelKey[m] \in Sure => dataOf[modelKey[m]] \in {m, Mixed, NoRecord}

InsertInv ==
    /\ InsertTypeOK
    /\ SentKeysStay
    /\ \A m \in guessed : modelKey[m] # NoId
    /\ ClaimsOwn /\ KeysApart /\ KeysNameOwnRows

(* A batch is one model, or two that differ.                                *)
LEMMA BatchShape ==
    ASSUME NEW b \in Batches
    PROVE  /\ b \in Seq(Records) /\ Len(b) \in {1, 2}
           /\ \A i, j \in 1..Len(b) : b[i] = b[j] => i = j
<1>1. CASE \E m \in Records : b = <<m>>
  BY <1>1
<1>2. CASE \E m, o \in Records : b = <<m, o>> /\ m # o
  BY <1>2
<1>3. (\E m \in Records : b = <<m>>) \/ (\E m, o \in Records : b = <<m, o>> /\ m # o)
  BY DEF Batches
<1> QED
  BY <1>1, <1>2, <1>3

(* The highest of the keys of a statement and of those used before.         *)
LEMMA HighestKey ==
    ASSUME NEW keys \in Seq(Int), Len(keys) \in {1, 2}, NEW last \in Int
    PROVE  LET used == {keys[i] : i \in DOMAIN keys}
           IN  /\ SetMax(used \cup {last}) \in used \cup {last}
               /\ \A k \in used \cup {last} : k <= SetMax(used \cup {last})
<1> DEFINE used == {keys[i] : i \in DOMAIN keys}
<1>1. PICK a \in Int, b \in Int : used = {a, b}
  <2>1. CASE Len(keys) = 1
    <3>1. used = {keys[1], keys[1]} /\ keys[1] \in Int
      BY <2>1
    <3> QED
      BY <3>1
  <2>2. CASE Len(keys) = 2
    <3>1. used = {keys[1], keys[2]} /\ keys[1] \in Int /\ keys[2] \in Int
      BY <2>2
    <3> QED
      BY <3>1
  <2> QED
    BY <2>1, <2>2
<1>2. \E n \in {a, b, last} : \A k \in {a, b, last} : k <= n
  OBVIOUS
<1>3. used \cup {last} = {a, b, last}
  BY <1>1
<1>4. /\ SetMax({a, b, last}) \in {a, b, last}
      /\ \A k \in {a, b, last} : k <= SetMax({a, b, last})
  BY <1>2 DEF SetMax
<1> QED
  BY <1>3, <1>4

(* No row and no key but those the models bring along.                      *)
LEMMA InsertInvInit == InsertInit => InsertInv
<1> SUFFICES ASSUME InsertInit  PROVE InsertInv
  OBVIOUS
<1>1. /\ modelKey \in [Records -> {NoId, Preset}] /\ dataOf = [n \in RowIds |-> NoRecord]
      /\ lastRowId = 0 /\ inserting = [c \in Inserts |-> "idle"]
      /\ batch = [c \in Inserts |-> <<>>] /\ sentKeys = [c \in Inserts |-> <<>>]
      /\ reported = [c \in Inserts |-> NoId] /\ guessed = {}
      /\ behaviour = [c \in Inserts |-> "None"]
  BY DEF InsertInit
<1>2. InsertTypeOK /\ SentKeysStay
  BY <1>1, InsertAssumption DEF InsertTypeOK, SentKeysStay, NoId, Preset, Behaviours
<1>3. ClaimsOwn /\ KeysApart /\ KeysNameOwnRows
  BY <1>1 DEF ClaimsOwn, KeysApart, KeysNameOwnRows, Counting, Sure, Doubtful
<1> QED
  BY <1>1, <1>2, <1>3 DEF InsertInv

(* A call under way has a batch: its values are those of the models.        *)
LEMMA SendInsertKeeps ==
    ASSUME InsertInv, NEW c \in Inserts, NEW models \in Batches, NEW how \in Behaviours,
           SendInsert(c, models, how)
    PROVE  InsertInv'
<1>0. InsertTypeOK /\ SentKeysStay
  BY DEF InsertInv
<1>1. /\ models \in Seq(Records)
      /\ Len(models) \in {1, 2} /\ DOMAIN models = 1..Len(models)
  BY BatchShape
<1> DEFINE keys == [i \in DOMAIN models |-> modelKey[models[i]]]
<1>2. \A i \in 1..Len(models) : keys[i] = modelKey[models[i]] /\ keys[i] \in Int
  BY <1>0, <1>1 DEF InsertTypeOK
<1>3. keys \in Seq(Int) /\ Len(keys) = Len(models)
  BY <1>1, <1>2
<1> HIDE DEF keys
<1>4. /\ inserting' = [inserting EXCEPT ![c] = "sent"]
      /\ batch' = [batch EXCEPT ![c] = models]
      /\ sentKeys' = [sentKeys EXCEPT ![c] = keys]
      /\ behaviour' = [behaviour EXCEPT ![c] = how]
      /\ how # "None" => Len(models) = 1
      /\ inserting[c] = "idle"
      /\ UNCHANGED <<modelKey, dataOf, lastRowId, reported, guessed>>
  BY DEF SendInsert, keys
<1>5. InsertTypeOK'
  BY <1>0, <1>3, <1>4 DEF InsertTypeOK, Batches
<1>6. SentKeysStay'
  BY <1>0, <1>2, <1>4 DEF InsertTypeOK, SentKeysStay
<1>7. ~Counting(c)' /\ \A d \in Inserts \ {c} :
          /\ Counting(d)' <=> Counting(d)
          /\ batch'[d] = batch[d] /\ reported'[d] = reported[d]
  BY <1>0, <1>4 DEF InsertTypeOK, Counting
<1>8. Sure' = Sure
  BY <1>4 DEF Sure, Doubtful
<1>9. ClaimsOwn' /\ KeysApart' /\ KeysNameOwnRows'
  BY <1>4, <1>7, <1>8 DEF InsertInv, ClaimsOwn, KeysApart, KeysNameOwnRows, Claim
<1>10. \A m \in guessed' : modelKey'[m] # NoId
  BY <1>4 DEF InsertInv
<1> QED
  BY <1>5, <1>6, <1>9, <1>10 DEF InsertInv

(* The statement is run: rows with keys go where their models say, the      *)
(* others above everything there was.                                       *)
LEMMA RunInsertKeeps ==
    ASSUME InsertInv, NEW c \in Inserts, NEW replaced \in SUBSET Taken, RunInsert(c, replaced)
    PROVE  InsertInv'
<1>0. InsertTypeOK /\ SentKeysStay
  BY DEF InsertInv
<1> DEFINE sent == sentKeys[c]
           keys == RowKeysOf(sent)
           used == {keys[i] : i \in DOMAIN keys}
           n == Len(batch[c])
           named(k) == batch[c][CHOOSE i \in DOMAIN keys : keys[i] = k]
<1>1. /\ batch[c] \in Seq(Records) /\ n \in {1, 2}
      /\ \A i, j \in 1..n : batch[c][i] = batch[c][j] => i = j
  <2>1. batch[c] \in Batches
    BY <1>0 DEF RunInsert, InsertTypeOK
  <2> QED
    BY <2>1, BatchShape
<1>2. /\ sent \in Seq(Int) /\ Len(sent) = n /\ DOMAIN sent = 1..n
      /\ LastRow \in Nat /\ lastRowId \in Nat /\ lastRowId <= LastRow
  BY <1>0, <1>1, InsertAssumption DEF InsertTypeOK
<1>3. keys \in Seq(Int) /\ Len(keys) = n /\ DOMAIN keys = 1..n
  <2>1. CASE KeyListed(sent)
    BY <1>2, <2>1 DEF RowKeysOf
  <2>2. CASE ~KeyListed(sent)
    <3>1. keys = [i \in 1..n |-> lastRowId + i]
      BY <1>2, <2>2 DEF RowKeysOf
    <3>2. \A i \in 1..n : lastRowId + i \in Int
      BY <1>1, <1>2
    <3> QED
      BY <1>1, <3>1, <3>2
  <2> QED
    BY <2>1, <2>2
<1>4. /\ inserting[c] = "sent"
      /\ used \subseteq RowIds
      /\ \A i, j \in 1..n : i # j => keys[i] # keys[j]
      /\ dataOf' = [k \in RowIds |->
            IF k \in used THEN named(k) ELSE IF k \in replaced THEN NoRecord ELSE dataOf[k]]
      /\ lastRowId' = SetMax(used \cup {lastRowId})
      /\ reported' = [reported EXCEPT ![c] =
            IF behaviour[c] = "InsertOrUpdate" THEN NoId ELSE keys[n]]
      /\ inserting' = [inserting EXCEPT ![c] = "answer"]
      /\ behaviour' = [behaviour EXCEPT ![c] = "None"]
      /\ UNCHANGED <<modelKey, batch, sentKeys, guessed>>
  <2>1. KeysFree(keys, replaced)
    BY DEF RunInsert
  <2> QED
    BY <1>3, <2>1 DEF RunInsert, KeysFree
<1> HIDE DEF keys
<1>5. lastRowId' \in used \cup {lastRowId} /\ \A k \in used \cup {lastRowId} : k <= lastRowId'
  <2>1. Len(keys) \in {1, 2} /\ lastRowId \in Int
    BY <1>1, <1>2, <1>3
  <2> QED
    BY <1>3, <1>4, <2>1, HighestKey
<1>6. lastRowId' \in Nat /\ lastRowId' <= LastRow /\ lastRowId <= lastRowId'
  <2>1. lastRowId' \in RowIds \cup {lastRowId} /\ lastRowId <= lastRowId'
    BY <1>4, <1>5
  <2> QED
    BY <1>2, <2>1 DEF RowIds
<1>7. \A i \in 1..n : named(keys[i]) = batch[c][i]
  BY <1>3, <1>4
<1>8. \A k \in used : \E i \in 1..n : k = keys[i] /\ named(k) = batch[c][i]
  BY <1>3, <1>7
<1>9. \A k \in RowIds : dataOf'[k] = IF k \in used THEN named(k)
                                     ELSE IF k \in replaced THEN NoRecord ELSE dataOf[k]
  BY <1>4
<1>10. \A k \in RowIds \ used : dataOf'[k] \in {dataOf[k], NoRecord}
  BY <1>9
<1> HIDE DEF used, named
<1>11. InsertTypeOK'
  <2>1. dataOf' \in [RowIds -> Records \cup {NoRecord, Mixed}]
    <3>1. \A k \in RowIds : dataOf'[k] \in Records \cup {NoRecord, Mixed}
      <4> SUFFICES ASSUME NEW k \in RowIds
                   PROVE  dataOf'[k] \in Records \cup {NoRecord, Mixed}
        OBVIOUS
      <4>1. CASE k \in used
        <5>1. PICK i \in 1..n : named(k) = batch[c][i]
          BY <1>8, <4>1
        <5>2. batch[c][i] \in Records
          BY <1>1, <5>1
        <5> QED
          BY <1>9, <4>1, <5>1, <5>2
      <4>2. CASE k \notin used
        BY <1>0, <1>10, <4>2 DEF InsertTypeOK
      <4> QED
        BY <4>1, <4>2
    <3>2. dataOf' = [k \in RowIds |-> dataOf'[k]]
      BY <1>4
    <3> QED
      BY <3>1, <3>2
  <2>2. reported' \in [Inserts -> Int]
    <3>1. keys[n] \in Int
      <4>1. n = 1 \/ n = 2
        BY <1>1
      <4>2. 1 \in 1..1 /\ 2 \in 1..2
        OBVIOUS
      <4>3. n \in 1..n
        BY <4>1, <4>2
      <4> QED
        BY <1>3, <4>3
    <3> QED
      BY <1>0, <1>4, <3>1 DEF InsertTypeOK, NoId
  <2> QED
    BY <1>0, <1>4, <1>6, <2>1, <2>2 DEF InsertTypeOK, Behaviours
<1>12. SentKeysStay'
  BY <1>0, <1>4 DEF SentKeysStay
<1>13. Sure' = Sure
  BY <1>4 DEF Sure, Doubtful
<1>14. ClaimsOwn' /\ KeysApart' /\ KeysNameOwnRows'
  <2>0. ClaimsOwn /\ KeysApart /\ KeysNameOwnRows
    BY DEF InsertInv
  <2>1. \A d \in Inserts \ {c} : /\ Counting(d)' <=> Counting(d)
                                 /\ \A i : Claim(d, i)' = Claim(d, i)
    BY <1>0, <1>4 DEF InsertTypeOK, Counting, Claim
  <2>2. Counting(c)' => ~KeyListed(sent)
    BY <1>4 DEF Counting
  <2>3. CASE KeyListed(sent)
    <3>1. \A i \in 1..n : keys[i] = modelKey[batch[c][i]] /\ keys[i] # NoId
      BY <1>0, <1>2, <2>3 DEF SentKeysStay, KeyListed, RowKeysOf, keys
    <3>2. \A k \in RowIds, m \in Records :
            k \in Sure /\ modelKey[m] = k => dataOf'[k] \in {m, dataOf[k], NoRecord}
      <4> SUFFICES ASSUME NEW k \in RowIds, NEW m \in Records, k \in Sure, modelKey[m] = k,
                          k \in used
                   PROVE  named(k) = m
        BY <1>9, <1>10
      <4>1. PICK i \in 1..n : k = keys[i] /\ named(k) = batch[c][i]
        BY <1>8
      <4>2. batch[c][i] \in Records /\ modelKey[batch[c][i]] = k
        BY <1>1, <3>1, <4>1
      <4> QED
        BY <2>0, <3>1, <4>1, <4>2 DEF KeysApart
    <3>3. KeysNameOwnRows'
      <4> SUFFICES ASSUME NEW m \in Records
                   PROVE  /\ modelKey[m] \notin {NoId, Preset} /\ m \notin guessed =>
                               modelKey[m] \in 1..lastRowId'
                          /\ modelKey[m] \in Sure => dataOf'[modelKey[m]] \in {m, Mixed, NoRecord}
        BY <1>4, <1>13 DEF KeysNameOwnRows
      <4>1. modelKey[m] \notin {NoId, Preset} /\ m \notin guessed => modelKey[m] \in 1..lastRowId'
        BY <1>2, <1>6, <2>0 DEF KeysNameOwnRows
      <4>2. modelKey[m] \in Sure => modelKey[m] \in 1..lastRowId
        BY <2>0 DEF KeysNameOwnRows, Sure, Doubtful
      <4>3. modelKey[m] \in Sure => modelKey[m] \in RowIds
        BY <1>2, <4>2 DEF RowIds
      <4>4. modelKey[m] \in Sure => dataOf'[modelKey[m]] \in {m, Mixed, NoRecord}
        <5> HAVE modelKey[m] \in Sure
        <5>1. dataOf'[modelKey[m]] \in {m, dataOf[modelKey[m]], NoRecord}
          BY <3>2, <4>3
        <5>2. dataOf[modelKey[m]] \in {m, Mixed, NoRecord}
          BY <2>0 DEF KeysNameOwnRows
        <5> QED
          BY <5>1, <5>2
      <4> QED
        BY <4>1, <4>4
    <3>4. \A k \in RowIds : (\A m \in Records : modelKey[m] # k) => dataOf'[k] \in {dataOf[k], NoRecord}
      <4>1. \A k \in used : \E m \in Records : modelKey[m] = k
        BY <1>1, <1>8, <3>1
      <4> QED
        BY <1>10, <4>1
    <3>5. ClaimsOwn'
      <4> SUFFICES ASSUME NEW d \in Inserts, Counting(d)', NEW i \in 1..Len(batch[d])
                   PROVE  /\ Claim(d, i)' \in 1..lastRowId'
                          /\ Claim(d, i)' \in Sure =>
                               /\ dataOf'[Claim(d, i)'] \in {batch[d][i], Mixed, NoRecord}
                               /\ \A m \in Records : modelKey[m] # Claim(d, i)'
        BY <1>4, <1>13 DEF ClaimsOwn
      <4>0. Counting(d) /\ Claim(d, i)' = Claim(d, i)
        BY <2>1, <2>2, <2>3
      <4>1. /\ Claim(d, i) \in 1..lastRowId
            /\ Claim(d, i) \in Sure =>
                 /\ dataOf[Claim(d, i)] \in {batch[d][i], Mixed, NoRecord}
                 /\ \A m \in Records : modelKey[m] # Claim(d, i)
        BY <2>0, <4>0 DEF ClaimsOwn
      <4>2. Claim(d, i) \in RowIds /\ Claim(d, i) \in 1..lastRowId'
        BY <1>2, <1>6, <4>1 DEF RowIds
      <4>3. Claim(d, i) \in Sure => dataOf'[Claim(d, i)] \in {dataOf[Claim(d, i)], NoRecord}
        BY <3>4, <4>1, <4>2
      <4> QED
        BY <4>0, <4>1, <4>2, <4>3
    <3>6. KeysApart'
      BY <1>4, <1>13, <2>0, <2>1, <2>2, <2>3 DEF KeysApart
    <3> QED
      BY <3>3, <3>5, <3>6
  <2>4. CASE ~KeyListed(sent)
    <3>1. \A i \in 1..n : keys[i] = lastRowId + i
      BY <1>2, <2>4 DEF RowKeysOf, keys
    <3>2. Counting(c)' => \A i \in 1..n : Claim(c, i)' = keys[i]
      <4> HAVE Counting(c)'
      <4>1. reported'[c] = keys[n] /\ Len(batch'[c]) = n
        BY <1>0, <1>4 DEF InsertTypeOK, Counting
      <4>2. keys[n] = lastRowId + n
        <5>1. n = 1 \/ n = 2
          BY <1>1
        <5>2. n \in 1..n
          BY <5>1
        <5> QED
          BY <3>1, <5>2
      <4>3. \A i \in 1..n : Claim(c, i)' = lastRowId + n + i - n
        BY <4>1, <4>2 DEF Claim, Counted
      <4> QED
        BY <1>1, <1>2, <3>1, <4>3
    <3>3. \A k \in 1..lastRowId : k \in RowIds /\ dataOf'[k] \in {dataOf[k], NoRecord}
      <4> SUFFICES ASSUME NEW k \in 1..lastRowId
                   PROVE  k \in RowIds /\ dataOf'[k] \in {dataOf[k], NoRecord}
        OBVIOUS
      <4>1. k \in RowIds
        BY <1>2 DEF RowIds
      <4>2. k \notin used
        BY <1>1, <1>2, <1>8, <3>1
      <4> QED
        BY <1>10, <4>1, <4>2
    <3>4. KeysNameOwnRows'
      <4> SUFFICES ASSUME NEW m \in Records
                   PROVE  /\ modelKey[m] \notin {NoId, Preset} /\ m \notin guessed =>
                               modelKey[m] \in 1..lastRowId'
                          /\ modelKey[m] \in Sure => dataOf'[modelKey[m]] \in {m, Mixed, NoRecord}
        BY <1>4, <1>13 DEF KeysNameOwnRows
      <4>1. modelKey[m] \notin {NoId, Preset} /\ m \notin guessed => modelKey[m] \in 1..lastRowId'
        BY <1>2, <1>6, <2>0 DEF KeysNameOwnRows
      <4>2. modelKey[m] \in Sure => modelKey[m] \in 1..lastRowId
        BY <2>0 DEF KeysNameOwnRows, Sure, Doubtful
      <4>3. modelKey[m] \in Sure => dataOf'[modelKey[m]] \in {m, Mixed, NoRecord}
        <5> HAVE modelKey[m] \in Sure
        <5>1. dataOf'[modelKey[m]] \in {dataOf[modelKey[m]], NoRecord}
          BY <3>3, <4>2
        <5>2. dataOf[modelKey[m]] \in {m, Mixed, NoRecord}
          BY <2>0 DEF KeysNameOwnRows
        <5> QED
          BY <5>1, <5>2
      <4> QED
        BY <4>1, <4>3
    <3>5. \A i \in 1..n : /\ keys[i] \in 1..lastRowId'
                          /\ dataOf'[keys[i]] = batch[c][i]
                          /\ keys[i] > lastRowId
                          /\ keys[i] \in Sure => \A m \in Records : modelKey[m] # keys[i]
      <4>1. \A i \in 1..n : keys[i] \in used /\ keys[i] \in RowIds
        BY <1>3, <1>4 DEF used
      <4>2. \A i \in 1..n : keys[i] > lastRowId /\ keys[i] \in Int /\ keys[i] > 0
        BY <1>1, <1>2, <3>1
      <4>3. \A i \in 1..n : keys[i] \in 1..lastRowId' /\ dataOf'[keys[i]] = batch[c][i]
        <5> SUFFICES ASSUME NEW i \in 1..n
                     PROVE  keys[i] \in 1..lastRowId' /\ dataOf'[keys[i]] = batch[c][i]
          OBVIOUS
        <5>1. keys[i] <= lastRowId'
          BY <1>5, <4>1
        <5>2. dataOf'[keys[i]] = named(keys[i])
          BY <1>9, <4>1
        <5> QED
          BY <1>6, <1>7, <4>2, <5>1, <5>2
      <4>4. \A m \in Records : modelKey[m] \in Sure => modelKey[m] \in 1..lastRowId
        BY <2>0 DEF KeysNameOwnRows, Sure, Doubtful
      <4>5. \A i \in 1..n : keys[i] \in Sure => \A m \in Records : modelKey[m] # keys[i]
        BY <1>2, <4>2, <4>4
      <4> QED
        BY <4>2, <4>3, <4>5
    <3>6. ClaimsOwn'
      <4> SUFFICES ASSUME NEW d \in Inserts, Counting(d)', NEW i \in 1..Len(batch[d])
                   PROVE  /\ Claim(d, i)' \in 1..lastRowId'
                          /\ Claim(d, i)' \in Sure =>
                               /\ dataOf'[Claim(d, i)'] \in {batch[d][i], Mixed, NoRecord}
                               /\ \A m \in Records : modelKey[m] # Claim(d, i)'
        BY <1>4, <1>13 DEF ClaimsOwn
      <4>1. CASE d = c
        BY <3>2, <3>5, <4>1
      <4>2. CASE d # c
        <5>0. Counting(d) /\ Claim(d, i)' = Claim(d, i)
          BY <2>1, <4>2
        <5>1. /\ Claim(d, i) \in 1..lastRowId
              /\ Claim(d, i) \in Sure =>
                   /\ dataOf[Claim(d, i)] \in {batch[d][i], Mixed, NoRecord}
                   /\ \A m \in Records : modelKey[m] # Claim(d, i)
          BY <2>0, <5>0 DEF ClaimsOwn
        <5>2. dataOf'[Claim(d, i)] \in {dataOf[Claim(d, i)], NoRecord}
          BY <3>3, <5>1
        <5>3. Claim(d, i) \in 1..lastRowId'
          BY <1>2, <1>6, <5>1
        <5> QED
          BY <5>0, <5>1, <5>2, <5>3
      <4> QED
        BY <4>1, <4>2
    <3>7. KeysApart'
      <4>1. ASSUME NEW d \in Inserts \ {c}, Counting(d)', Counting(c)', NEW i \in 1..n,
                   NEW j \in 1..Len(batch[d])
            PROVE  Claim(c, i)' # Claim(d, j)'
        <5>1. Claim(d, j)' \in 1..lastRowId
          BY <2>0, <2>1, <4>1 DEF ClaimsOwn
        <5>2. Claim(c, i)' > lastRowId
          BY <3>2, <3>5, <4>1
        <5> QED
          BY <1>2, <5>1, <5>2
      <4>2. ASSUME NEW d \in Inserts \ {c}, NEW e \in Inserts \ {c}, d # e,
                   Counting(d)', Counting(e)',
                   NEW i \in 1..Len(batch[d]), NEW j \in 1..Len(batch[e])
            PROVE  Claim(d, i)' # Claim(e, j)'
        BY <2>0, <2>1, <4>2 DEF KeysApart
      <4> QED
        BY <1>4, <1>13, <2>0, <4>1, <4>2 DEF KeysApart
    <3> QED
      BY <3>4, <3>6, <3>7
  <2> QED
    BY <2>3, <2>4
<1>15. \A m \in guessed' : modelKey'[m] # NoId
  BY <1>4 DEF InsertInv
<1> QED
  BY <1>11, <1>12, <1>14, <1>15 DEF InsertInv

(* An insert that meets a row writes none or updates it: a row of the model *)
(* itself, or the data of several.                                          *)
LEMMA MeetsRowKeeps ==
    ASSUME InsertInv, NEW c \in Inserts, IgnoreInsert(c) \/ \E n \in RowIds : UpdateInstead(c, n)
    PROVE  InsertInv'
<1>0. InsertTypeOK /\ SentKeysStay
  BY DEF InsertInv
<1>1. PICK key \in Int, after \in {"answer", "ignored"} :
        /\ inserting[c] = "sent"
        /\ inserting' = [inserting EXCEPT ![c] = after]
        /\ reported' = [reported EXCEPT ![c] = key]
        /\ after = "answer" => key = NoId
        /\ behaviour' = [behaviour EXCEPT ![c] = "None"]
        /\ after = "ignored" => key \in Nat /\ Len(batch[c]) = 1
        /\ UNCHANGED <<modelKey, lastRowId, batch, sentKeys, guessed>>
  <2>1. CASE IgnoreInsert(c)
    <3>1. PICK key \in StaleKeys : reported' = [reported EXCEPT ![c] = key]
      BY <2>1 DEF IgnoreInsert
    <3>2. key \in Int /\ key \in Nat
      BY InsertAssumption DEF RowIds
    <3>3. Len(batch[c]) = 1
      BY <1>0, <2>1 DEF IgnoreInsert, InsertTypeOK
    <3> QED
      BY <2>1, <3>1, <3>2, <3>3 DEF IgnoreInsert
  <2>2. CASE \E n \in RowIds : UpdateInstead(c, n)
    <3>1. reported' = [reported EXCEPT ![c] = NoId] /\ NoId \in Int
      BY <1>0, <2>2 DEF UpdateInstead, InsertTypeOK, NoId
    <3> QED
      BY <2>2, <3>1 DEF UpdateInstead
  <2> QED
    BY <2>1, <2>2
<1>2. Sure' = Sure
  BY <1>1 DEF Sure, Doubtful
<1>3. /\ dataOf' \in [RowIds -> Records \cup {NoRecord, Mixed}]
      /\ \A k \in RowIds : k \in Sure => dataOf'[k] \in {dataOf[k], Mixed} \cup
            {m \in Records : modelKey[m] = k}
  <2>1. CASE IgnoreInsert(c)
    BY <1>0, <2>1 DEF IgnoreInsert, InsertTypeOK
  <2>2. CASE \E n \in RowIds : UpdateInstead(c, n)
    <3>1. PICK n \in RowIds : UpdateInstead(c, n)
      BY <2>2
    <3>2. batch[c] \in Batches /\ Len(sentKeys[c]) = Len(batch[c])
      BY <1>0, <1>1 DEF InsertTypeOK
    <3>3. 1 \in 1..Len(batch[c]) /\ batch[c][1] \in Records
      BY <3>2, BatchShape
    <3>4. n = sentKeys[c][1] => modelKey[batch[c][1]] = n
      <4>1. n # NoId
        BY <3>1, InsertAssumption DEF RowIds, NoId
      <4> QED
        BY <1>0, <3>3, <4>1 DEF SentKeysStay
    <3> QED
      BY <1>0, <3>1, <3>3, <3>4 DEF UpdateInstead, InsertTypeOK
  <2> QED
    BY <2>1, <2>2
<1>4. InsertTypeOK'
  BY <1>0, <1>1, <1>3 DEF InsertTypeOK, Behaviours
<1>5. SentKeysStay'
  BY <1>0, <1>1 DEF SentKeysStay
<1>6. ~Counting(c)' /\ \A d \in Inserts \ {c} :
          /\ Counting(d)' <=> Counting(d)
          /\ \A i : Claim(d, i)' = Claim(d, i)
  BY <1>0, <1>1 DEF InsertTypeOK, Counting, Claim
<1>7. ClaimsOwn /\ KeysApart /\ KeysNameOwnRows
  BY DEF InsertInv
<1>8. KeysApart'
  BY <1>1, <1>2, <1>6, <1>7 DEF KeysApart
<1>9. 1..lastRowId \subseteq RowIds
  BY <1>0, InsertAssumption DEF InsertTypeOK, RowIds
<1>10. ClaimsOwn'
  <2> SUFFICES ASSUME NEW d \in Inserts \ {c}, Counting(d), NEW i \in 1..Len(batch[d])
               PROVE  /\ Claim(d, i) \in 1..lastRowId
                      /\ Claim(d, i) \in Sure =>
                           /\ dataOf'[Claim(d, i)] \in {batch[d][i], Mixed, NoRecord}
                           /\ \A m \in Records : modelKey[m] # Claim(d, i)
    BY <1>1, <1>2, <1>6 DEF ClaimsOwn
  <2>1. /\ Claim(d, i) \in 1..lastRowId
        /\ Claim(d, i) \in Sure =>
             /\ dataOf[Claim(d, i)] \in {batch[d][i], Mixed, NoRecord}
             /\ \A m \in Records : modelKey[m] # Claim(d, i)
    BY <1>7 DEF ClaimsOwn
  <2>2. Claim(d, i) \in RowIds
    BY <1>9, <2>1
  <2> QED
    BY <1>3, <2>1, <2>2
<1>11. KeysNameOwnRows'
  <2> SUFFICES ASSUME NEW m \in Records
               PROVE  /\ modelKey[m] \notin {NoId, Preset} /\ m \notin guessed =>
                           modelKey[m] \in 1..lastRowId
                      /\ modelKey[m] \in Sure => dataOf'[modelKey[m]] \in {m, Mixed, NoRecord}
    BY <1>1, <1>2 DEF KeysNameOwnRows
  <2>1. modelKey[m] \notin {NoId, Preset} /\ m \notin guessed => modelKey[m] \in 1..lastRowId
    BY <1>7 DEF KeysNameOwnRows
  <2>2. modelKey[m] \in Sure => modelKey[m] \in RowIds
    BY <1>9, <2>1 DEF Sure, Doubtful
  <2>3. modelKey[m] \in Sure => dataOf'[modelKey[m]] \in {m, Mixed, NoRecord}
    <3> HAVE modelKey[m] \in Sure
    <3>1. dataOf[modelKey[m]] \in {m, Mixed, NoRecord}
      BY <1>7 DEF KeysNameOwnRows
    <3>2. \A o \in Records : modelKey[o] = modelKey[m] => o = m
      BY <1>7 DEF KeysApart
    <3> QED
      BY <1>3, <2>2, <3>1, <3>2
  <2> QED
    BY <2>1, <2>3
<1>12. \A m \in guessed' : modelKey'[m] # NoId
  BY <1>1 DEF InsertInv
<1> QED
  BY <1>4, <1>5, <1>8, <1>10, <1>11, <1>12 DEF InsertInv

(* The answer: only rows written without a key give their models one, and   *)
(* an ignored insert the key it was answered.                               *)
LEMMA InsertAnsweredKeeps ==
    ASSUME InsertInv, NEW c \in Inserts, InsertAnswered(c)
    PROVE  InsertInv'
<1>0. InsertTypeOK /\ SentKeysStay
  BY DEF InsertInv
<1> DEFINE n == Len(batch[c])
           position(m) == CHOOSE i \in 1..n : batch[c][i] = m
           given == {m \in Records : /\ modelKey[m] = NoId /\ reported[c] # NoId
                                     /\ \E i \in 1..n : batch[c][i] = m}
           ignored == inserting[c] = "ignored"
<1>1. /\ batch[c] \in Seq(Records) /\ n \in {1, 2}
      /\ \A i, j \in 1..n : batch[c][i] = batch[c][j] => i = j
  <2>1. batch[c] \in Batches
    BY <1>0 DEF InsertAnswered, InsertTypeOK
  <2> QED
    BY <2>1, BatchShape
<1>2. /\ inserting[c] \in {"answer", "ignored"}
      /\ modelKey' = [m \in Records |-> IF m \in given THEN Claim(c, position(m)) ELSE modelKey[m]]
      /\ inserting' = [inserting EXCEPT ![c] = "idle"]
      /\ batch' = [batch EXCEPT ![c] = <<>>]
      /\ sentKeys' = [sentKeys EXCEPT ![c] = <<>>]
      /\ reported' = [reported EXCEPT ![c] = NoId]
      /\ guessed' = IF ignored THEN guessed \cup given ELSE guessed
      /\ behaviour' = [behaviour EXCEPT ![c] = "None"]
      /\ UNCHANGED <<dataOf, lastRowId>>
  BY DEF InsertAnswered, Done, Claim
<1>3. \A m \in given : m \in Records /\ position(m) \in 1..n /\ batch[c][position(m)] = m
  OBVIOUS
<1>4. \A i \in 1..n : Claim(c, i) \in Int
  BY <1>0, <1>1 DEF Claim, Counted, InsertTypeOK
<1>5. \A m \in given : modelKey[m] = NoId /\ reported[c] # NoId
  OBVIOUS
<1> HIDE DEF position, given
<1>6. \A m \in Records : modelKey[m] # NoId => modelKey'[m] = modelKey[m]
  BY <1>2, <1>5
<1>7. modelKey' \in [Records -> Int]
  BY <1>0, <1>2, <1>3, <1>4 DEF InsertTypeOK
<1>8. InsertTypeOK'
  <2>1. guessed' \subseteq Records
    BY <1>0, <1>2, <1>3 DEF InsertTypeOK
  <2> QED
    BY <1>0, <1>2, <1>7, <2>1 DEF InsertTypeOK, NoId, Behaviours
<1>9. SentKeysStay'
  <2> SUFFICES ASSUME NEW d \in Inserts \ {c}, NEW i \in 1..Len(batch[d]),
                      sentKeys[d][i] # NoId
               PROVE  modelKey'[batch[d][i]] = sentKeys[d][i]
    <3>1. Len(batch'[c]) = 0
      BY <1>0, <1>2 DEF InsertTypeOK
    <3>2. \A d \in Inserts \ {c} : batch'[d] = batch[d] /\ sentKeys'[d] = sentKeys[d]
      BY <1>0, <1>2 DEF InsertTypeOK
    <3> QED
      BY <3>1, <3>2 DEF SentKeysStay
  <2>1. batch[d] \in Seq(Records)
    BY <1>0, BatchShape DEF InsertTypeOK
  <2>2. batch[d][i] \in Records
    BY <2>1
  <2> QED
    BY <1>0, <1>6, <2>2 DEF SentKeysStay
<1>10. \A m \in guessed' : modelKey'[m] # NoId
  <2> SUFFICES ASSUME NEW m \in guessed'
               PROVE  modelKey'[m] # NoId
    OBVIOUS
  <2>1. CASE m \in guessed
    BY <1>0, <1>6, <2>1 DEF InsertInv, InsertTypeOK
  <2>2. CASE m \in given /\ ignored
    <3>1. reported[c] \in Nat /\ n = 1
      BY <1>0, <1>2, <2>2 DEF InsertTypeOK
    <3> QED
      BY <1>2, <1>3, <2>2, <3>1 DEF Claim, Counted, NoId
  <2> QED
    BY <1>2, <2>1, <2>2
<1>11. \A m \in Records : m \in guessed => modelKey'[m] = modelKey[m] /\ m \notin given
  BY <1>2, <1>5, <1>6 DEF InsertInv
<1>12. Sure' \subseteq Sure
  BY <1>0, <1>2, <1>11 DEF Sure, Doubtful, InsertTypeOK
<1>13. ASSUME NEW m \in given
       PROVE  modelKey'[m] \in Sure' => ~ignored
  BY <1>2, <1>13 DEF Sure, Doubtful
<1>14. ClaimsOwn' /\ KeysApart' /\ KeysNameOwnRows'
  <2>0. ClaimsOwn /\ KeysApart /\ KeysNameOwnRows
    BY DEF InsertInv
  <2>1. ~Counting(c)' /\ \A d \in Inserts \ {c} :
          /\ Counting(d)' <=> Counting(d)
          /\ batch'[d] = batch[d]
          /\ \A i : Claim(d, i)' = Claim(d, i)
    BY <1>0, <1>2 DEF InsertTypeOK, Counting, Claim
  <2>2. \A m \in given : ~ignored => Counting(c)
    <3> SUFFICES ASSUME NEW m \in given, ~ignored
                 PROVE  Counting(c)
      OBVIOUS
    <3>0. PICK i \in 1..n : batch[c][i] = m /\ modelKey[batch[c][i]] = NoId
      BY <1>3, <1>5
    <3>1. Len(sentKeys[c]) = n /\ sentKeys[c] \in Seq(Int)
      BY <1>0 DEF InsertTypeOK
    <3>2. sentKeys[c][i] = NoId
      BY <1>0, <3>0 DEF SentKeysStay
    <3>3. ~KeyListed(sentKeys[c])
      BY <3>1, <3>2 DEF KeyListed
    <3> QED
      BY <1>2, <1>5, <3>3 DEF Counting
  <2>3. \A m \in given : /\ modelKey'[m] = Claim(c, position(m))
                         /\ m \in Records /\ position(m) \in 1..n /\ batch[c][position(m)] = m
    BY <1>2, <1>3
  <2>4. \A m \in Records \ given : modelKey'[m] = modelKey[m]
    BY <1>2
  <2>5. KeysNameOwnRows'
    <3> SUFFICES ASSUME NEW m \in Records
                 PROVE  /\ modelKey'[m] \notin {NoId, Preset} /\ m \notin guessed' =>
                             modelKey'[m] \in 1..lastRowId
                        /\ modelKey'[m] \in Sure' => dataOf[modelKey'[m]] \in {m, Mixed, NoRecord}
      BY <1>2 DEF KeysNameOwnRows
    <3>1. CASE m \in given
      <4>1. CASE ignored
        BY <1>2, <1>13, <3>1, <4>1
      <4>2. CASE ~ignored
        <5>1. Counting(c) /\ modelKey'[m] = Claim(c, position(m)) /\ position(m) \in 1..n
              /\ batch[c][position(m)] = m
          BY <2>2, <2>3, <3>1, <4>2
        <5>2. /\ Claim(c, position(m)) \in 1..lastRowId
              /\ Claim(c, position(m)) \in Sure =>
                   dataOf[Claim(c, position(m))] \in {batch[c][position(m)], Mixed, NoRecord}
          BY <2>0, <5>1 DEF ClaimsOwn
        <5> QED
          BY <1>12, <5>1, <5>2
      <4> QED
        BY <4>1, <4>2
    <3>2. CASE m \notin given
      <4>1. modelKey'[m] = modelKey[m] /\ guessed \subseteq guessed'
        BY <1>2, <2>4, <3>2
      <4> QED
        BY <1>12, <2>0, <4>1 DEF KeysNameOwnRows
    <3> QED
      BY <3>1, <3>2
  <2>6. ClaimsOwn'
    <3> SUFFICES ASSUME NEW d \in Inserts \ {c}, Counting(d), NEW i \in 1..Len(batch[d])
                 PROVE  /\ Claim(d, i) \in 1..lastRowId
                        /\ Claim(d, i) \in Sure' =>
                             /\ dataOf[Claim(d, i)] \in {batch[d][i], Mixed, NoRecord}
                             /\ \A m \in Records : modelKey'[m] # Claim(d, i)
      BY <1>2, <2>1 DEF ClaimsOwn
    <3>1. /\ Claim(d, i) \in 1..lastRowId
          /\ Claim(d, i) \in Sure =>
               /\ dataOf[Claim(d, i)] \in {batch[d][i], Mixed, NoRecord}
               /\ \A m \in Records : modelKey[m] # Claim(d, i)
      BY <2>0 DEF ClaimsOwn
    <3>2. \A m \in given : Claim(d, i) \in Sure' => modelKey'[m] # Claim(d, i)
      BY <1>13, <2>0, <2>2, <2>3 DEF KeysApart
    <3> QED
      BY <1>12, <2>4, <3>1, <3>2
  <2>7. KeysApart'
    <3>1. ASSUME NEW m \in given, NEW o \in Records, m # o, modelKey'[m] = modelKey'[o],
                 modelKey'[m] \in Sure'
          PROVE  FALSE
      <4>0. ~ignored /\ Counting(c) /\ modelKey'[m] = Claim(c, position(m)) /\ position(m) \in 1..n
        BY <1>13, <2>2, <2>3, <3>1
      <4>1. CASE o \in given
        <5>1. position(m) # position(o)
          BY <2>3, <3>1, <4>1
        <5>2. \A i, j \in 1..n : Claim(c, i) = Claim(c, j) => i = j
          BY <1>0, <1>1 DEF Claim, Counted, InsertTypeOK
        <5> QED
          BY <2>3, <3>1, <4>1, <5>1, <5>2
      <4>2. CASE o \notin given
        <5>1. modelKey[o] = Claim(c, position(m)) /\ Claim(c, position(m)) \in Sure
          BY <1>12, <2>4, <3>1, <4>0, <4>2
        <5> QED
          BY <2>0, <4>0, <5>1 DEF ClaimsOwn
      <4> QED
        BY <4>1, <4>2
    <3>2. ASSUME NEW m \in Records, NEW o \in Records, m # o, modelKey'[m] = modelKey'[o]
          PROVE  modelKey'[m] \notin Sure'
      <4>1. CASE m \in given \/ o \in given
        BY <3>1, <3>2, <4>1
      <4>2. CASE ~(m \in given) /\ ~(o \in given)
        BY <1>12, <2>0, <2>4, <3>2, <4>2 DEF KeysApart
      <4> QED
        BY <4>1, <4>2
    <3>3. ASSUME NEW d \in Inserts, NEW e \in Inserts, Counting(d)', Counting(e)', d # e,
                 NEW i \in 1..Len(batch'[d]), NEW j \in 1..Len(batch'[e])
          PROVE  Claim(d, i)' # Claim(e, j)'
      BY <2>0, <2>1, <3>3 DEF KeysApart
    <3> QED
      BY <3>2, <3>3 DEF KeysApart
  <2> QED
    BY <2>5, <2>6, <2>7
<1> QED
  BY <1>8, <1>9, <1>10, <1>14 DEF InsertInv

(* A statement that is refused and a row that is deleted take keys from     *)
(* nobody.                                                                  *)
LEMMA InsertOthersKeep ==
    ASSUME InsertInv, (\E c \in Inserts : InsertRefused(c)) \/ \E k \in RowIds : RowDeleted(k)
    PROVE  InsertInv'
<1>0. InsertTypeOK /\ SentKeysStay
  BY DEF InsertInv
<1>1. ASSUME NEW c \in Inserts, InsertRefused(c)
      PROVE  InsertInv'
  <2>1. /\ inserting' = [inserting EXCEPT ![c] = "idle"]
        /\ batch' = [batch EXCEPT ![c] = <<>>]
        /\ sentKeys' = [sentKeys EXCEPT ![c] = <<>>]
        /\ reported' = [reported EXCEPT ![c] = NoId]
        /\ behaviour' = [behaviour EXCEPT ![c] = "None"]
        /\ UNCHANGED <<lastRowId, modelKey, dataOf, guessed>>
    BY <1>1 DEF InsertRefused, Done
  <2>2. InsertTypeOK' /\ SentKeysStay'
    BY <1>0, <2>1 DEF InsertTypeOK, SentKeysStay, NoId, Behaviours
  <2>3. ~Counting(c)' /\ \A d \in Inserts \ {c} :
          /\ Counting(d)' <=> Counting(d)
          /\ batch'[d] = batch[d] /\ reported'[d] = reported[d]
    BY <1>0, <2>1 DEF InsertTypeOK, Counting
  <2>4. Sure' = Sure
    BY <2>1 DEF Sure, Doubtful
  <2>5. ClaimsOwn' /\ KeysApart' /\ KeysNameOwnRows'
    BY <2>1, <2>3, <2>4 DEF InsertInv, ClaimsOwn, KeysApart, KeysNameOwnRows, Claim
  <2> QED
    BY <2>1, <2>2, <2>5 DEF InsertInv
<1>2. ASSUME NEW k \in RowIds, RowDeleted(k)
      PROVE  InsertInv'
  <2>1. /\ dataOf' = [dataOf EXCEPT ![k] = NoRecord]
        /\ UNCHANGED <<modelKey, lastRowId, inserting, batch, behaviour, sentKeys, reported, guessed>>
    BY <1>2 DEF RowDeleted
  <2>2. InsertTypeOK' /\ SentKeysStay'
    BY <1>0, <2>1 DEF InsertTypeOK, SentKeysStay
  <2>3. \A i : dataOf'[i] \in {dataOf[i], NoRecord}
    BY <1>0, <2>1 DEF InsertTypeOK
  <2>4. Sure' = Sure
    BY <2>1 DEF Sure, Doubtful
  <2>5. ClaimsOwn' /\ KeysApart' /\ KeysNameOwnRows'
    BY <2>1, <2>3, <2>4 DEF InsertInv, ClaimsOwn, KeysApart, KeysNameOwnRows, Claim, Counting
  <2> QED
    BY <2>1, <2>2, <2>5 DEF InsertInv
<1> QED
  BY <1>1, <1>2

(* With a driver that reports the key of the last row, the key a model got  *)
(* never names a row with the data of another model nor one that does not   *)
(* exist yet, for any number of models, overlapping inserts of any          *)
(* behaviour and deletes; but for a key that an ignored insert was answered *)
(* and a row that an upsert of another model wrote into.                    *)
THEOREM KeysNameTheirRows == InsertSpec => []KeyNamesOwnRow
<1>1. InsertInv /\ UNCHANGED insertVars => InsertInv'
  BY DEF insertVars, InsertInv, InsertTypeOK, SentKeysStay, ClaimsOwn, KeysApart,
         KeysNameOwnRows, Claim, Counting, Sure, Doubtful
<1>2. InsertInv /\ InsertNext => InsertInv'
  BY SendInsertKeeps, RunInsertKeeps, MeetsRowKeeps, InsertAnsweredKeeps, InsertOthersKeep
     DEF InsertNext
<1>3. InsertInv => KeyNamesOwnRow
  <2> SUFFICES ASSUME InsertInv, NEW m \in Records, modelKey[m] \notin {NoId, Preset} \cup Doubtful
               PROVE  modelKey[m] <= lastRowId /\ dataOf[modelKey[m]] \in {m, Mixed, NoRecord}
    BY DEF KeyNamesOwnRow
  <2>1. modelKey[m] \in Sure /\ m \notin guessed
    BY DEF InsertInv, InsertTypeOK, Sure, Doubtful
  <2>2. /\ modelKey[m] \in 1..lastRowId
        /\ dataOf[modelKey[m]] \in {m, Mixed, NoRecord}
    BY <2>1 DEF InsertInv, KeysNameOwnRows
  <2> QED
    BY <2>2
<1> QED
  BY <1>1, <1>2, <1>3, InsertInvInit, PTL DEF InsertSpec

-----------------------------------------------------------------------------
(* OrmModel.                                                                *)

Values == ColumnValues \cup {NoValue}
Full == [ModelColumns -> Values]
Snapshots == UNION {[S -> Values] : S \in SUBSET ModelColumns}
CallKinds == {"none", "update", "insert", "reinsert", "ignored", "archive", "destroy", "refresh"}

ModelVarsOK ==
    /\ ModelTypeOK
    /\ keyKnown \in BOOLEAN /\ isDirty \in BOOLEAN
    /\ dirtyProps # {} => isDirty
    /\ call \in [ModelCalls -> CallKinds]
    /\ captured \in [ModelCalls -> Snapshots]

(* From an insert that made the row to its answer that call is under way.   *)
KeyFollowsRow ==
    rowState # "none" /\ ~keyKnown =>
        \E k \in ModelCalls : phase[k] = "done" /\ call[k] = "insert"

(* The columns of which something is said, and those that an insert() of    *)
(* the stored model has cleared and is about to write.                      *)
Held == {c \in ModelColumns \ overtaken : mem[c] # NoValue}
Reinserting == \E k \in ModelCalls : phase[k] = "sent" /\ call[k] = "reinsert"
Promised(c) == Reinserting /\ c \notin dirtyProps

Carries(k) ==
    \/ phase[k] = "sent" /\ call[k] \in {"update", "insert", "reinsert", "archive"}
    \/ phase[k] = "done" /\ call[k] = "insert"

(* What a call has captured is what the instance still holds, but for what  *)
(* was assigned meanwhile; an update left out only what was stored already. *)
CallFits(k) ==
    /\ call[k] # "none" /\ (phase[k] = "sent" => call[k] # "ignored")
    /\ call[k] \in {"update", "reinsert", "archive", "destroy", "refresh"} => keyKnown
    /\ Carries(k) =>
         \A c \in Held : /\ c \in DOMAIN captured[k] => captured[k][c] = mem[c]
                         /\ call[k] # "update" => c \in DOMAIN captured[k]
    /\ phase[k] = "sent" /\ call[k] = "update" /\ rowState = "stored" =>
         \A c \in Held : row[c] = mem[c] \/ Promised(c) \/ c \in DOMAIN captured[k]
    /\ phase[k] = "done" /\ call[k] = "update" /\ rowState = "stored" =>
         \A c \in Held : row[c] = mem[c] \/ Promised(c)
    /\ phase[k] = "done" /\ call[k] = "destroy" /\ rowState = "stored" =>
         \A c \in Held : row[c] = mem[c]
    /\ phase[k] = "done" /\ call[k] = "refresh" => captured[k] \in Full

CallsFit == \A k \in ModelCalls : phase[k] # "idle" => CallFits(k)

(* SavedOrDirty while calls are under way, and before the key is known.     *)
StoredOrDirty ==
    rowState = "stored" =>
        \A c \in Held : row[c] = mem[c] \/ (keyKnown /\ c \in dirtyProps) \/ Promised(c)

ModelInv == ModelVarsOK /\ KeyFollowsRow /\ CallsFit /\ StoredOrDirty

(* What a call may capture: the values the instance holds of some columns,  *)
(* but for relations that are empty.                                        *)
LEMMA SnapshotsOf ==
    /\ Full \subseteq Snapshots
    /\ Blank \in Snapshots
    /\ ModelTypeOK => row \in Full
<1>1. Full \subseteq Snapshots
  BY DEF Full, Snapshots
<1>2. Blank \in Snapshots
  <2>1. Blank \in [{} -> Values] /\ {} \in SUBSET ModelColumns
    BY DEF Blank
  <2> QED
    BY <2>1 DEF Snapshots
<1> QED
  BY <1>1, <1>2 DEF Full, ModelTypeOK, Values

(* The columns toSql() has, and their values.                               *)
LEMMA ToSqlOf ==
    ASSUME ModelTypeOK, NEW cols \in SUBSET ModelColumns
    PROVE  /\ ToSql(cols) \in Snapshots
           /\ \A c : c \in DOMAIN ToSql(cols) <=> c \in cols /\ mem[c] # NoValue
           /\ \A c \in DOMAIN ToSql(cols) : ToSql(cols)[c] = mem[c]
<1> DEFINE kept == {c \in cols : mem[c] # NoValue}
<1>1. ToSql(cols) = [c \in kept |-> mem[c]]
  BY DEF ToSql, Restrict
<1>2. ToSql(cols) \in [kept -> Values] /\ kept \in SUBSET ModelColumns
  BY <1>1 DEF ModelTypeOK, Values
<1>3. ToSql(cols) \in Snapshots
  BY <1>2 DEF Snapshots
<1> QED
  BY <1>1, <1>3

(* The values of a snapshot are values of columns.                          *)
LEMMA SnapshotValues ==
    ASSUME NEW s \in Snapshots
    PROVE  DOMAIN s \subseteq ModelColumns /\ \A c \in DOMAIN s : s[c] \in Values
  BY DEF Snapshots

(* Nothing is stored or under way at first.                                 *)
LEMMA ModelInvInit == ModelInit => ModelInv
<1> SUFFICES ASSUME ModelInit
             PROVE  ModelInv
  OBVIOUS
<1>1. ModelVarsOK
  BY SnapshotsOf DEF ModelInit, ModelVarsOK, ModelTypeOK, NullRow, CallKinds
<1> QED
  BY <1>1 DEF ModelInit, ModelInv, KeyFollowsRow, CallsFit, StoredOrDirty

(* An assignment, and a relation that is set, is dirty, and noted if a      *)
(* query is under way.                                                      *)
LEMMA AssignKeeps ==
    ASSUME ModelInv, NEW c \in ModelColumns, NEW v \in Values, Assign(c, v) \/ AttachOne(c, v)
    PROVE  ModelInv'
<1>0. ModelVarsOK /\ ModelTypeOK /\ KeyFollowsRow /\ CallsFit /\ StoredOrDirty
  BY DEF ModelInv, ModelVarsOK
<1>1. /\ mem' = [mem EXCEPT ![c] = v]
      /\ isDirty' = TRUE /\ dirtyProps' = dirtyProps \cup {c}
      /\ overtaken' = IF Underway = {} THEN overtaken \ {c} ELSE overtaken \cup {c}
      /\ UNCHANGED <<row, rowState, keyKnown, call, phase, captured>>
  BY DEF Assign, AttachOne, Track, stored
<1>2. ModelVarsOK'
  BY <1>0, <1>1 DEF ModelVarsOK, ModelTypeOK, Values
<1>3. KeyFollowsRow'
  BY <1>0, <1>1 DEF KeyFollowsRow
<1>4. \A d \in ModelColumns \ {c} :
        mem'[d] = mem[d] /\ (d \in Held' <=> d \in Held)
          /\ (Promised(d)' <=> Promised(d)) /\ (d \in dirtyProps' <=> d \in dirtyProps)
  BY <1>0, <1>1 DEF ModelTypeOK, Held, Promised, Reinserting
<1>5. Held' \subseteq ModelColumns
  BY <1>1 DEF Held
<1>6. CASE Underway = {}
  <2>1. \A k \in ModelCalls : phase[k] = "idle"
    BY <1>6 DEF Underway
  <2>2. rowState = "stored" => keyKnown
    BY <1>0, <2>1 DEF KeyFollowsRow
  <2>3. StoredOrDirty'
    BY <1>0, <1>1, <1>4, <1>5, <2>2 DEF StoredOrDirty
  <2> QED
    BY <1>1, <1>2, <1>3, <2>1, <2>3 DEF ModelInv, CallsFit
<1>7. CASE Underway # {}
  <2>1. c \notin Held'
    BY <1>1, <1>7 DEF Held
  <2>2. /\ Held' \subseteq Held
        /\ \A d \in Held' : mem'[d] = mem[d] /\ (Promised(d)' <=> Promised(d))
                               /\ (d \in dirtyProps' <=> d \in dirtyProps)
    BY <1>4, <1>5, <2>1
  <2>3. StoredOrDirty'
    BY <1>0, <1>1, <2>2 DEF StoredOrDirty
  <2>4. CallsFit'
    <3> SUFFICES ASSUME NEW j \in ModelCalls, phase[j] # "idle"
                 PROVE  CallFits(j)'
      BY <1>1 DEF CallsFit
    <3>1. CallFits(j) /\ Carries(j)' = Carries(j)
      BY <1>0, <1>1 DEF CallsFit, Carries
    <3> QED
      BY <1>1, <2>2, <3>1 DEF CallFits
  <2> QED
    BY <1>2, <1>3, <2>3, <2>4 DEF ModelInv
<1> QED
  BY <1>6, <1>7

(* A step that changes nothing but that a query is now under way, or no     *)
(* longer: of any other call.                                               *)
LEMMA OtherCallFits ==
    ASSUME NEW j \in ModelCalls, CallFits(j),
           phase'[j] = phase[j], call'[j] = call[j], captured'[j] = captured[j],
           keyKnown => keyKnown',
           Held' \subseteq Held, \A c \in Held' : mem'[c] = mem[c],
           rowState' = "stored" =>
               \A c \in Held' : \/ row'[c] = mem[c]
                                \/ rowState = "stored" /\ row'[c] = row[c]
                                     /\ (Promised(c) => Promised(c)')
    PROVE  CallFits(j)'
<1>1. Carries(j)' = Carries(j)
  BY DEF Carries
<1>2. /\ call'[j] \in {"update", "reinsert", "archive", "destroy", "refresh"} => keyKnown'
      /\ Carries(j)' =>
           \A c \in Held' : /\ c \in DOMAIN captured'[j] => captured'[j][c] = mem'[c]
                            /\ call'[j] # "update" => c \in DOMAIN captured'[j]
      /\ phase'[j] = "done" /\ call'[j] = "refresh" => captured'[j] \in Full
  BY <1>1 DEF CallFits
<1>3. phase'[j] = "sent" /\ call'[j] = "update" /\ rowState' = "stored" =>
         \A c \in Held' : row'[c] = mem'[c] \/ Promised(c)' \/ c \in DOMAIN captured'[j]
  BY DEF CallFits
<1>4. phase'[j] = "done" /\ call'[j] = "update" /\ rowState' = "stored" =>
         \A c \in Held' : row'[c] = mem'[c] \/ Promised(c)'
  BY DEF CallFits
<1>5. phase'[j] = "done" /\ call'[j] = "destroy" /\ rowState' = "stored" =>
         \A c \in Held' : row'[c] = mem'[c]
  BY DEF CallFits
<1> QED
  BY <1>2, <1>3, <1>4, <1>5 DEF CallFits, Full

(* A call that begins captures what the instance holds, and insert() takes  *)
(* over what it clears.                                                     *)
LEMMA SendKeeps ==
    ASSUME ModelInv, NEW k \in ModelCalls, Update(k) \/ Insert(k) \/ SendByKey(k)
    PROVE  ModelInv'
<1>0. ModelVarsOK /\ ModelTypeOK /\ KeyFollowsRow /\ CallsFit /\ StoredOrDirty
  BY DEF ModelInv, ModelVarsOK
<1>1. PICK what \in CallKinds \ {"none", "ignored"}, values \in Snapshots :
        /\ Send(k, what, values)
        /\ what = "update" => values = ToSql(dirtyProps)
        /\ what \in {"insert", "reinsert", "archive"} => values = ToSql(ModelColumns)
        /\ what # "insert" => keyKnown
        /\ what \notin {"insert", "reinsert"} => UNCHANGED <<isDirty, dirtyProps>>
        /\ what = "insert" => ~keyKnown
        /\ what \in {"insert", "reinsert"} => isDirty' = FALSE /\ dirtyProps' = {}
  <2>1. CASE Update(k)
    BY <1>0, <2>1, ToSqlOf DEF Update, CallKinds, ModelTypeOK
  <2>2. CASE Insert(k)
    BY <1>0, <2>2, ToSqlOf DEF Insert, CallKinds
  <2>3. CASE SendByKey(k)
    BY <1>0, <2>3, ToSqlOf, SnapshotsOf DEF SendByKey, CallKinds
  <2> QED
    BY <2>1, <2>2, <2>3
<1>2. UNCHANGED <<mem, row, rowState, keyKnown, assigns, overtaken>>
  BY DEF Update, Insert, SendByKey, stored, history
<1>3. /\ phase[k] = "idle"
      /\ call' = [call EXCEPT ![k] = what]
      /\ phase' = [phase EXCEPT ![k] = "sent"]
      /\ captured' = [captured EXCEPT ![k] = values]
  BY <1>1 DEF Send
<1>4. /\ phase'[k] = "sent" /\ call'[k] = what /\ captured'[k] = values
      /\ \A j \in ModelCalls \ {k} :
           phase'[j] = phase[j] /\ call'[j] = call[j] /\ captured'[j] = captured[j]
  BY <1>0, <1>3 DEF ModelVarsOK, ModelTypeOK
<1>5. ModelVarsOK'
  <2>1. /\ isDirty' \in BOOLEAN /\ (dirtyProps' # {} => isDirty')
        /\ dirtyProps' \subseteq ModelColumns
    <3>1. CASE what \in {"insert", "reinsert"}
      <4>1. isDirty' = FALSE /\ dirtyProps' = {}
        BY <1>1, <3>1
      <4> QED
        BY <4>1
    <3>2. CASE what \notin {"insert", "reinsert"}
      <4>1. isDirty' = isDirty /\ dirtyProps' = dirtyProps
        BY <1>1, <3>2
      <4> QED
        BY <1>0, <4>1 DEF ModelVarsOK, ModelTypeOK
    <3> QED
      BY <3>1, <3>2
  <2>2. call' \in [ModelCalls -> CallKinds] /\ captured' \in [ModelCalls -> Snapshots]
    BY <1>0, <1>1, <1>3 DEF ModelVarsOK
  <2>3. phase' \in [ModelCalls -> {"idle", "sent", "done"}]
    BY <1>0, <1>3 DEF ModelTypeOK
  <2> QED
    BY <1>0, <1>2, <2>1, <2>2, <2>3 DEF ModelVarsOK, ModelTypeOK, Snapshots, Values
<1>6. KeyFollowsRow'
  BY <1>0, <1>2, <1>3, <1>4 DEF KeyFollowsRow
<1>7. Held' = Held /\ Held \subseteq ModelColumns
  BY <1>2 DEF Held
<1>8. \A c : Promised(c) => Promised(c)'
  <2>1. Reinserting => Reinserting'
    BY <1>3, <1>4 DEF Reinserting
  <2>2. dirtyProps' \subseteq dirtyProps
    BY <1>1
  <2> QED
    BY <2>1, <2>2 DEF Promised
<1>9. what = "reinsert" => \A c : Promised(c)'
  BY <1>1, <1>4 DEF Promised, Reinserting
<1>10. StoredOrDirty'
  <2>1. \A c : c \in dirtyProps /\ keyKnown => c \in dirtyProps' \/ Promised(c)'
    BY <1>1, <1>9
  <2> QED
    BY <1>0, <1>2, <1>7, <1>8, <2>1 DEF StoredOrDirty
<1>11. CallFits(k)'
  <2>1. \A c \in Held : mem[c] # NoValue
    BY DEF Held
  <2>2. /\ \A c \in DOMAIN ToSql(dirtyProps) : ToSql(dirtyProps)[c] = mem[c]
        /\ \A c : c \in DOMAIN ToSql(dirtyProps) <=> c \in dirtyProps /\ mem[c] # NoValue
        /\ \A c \in DOMAIN ToSql(ModelColumns) : ToSql(ModelColumns)[c] = mem[c]
        /\ \A c : c \in DOMAIN ToSql(ModelColumns) <=> c \in ModelColumns /\ mem[c] # NoValue
    BY <1>0, ToSqlOf DEF ModelTypeOK
  <2>3. Carries(k)' => \A c \in Held' : /\ c \in DOMAIN values => values[c] = mem[c]
                                        /\ what # "update" => c \in DOMAIN values
    BY <1>1, <1>4, <1>7, <2>1, <2>2 DEF Carries
  <2>4. what = "update" /\ rowState = "stored" =>
          \A c \in Held : row[c] = mem[c] \/ Promised(c)' \/ c \in DOMAIN values
    BY <1>0, <1>1, <1>8, <2>1, <2>2 DEF StoredOrDirty
  <2> QED
    BY <1>1, <1>2, <1>4, <1>7, <2>3, <2>4 DEF CallFits
<1>12. CallsFit'
  <2> SUFFICES ASSUME NEW j \in ModelCalls \ {k}, phase[j] # "idle"
               PROVE  CallFits(j)'
    BY <1>4, <1>11 DEF CallsFit
  <2>1. CallFits(j)
    BY <1>0 DEF CallsFit
  <2> QED
    BY <1>2, <1>4, <1>7, <1>8, <2>1, OtherCallFits
<1> QED
  BY <1>5, <1>6, <1>10, <1>12 DEF ModelInv

(* The query of a call brings the row to what the instance holds, or leaves *)
(* it.                                                                      *)
LEMMA RunKeeps ==
    ASSUME ModelInv, NEW k \in ModelCalls, Run(k)
    PROVE  ModelInv'
<1>0. ModelVarsOK /\ ModelTypeOK /\ KeyFollowsRow /\ CallsFit /\ StoredOrDirty
  BY DEF ModelInv, ModelVarsOK
<1>1. /\ phase[k] = "sent" /\ phase' = [phase EXCEPT ![k] = "done"]
      /\ UNCHANGED <<mem, keyKnown, isDirty, dirtyProps, call, assigns, overtaken>>
  BY DEF Run, history
<1>2. CallFits(k)
  BY <1>0, <1>1 DEF CallsFit
<1>3. phase'[k] = "done" /\ \A j \in ModelCalls \ {k} : phase'[j] = phase[j]
  BY <1>0, <1>1 DEF ModelTypeOK
<1>4. Held' = Held /\ Held \subseteq ModelColumns
  BY <1>1 DEF Held
<1>5. call[k] \in {"update", "archive", "insert", "reinsert", "destroy", "refresh"}
  BY <1>0, <1>1, <1>2 DEF CallFits, ModelVarsOK, CallKinds
<1>6. /\ DOMAIN captured[k] \subseteq ModelColumns
      /\ \A c \in DOMAIN captured[k] : captured[k][c] \in Values
  BY <1>0, SnapshotValues DEF ModelVarsOK
<1>7. \A rest \in Full : /\ Written(k, rest) \in Full
                         /\ \A c \in ModelColumns : Written(k, rest)[c] =
                              IF c \in DOMAIN captured[k] THEN captured[k][c] ELSE rest[c]
  BY <1>6 DEF Written, Full
<1>8. row \in Full /\ NullRow \in Full /\ Blank \in Snapshots /\ row \in Snapshots
  BY <1>0, SnapshotsOf DEF NullRow, Full, Values
<1>9. /\ row' \in Full /\ rowState' \in {"none", "stored", "deleted"}
      /\ captured' = [captured EXCEPT ![k] = captured'[k]] /\ captured'[k] \in Snapshots
      /\ call[k] = "refresh" => captured'[k] \in Full
      /\ call[k] = "insert" => captured'[k] = captured[k]
  <2>1. CASE call[k] \in {"update", "archive"}
    BY <1>0, <1>7, <1>8, <2>1 DEF Run, ModelVarsOK, ModelTypeOK
  <2>2. CASE call[k] = "insert"
    BY <1>0, <1>7, <1>8, <2>2 DEF Run, ModelVarsOK, ModelTypeOK, stored
  <2>3. CASE call[k] = "reinsert"
    BY <1>0, <1>7, <1>8, <2>3 DEF Run, ModelVarsOK, ModelTypeOK
  <2>4. CASE call[k] = "destroy"
    BY <1>0, <1>8, <2>4 DEF Run, ModelVarsOK, ModelTypeOK
  <2>5. CASE call[k] = "refresh"
    BY <1>0, <1>8, <2>5 DEF Run, ModelVarsOK, ModelTypeOK, stored
  <2> QED
    BY <1>5, <2>1, <2>2, <2>3, <2>4, <2>5
<1>10. ModelVarsOK'
  BY <1>0, <1>1, <1>9 DEF ModelVarsOK, ModelTypeOK, Full, Values
<1>11. KeyFollowsRow'
  <2> SUFFICES ASSUME rowState' # "none", ~keyKnown, call[k] # "insert"
               PROVE  \E j \in ModelCalls : phase'[j] = "done" /\ call[j] = "insert"
    BY <1>1, <1>3 DEF KeyFollowsRow
  <2>1. FALSE
    BY <1>2, <1>5 DEF CallFits
  <2> QED
    BY <2>1
<1>12. \A j \in ModelCalls \ {k} : captured'[j] = captured[j]
  BY <1>0, <1>9 DEF ModelVarsOK
<1>13. call[k] # "reinsert" => \A c : Promised(c)' <=> Promised(c)
  BY <1>1, <1>3 DEF Promised, Reinserting
<1>14. rowState' = "stored" =>
         \A c \in Held : row'[c] = mem[c] \/ (rowState = "stored" /\ row'[c] = row[c] /\ call[k] # "reinsert")
  <2>1. CASE call[k] \in {"update", "archive"}
    <3>1. rowState' = rowState /\ (rowState = "stored" => row' = Written(k, row))
      BY <2>1 DEF Run
    <3>2. \A c \in Held : c \in DOMAIN captured[k] => captured[k][c] = mem[c]
      BY <1>1, <1>2, <2>1 DEF CallFits, Carries
    <3> QED
      BY <1>4, <1>7, <1>8, <2>1, <3>1, <3>2
  <2>2. CASE call[k] \in {"insert", "reinsert"}
    <3>1. \A c \in Held : c \in DOMAIN captured[k] /\ captured[k][c] = mem[c]
      BY <1>1, <1>2, <2>2 DEF CallFits, Carries
    <3>2. \A rest \in Full, c \in Held : Written(k, rest)[c] = mem[c]
      BY <1>4, <1>7, <3>1
    <3> QED
      BY <1>8, <2>2, <3>2 DEF Run, stored
  <2>3. CASE call[k] \in {"destroy", "refresh"}
    BY <2>3 DEF Run, stored
  <2> QED
    BY <1>5, <2>1, <2>2, <2>3
<1>15. StoredOrDirty'
  BY <1>0, <1>1, <1>4, <1>13, <1>14 DEF StoredOrDirty
<1>16. CallFits(k)'
  <2>1. call[k] = "update" /\ rowState' = "stored" =>
          \A c \in Held : row'[c] = mem[c] \/ Promised(c)'
    <3> SUFFICES ASSUME call[k] = "update", rowState' = "stored", NEW c \in Held
                 PROVE  row'[c] = mem[c] \/ Promised(c)'
      OBVIOUS
    <3>1. rowState = "stored" /\ row' = Written(k, row)
      BY DEF Run
    <3>2. row[c] = mem[c] \/ Promised(c) \/ c \in DOMAIN captured[k]
      BY <1>1, <1>2, <3>1 DEF CallFits
    <3>3. c \in DOMAIN captured[k] => captured[k][c] = mem[c]
      BY <1>1, <1>2 DEF CallFits, Carries
    <3> QED
      BY <1>4, <1>7, <1>8, <1>13, <3>1, <3>2, <3>3
  <2>2. call[k] = "destroy" => rowState' # "stored"
    BY DEF Run
  <2>3. call[k] = "insert" => \A c \in Held : c \in DOMAIN captured'[k] /\ captured'[k][c] = mem[c]
    BY <1>1, <1>2, <1>9 DEF CallFits, Carries
  <2>4. call[k] \in {"update", "reinsert", "archive", "destroy", "refresh"} => keyKnown
    BY <1>2 DEF CallFits
  <2>5. Carries(k)' => call[k] = "insert"
    BY <1>1, <1>3 DEF Carries
  <2>6. /\ call'[k] \in {"update", "reinsert", "archive", "destroy", "refresh"} => keyKnown'
        /\ Carries(k)' =>
             \A c \in Held' : /\ c \in DOMAIN captured'[k] => captured'[k][c] = mem'[c]
                              /\ call'[k] # "update" => c \in DOMAIN captured'[k]
    BY <1>1, <1>4, <2>3, <2>4, <2>5
  <2>7. /\ phase'[k] = "done" /\ call'[k] = "update" /\ rowState' = "stored" =>
             \A c \in Held' : row'[c] = mem'[c] \/ Promised(c)'
        /\ ~(phase'[k] = "done" /\ call'[k] = "destroy" /\ rowState' = "stored")
        /\ phase'[k] = "done" /\ call'[k] = "refresh" => captured'[k] \in Full'
        /\ phase'[k] # "sent"
    BY <1>1, <1>3, <1>4, <1>9, <2>1, <2>2 DEF Full
  <2>8. call'[k] # "none"
    BY <1>1, <1>5
  <2> QED
    BY <2>6, <2>7, <2>8 DEF CallFits
<1>17. CallsFit'
  <2> SUFFICES ASSUME NEW j \in ModelCalls \ {k}, phase[j] # "idle"
               PROVE  CallFits(j)'
    BY <1>3, <1>16 DEF CallsFit
  <2>1. CallFits(j) /\ call'[j] = call[j]
    BY <1>0, <1>1 DEF CallsFit
  <2> QED
    BY <1>1, <1>3, <1>4, <1>12, <1>13, <1>14, <2>1, OtherCallFits
<1> QED
  BY <1>10, <1>11, <1>15, <1>17 DEF ModelInv

(* A query that is refused, or that another row took the place of, leaves   *)
(* what it did not store dirty, or noted.                                   *)
LEMMA DropKeeps ==
    ASSUME ModelInv, NEW k \in ModelCalls, Ignored(k) \/ Refuse(k)
    PROVE  ModelInv'
<1>0. ModelVarsOK /\ ModelTypeOK /\ KeyFollowsRow /\ CallsFit /\ StoredOrDirty
  BY DEF ModelInv, ModelVarsOK
<1>1. PICK ph \in {"idle", "done"}, what \in {"none", "ignored"} :
        /\ phase[k] = "sent" /\ phase' = [phase EXCEPT ![k] = ph]
        /\ call' = [call EXCEPT ![k] = what]
        /\ captured' = [captured EXCEPT ![k] = Blank]
        /\ overtaken' = overtaken \cup Forgotten(k)
        /\ ph = "done" => what = "ignored"
        /\ UNCHANGED <<mem, row, rowState, keyKnown, isDirty, dirtyProps>>
  BY DEF Ignored, Refuse, Settle, stored
<1>2. /\ phase'[k] = ph /\ call'[k] = what
      /\ \A j \in ModelCalls \ {k} :
           phase'[j] = phase[j] /\ call'[j] = call[j] /\ captured'[j] = captured[j]
  BY <1>0, <1>1 DEF ModelVarsOK, ModelTypeOK
<1>3. ModelVarsOK'
  <2>1. overtaken' \subseteq ModelColumns
    BY <1>0, <1>1 DEF ModelTypeOK, Forgotten
  <2>2. call' \in [ModelCalls -> CallKinds] /\ captured' \in [ModelCalls -> Snapshots]
    BY <1>0, <1>1, SnapshotsOf DEF ModelVarsOK, CallKinds
  <2>3. phase' \in [ModelCalls -> {"idle", "sent", "done"}]
    BY <1>0, <1>1 DEF ModelTypeOK
  <2> QED
    BY <1>0, <1>1, <2>1, <2>2, <2>3 DEF ModelVarsOK, ModelTypeOK, Snapshots, Values
<1>4. KeyFollowsRow'
  BY <1>0, <1>1, <1>2 DEF KeyFollowsRow
<1>5. Held' \subseteq Held /\ Held \subseteq ModelColumns
  BY <1>1 DEF Held
<1>6. \A c \in Held' : rowState = "stored" /\ Promised(c) => Promised(c)' \/ row[c] = mem[c]
  <2> SUFFICES ASSUME NEW c \in Held', rowState = "stored", Promised(c), ~Promised(c)'
               PROVE  row[c] = mem[c]
    OBVIOUS
  <2>1. c \notin dirtyProps /\ ~Reinserting'
    BY <1>1 DEF Promised
  <2>2. call[k] = "reinsert"
    BY <1>2, <2>1 DEF Promised, Reinserting
  <2>3. c \notin Forgotten(k) /\ c \in ModelColumns
    BY <1>1 DEF Held
  <2> QED
    BY <2>1, <2>2, <2>3 DEF Forgotten
<1>7. StoredOrDirty'
  BY <1>0, <1>1, <1>5, <1>6 DEF StoredOrDirty
<1>8. phase'[k] # "idle" => CallFits(k)'
  BY <1>1, <1>2 DEF CallFits, Carries
<1>9. CallsFit'
  <2> SUFFICES ASSUME NEW j \in ModelCalls \ {k}, phase[j] # "idle"
               PROVE  CallFits(j)'
    BY <1>2, <1>8 DEF CallsFit
  <2>1. CallFits(j)
    BY <1>0 DEF CallsFit
  <2> QED
    BY <1>1, <1>2, <1>5, <1>6, <2>1, OtherCallFits
<1> QED
  BY <1>3, <1>4, <1>7, <1>9 DEF ModelInv

(* A call that ends clears flags only when everything is stored, and marks  *)
(* what it has read.                                                        *)
LEMMA AnswerKeeps ==
    ASSUME ModelInv, NEW k \in ModelCalls, Answer(k)
    PROVE  ModelInv'
<1>0. ModelVarsOK /\ ModelTypeOK /\ KeyFollowsRow /\ CallsFit /\ StoredOrDirty
  BY DEF ModelInv, ModelVarsOK
<1>1. /\ phase[k] = "done" /\ phase' = [phase EXCEPT ![k] = "idle"]
      /\ call' = [call EXCEPT ![k] = "none"]
      /\ captured' = [captured EXCEPT ![k] = Blank]
      /\ UNCHANGED <<row, rowState, keyKnown>>
  BY DEF Answer, Settle, stored
<1>2. CallFits(k)
  BY <1>0, <1>1 DEF CallsFit
<1>3. keyKnown
  <2>1. call[k] \in CallKinds \ {"none"}
    BY <1>0, <1>2 DEF ModelVarsOK, CallFits
  <2> QED
    BY <1>2, <2>1 DEF Answer, CallFits, CallKinds
<1>4. /\ phase'[k] = "idle"
      /\ \A j \in ModelCalls \ {k} :
           phase'[j] = phase[j] /\ call'[j] = call[j] /\ captured'[j] = captured[j]
  BY <1>0, <1>1 DEF ModelVarsOK, ModelTypeOK
<1>5. PICK changed \in SUBSET ModelColumns :
        /\ mem' \in Full
        /\ \A c \in ModelColumns \ changed : mem'[c] = mem[c]
        /\ call[k] \in {"update", "destroy"} => changed = {} /\ isDirty' = FALSE /\ dirtyProps' = {}
        /\ call[k] \notin {"update", "destroy"} =>
             isDirty' = (isDirty \/ changed # {}) /\ dirtyProps' = dirtyProps \cup changed
        /\ overtaken' = IF Underway = {k} THEN overtaken \ changed ELSE overtaken \cup changed
  <2> DEFINE answer == IF call[k] = "refresh"
                       THEN [c \in ModelColumns |-> IF c = ForeignKey THEN mem[c] ELSE captured[k][c]]
                       ELSE mem
             differ == {c \in ModelColumns : answer[c] # mem[c]}
  <2>1. PICK keys \in SUBSET ({ForeignKey} \cap ModelColumns) :
          /\ keys # {} => call[k] = "refresh"
          /\ mem' = answer
          /\ isDirty' = (call[k] \notin {"update", "destroy"} /\ (isDirty \/ differ \cup keys # {}))
          /\ dirtyProps' = IF call[k] \in {"update", "destroy"} THEN {} ELSE dirtyProps \cup (differ \cup keys)
          /\ overtaken' = IF Underway = {k} THEN overtaken \ (differ \cup keys)
                                             ELSE overtaken \cup (differ \cup keys)
    BY DEF Answer
  <2>2. answer \in Full
    BY <1>0, <1>1, <1>2 DEF CallFits, ModelTypeOK, Full, Values
  <2>3. call[k] \in {"update", "destroy"} => answer = mem
    OBVIOUS
  <2>4. call[k] \in {"update", "destroy"} => differ \cup keys = {}
    BY <2>1, <2>3
  <2>5. differ \cup keys \in SUBSET ModelColumns
    OBVIOUS
  <2>6. \A c \in ModelColumns \ (differ \cup keys) : mem'[c] = mem[c]
    BY <2>1
  <2> HIDE DEF answer, differ
  <2> QED
    BY <1>0, <2>1, <2>2, <2>4, <2>5, <2>6 DEF ModelVarsOK
<1>6. ModelVarsOK'
  <2>1. /\ isDirty' \in BOOLEAN /\ (dirtyProps' # {} => isDirty')
        /\ dirtyProps' \subseteq ModelColumns /\ overtaken' \subseteq ModelColumns
    BY <1>0, <1>5 DEF ModelVarsOK, ModelTypeOK
  <2>2. call' \in [ModelCalls -> CallKinds] /\ captured' \in [ModelCalls -> Snapshots]
    BY <1>0, <1>1, SnapshotsOf DEF ModelVarsOK, CallKinds
  <2>3. phase' \in [ModelCalls -> {"idle", "sent", "done"}]
    BY <1>0, <1>1 DEF ModelTypeOK
  <2> QED
    BY <1>0, <1>1, <1>5, <2>1, <2>2, <2>3 DEF ModelVarsOK, ModelTypeOK, Snapshots, Values, Full
<1>7. KeyFollowsRow'
  BY <1>1, <1>3 DEF KeyFollowsRow
<1>8. Reinserting' <=> Reinserting
  BY <1>1, <1>4 DEF Reinserting
<1>9. CASE Underway = {k} /\ call[k] \notin {"update", "destroy"}
  <2>1. \A j \in ModelCalls \ {k} : phase[j] = "idle"
    BY <1>9 DEF Underway
  <2>2. ~Reinserting
    BY <1>1, <2>1 DEF Reinserting
  <2>3. \A c \in Held' : c \in changed \/ (c \in Held /\ mem'[c] = mem[c])
    BY <1>5, <1>9 DEF Held
  <2>4. StoredOrDirty'
    BY <1>0, <1>1, <1>3, <1>5, <1>9, <2>2, <2>3 DEF StoredOrDirty, Promised
  <2>5. CallsFit'
    BY <1>4, <2>1 DEF CallsFit
  <2> QED
    BY <1>6, <1>7, <2>4, <2>5 DEF ModelInv
<1>10. CASE ~(Underway = {k} /\ call[k] \notin {"update", "destroy"})
  <2>1. \A c \in Held' : c \in Held /\ mem'[c] = mem[c] /\ c \notin changed
    BY <1>5, <1>10 DEF Held
  <2>2. \A c \in Held' : Promised(c) => Promised(c)'
    BY <1>5, <1>8, <2>1 DEF Promised
  <2>3. StoredOrDirty'
    <3>1. CASE call[k] \in {"update", "destroy"}
      <4>1. rowState = "stored" => \A c \in Held : row[c] = mem[c] \/ Promised(c)
        BY <1>1, <1>2, <3>1 DEF CallFits
      <4> QED
        BY <1>1, <2>1, <2>2, <4>1 DEF StoredOrDirty
    <3>2. CASE call[k] \notin {"update", "destroy"}
      BY <1>0, <1>1, <1>3, <1>5, <2>1, <2>2, <3>2 DEF StoredOrDirty
    <3> QED
      BY <3>1, <3>2
  <2>4. CallsFit'
    <3> SUFFICES ASSUME NEW j \in ModelCalls \ {k}, phase[j] # "idle"
                 PROVE  CallFits(j)'
      BY <1>4 DEF CallsFit
    <3>1. CallFits(j) /\ Held' \subseteq Held
      BY <1>0, <2>1 DEF CallsFit
    <3> QED
      BY <1>1, <1>4, <2>1, <2>2, <3>1, OtherCallFits
  <2> QED
    BY <1>6, <1>7, <2>3, <2>4 DEF ModelInv
<1> QED
  BY <1>9, <1>10

(* An insert() that learns its key has stored what it captured, or knows    *)
(* nothing of the row it was given the key of.                              *)
LEMMA TakeKeyKeeps ==
    ASSUME ModelInv, NEW k \in ModelCalls, TakeKey(k)
    PROVE  ModelInv'
<1>0. ModelVarsOK /\ ModelTypeOK /\ KeyFollowsRow /\ CallsFit /\ StoredOrDirty
  BY DEF ModelInv, ModelVarsOK
<1>1. /\ phase[k] = "done" /\ ~keyKnown /\ call[k] \in {"insert", "ignored"}
      /\ phase' = [phase EXCEPT ![k] = "idle"]
      /\ call' = [call EXCEPT ![k] = "none"]
      /\ captured' = [captured EXCEPT ![k] = Blank]
      /\ UNCHANGED <<mem, isDirty, dirtyProps>>
  BY DEF TakeKey, Settle
<1>2. CallFits(k)
  BY <1>0, <1>1 DEF CallsFit
<1>3. /\ phase'[k] = "idle"
      /\ \A j \in ModelCalls \ {k} :
           phase'[j] = phase[j] /\ call'[j] = call[j] /\ captured'[j] = captured[j]
  BY <1>0, <1>1 DEF ModelVarsOK, ModelTypeOK
<1>4. \A c : Promised(c)' <=> Promised(c)
  BY <1>1, <1>3 DEF Promised, Reinserting
<1>5. /\ row' \in Full /\ rowState' \in {"none", "stored", "deleted"}
      /\ keyKnown' \in BOOLEAN /\ overtaken' \subseteq ModelColumns
      /\ Held' \subseteq Held
      /\ rowState' = "stored" =>
           \A c \in Held' : row'[c] = mem[c] \/ (rowState = "stored" /\ row'[c] = row[c])
      /\ keyKnown' \/ (UNCHANGED <<rowState, keyKnown>> /\ call[k] = "ignored")
  <2>1. CASE /\ call[k] = "insert" /\ row' = Written(k, NullRow)
             /\ rowState' = "stored" /\ keyKnown' = TRUE /\ UNCHANGED overtaken
    <3>1. Held' = Held /\ Held \subseteq ModelColumns
      BY <1>1, <2>1 DEF Held
    <3>2. \A c \in Held : c \in DOMAIN captured[k] /\ captured[k][c] = mem[c]
      BY <1>1, <1>2, <2>1 DEF CallFits, Carries
    <3>3. \A c \in DOMAIN captured[k] : captured[k][c] \in Values
      BY <1>0, SnapshotValues DEF ModelVarsOK
    <3>4. row' \in Full
      BY <2>1, <3>3 DEF Written, Full, NullRow, Values
    <3>5. \A c \in Held : row'[c] = mem[c]
      BY <2>1, <3>1, <3>2 DEF Written
    <3> QED
      BY <1>0, <2>1, <3>1, <3>4, <3>5 DEF ModelTypeOK
  <2>2. CASE /\ call[k] = "ignored" /\ row' \in [ModelColumns -> ColumnValues]
             /\ rowState' = "stored" /\ keyKnown' = TRUE /\ overtaken' = ModelColumns
    <3>1. Held' = {}
      BY <2>2 DEF Held
    <3> QED
      BY <2>2, <3>1 DEF Full, Values
  <2>3. CASE call[k] = "ignored" /\ UNCHANGED <<stored, keyKnown, overtaken>>
    <3>1. Held' = Held
      BY <1>1, <2>3 DEF Held
    <3> QED
      BY <1>0, <2>3, <3>1 DEF ModelVarsOK, ModelTypeOK, Full, Values, stored
  <2> QED
    BY <2>1, <2>2, <2>3 DEF TakeKey
<1>6. ModelVarsOK'
  <2>1. call' \in [ModelCalls -> CallKinds] /\ captured' \in [ModelCalls -> Snapshots]
    BY <1>0, <1>1, SnapshotsOf DEF ModelVarsOK, CallKinds
  <2>2. phase' \in [ModelCalls -> {"idle", "sent", "done"}]
    BY <1>0, <1>1 DEF ModelTypeOK
  <2> QED
    BY <1>0, <1>1, <1>5, <2>1, <2>2 DEF ModelVarsOK, ModelTypeOK, Snapshots, Values, Full
<1>7. KeyFollowsRow'
  BY <1>0, <1>1, <1>3, <1>5 DEF KeyFollowsRow
<1>8. StoredOrDirty'
  BY <1>0, <1>1, <1>4, <1>5 DEF StoredOrDirty
<1>9. CallsFit'
  <2> SUFFICES ASSUME NEW j \in ModelCalls \ {k}, phase[j] # "idle"
               PROVE  CallFits(j)'
    BY <1>3 DEF CallsFit
  <2>1. CallFits(j)
    BY <1>0 DEF CallsFit
  <2> QED
    BY <1>1, <1>3, <1>4, <1>5, <2>1, OtherCallFits
<1> QED
  BY <1>6, <1>7, <1>8, <1>9 DEF ModelInv

(* Every step of the instance keeps the invariant.                          *)
LEMMA ModelInvNext == ModelInv /\ [ModelNext]_modelVars => ModelInv'
<1> SUFFICES ASSUME ModelInv, [ModelNext]_modelVars
             PROVE  ModelInv'
  OBVIOUS
<1>1. ASSUME NEW c \in ModelColumns, NEW v \in ColumnValues, Assign(c, v)
      PROVE  ModelInv'
  BY <1>1, AssignKeeps DEF Values
<1>2. ASSUME NEW c \in ModelColumns, NEW v \in ColumnValues \cup {NoValue}, AttachOne(c, v)
      PROVE  ModelInv'
  BY <1>2, AssignKeeps DEF Values
<1>3. CASE AttachRelated
  <2>1. ModelVarsOK'
    BY <1>3 DEF AttachRelated, ModelInv, ModelVarsOK, ModelTypeOK, Snapshots, Values, stored, history
  <2>2. KeyFollowsRow' /\ CallsFit' /\ StoredOrDirty'
    BY <1>3 DEF AttachRelated, ModelInv, KeyFollowsRow, CallsFit, CallFits, Carries, StoredOrDirty,
                Held, Promised, Reinserting, Full, Values, stored, history
  <2> QED
    BY <2>1, <2>2 DEF ModelInv
<1>4. ASSUME NEW k \in ModelCalls,
             Update(k) \/ Insert(k) \/ SendByKey(k) \/ Run(k) \/ Ignored(k) \/ Refuse(k)
               \/ Answer(k) \/ TakeKey(k)
      PROVE  ModelInv'
  BY <1>4, SendKeeps, RunKeeps, DropKeeps, AnswerKeeps, TakeKeyKeeps
<1>5. CASE UNCHANGED modelVars
  <2>1. ModelVarsOK'
    BY <1>5 DEF modelVars, ModelInv, ModelVarsOK, ModelTypeOK, Snapshots, Values
  <2>2. KeyFollowsRow' /\ CallsFit' /\ StoredOrDirty'
    BY <1>5 DEF modelVars, ModelInv, KeyFollowsRow, CallsFit, CallFits, Carries, StoredOrDirty,
                Held, Promised, Reinserting, Full, Values
  <2> QED
    BY <2>1, <2>2 DEF ModelInv
<1> QED
  BY <1>1, <1>2, <1>3, <1>4, <1>5 DEF ModelNext

(* When no query is under way, the next update() sends every column that    *)
(* differs from the row, but for the columns SavedOrDirty names.            *)
THEOREM ModelSavedOrDirty == ModelSpec => []SavedOrDirty
<1>1. ModelInv => SavedOrDirty
  <2> SUFFICES ASSUME ModelInv, Underway = {}, NEW c \in Unsaved \ overtaken
               PROVE  isDirty /\ c \in dirtyProps
    BY DEF SavedOrDirty
  <2>1. c \in Held /\ rowState = "stored" /\ row[c] # mem[c]
    BY DEF Unsaved, Held
  <2>2. ~Promised(c)
    BY DEF Underway, Promised, Reinserting
  <2> QED
    BY <2>1, <2>2 DEF ModelInv, StoredOrDirty, ModelVarsOK
<1> QED
  BY <1>1, ModelInvInit, ModelInvNext, PTL DEF ModelSpec

-----------------------------------------------------------------------------
(* OrmMigrations.                                                           *)

Stages == {"stopped", "check", "create", "select", "run", "record", "commit", "delete", "data",
           "ready"}

MigrationTypeOK ==
    /\ Mode \in {"None", "PerMigration"}
    /\ writer \in Apps \cup {Nobody}
    /\ applied \in [Migrations -> Nat]
    /\ at \in [Apps -> Stages]
    /\ downward \in [Apps -> BOOLEAN]
    /\ current \in [Apps -> Nat]
    /\ undone \in BOOLEAN
    /\ \A p \in Apps : downward[p] => undone

(* With transactions the writer is the process between up() and its commit. *)
WriterRecords ==
    IF Atomic
      THEN \A p \in Apps : /\ writer = p <=> at[p] \in {"record", "commit"}
                           /\ at[p] = "commit" => current[p] \in recorded
                           /\ at[p] # "delete"
      ELSE writer = Nobody

(* What a transaction that has not recorded its migration has added.        *)
Unrecorded(m) == writer # Nobody /\ current[writer] = m /\ at[writer] = "record"
Count(b) == IF b THEN 1 ELSE 0

(* With transactions every migration is counted by its row and by the       *)
(* transaction under way; without, one that is recorded, or is about to be, *)
(* was applied, unless migrateDown was called.                              *)
SchemaMatches ==
    IF Atomic
      THEN \A m \in Migrations : applied[m] = Count(m \in recorded) + Count(Unrecorded(m))
      ELSE ~undone => /\ \A m \in Migrations : m \in recorded => applied[m] > 0
                      /\ \A p \in Apps : at[p] = "record" /\ current[p] \in Migrations =>
                            applied[current[p]] > 0

MigrationInv == MigrationTypeOK /\ WriterRecords /\ SchemaMatches

(* Nothing is applied or recorded at first.                                 *)
LEMMA MigrationInvInit == MigrationInit => MigrationInv
<1> SUFFICES ASSUME MigrationInit
             PROVE  MigrationInv
  OBVIOUS
<1>1. MigrationTypeOK
  BY DEF MigrationInit, MigrationTypeOK, Stages
<1>2. WriterRecords
  BY MigrationAssumption DEF MigrationInit, WriterRecords
<1>3. SchemaMatches
  BY DEF MigrationInit, SchemaMatches, Unrecorded, Count
<1> QED
  BY <1>1, <1>2, <1>3 DEF MigrationInv

(* One more application of a migration is a number again.                   *)
LEMMA AppliedAgain ==
    ASSUME MigrationTypeOK, NEW n, applied' = [applied EXCEPT ![n] = @ + 1]
    PROVE  /\ applied' \in [Migrations -> Nat]
           /\ \A m \in Migrations : /\ applied[m] \in Nat
                                    /\ applied'[m] = IF m = n THEN applied[m] + 1 ELSE applied[m]
<1>1. applied' = [m \in Migrations |-> IF m = n THEN applied[m] + 1 ELSE applied[m]]
  BY DEF MigrationTypeOK
<1>2. \A m \in Migrations : applied[m] \in Nat /\ applied[m] + 1 \in Nat
  BY DEF MigrationTypeOK
<1> QED
  BY <1>1, <1>2

(* A process that goes on touches nobody else's place.                      *)
LEMMA NextMigrationEffect ==
    ASSUME MigrationTypeOK, NEW p \in Apps, NextMigration(p)
    PROVE  \E l \in {"check", "stopped", "data"}, n \in Nat :
              at' = [at EXCEPT ![p] = l] /\ current' = [current EXCEPT ![p] = n]
<1> DEFINE m == IF downward[p] THEN current[p] - 1 ELSE current[p] + 1
<1>1. CASE m \in Migrations
  <2>1. m \in Nat
    BY <1>1, MigrationAssumption DEF Migrations
  <2> QED
    BY <1>1, <2>1 DEF NextMigration, MoveTo
<1>2. CASE m \notin Migrations
  <2>1. current' = [current EXCEPT ![p] = current[p]] /\ current[p] \in Nat
    BY <1>2 DEF NextMigration, MigrationTypeOK
  <2>2. \E l \in {"stopped", "data"} : at' = [at EXCEPT ![p] = l]
    BY <1>2 DEF NextMigration, MoveTo
  <2> QED
    BY <2>1, <2>2
<1> QED
  BY <1>1, <1>2

(* A process that neither holds the transaction nor is about to record      *)
(* moves without disturbing anything.                                       *)
LEMMA MoveKeeps ==
    ASSUME MigrationInv, NEW p \in Apps, at[p] \notin {"record", "commit"},
           NEW l \in Stages \ {"record", "commit"}, Atomic => l # "delete",
           at' = [at EXCEPT ![p] = l],
           NEW n \in Nat, current' = [current EXCEPT ![p] = n],
           UNCHANGED <<Mode, holds, recorded, applied, writer>>,
           downward' \in [Apps -> BOOLEAN], undone' \in BOOLEAN, undone => undone',
           \A q \in Apps : downward'[q] => undone'
    PROVE  MigrationInv'
<1>0. MigrationTypeOK /\ WriterRecords /\ SchemaMatches
  BY DEF MigrationInv
<1>1. /\ at'[p] = l
      /\ \A q \in Apps \ {p} : at'[q] = at[q] /\ current'[q] = current[q]
  BY <1>0 DEF MigrationTypeOK
<1>2. MigrationTypeOK'
  BY <1>0 DEF MigrationTypeOK
<1>3. WriterRecords' /\ writer # p
  BY <1>0, <1>1, MigrationAssumption DEF WriterRecords, Atomic
<1>4. \A m : Unrecorded(m)' <=> Unrecorded(m)
  BY <1>0, <1>1, <1>3 DEF Unrecorded, MigrationTypeOK
<1>5. SchemaMatches'
  BY <1>0, <1>1, <1>4 DEF SchemaMatches, Atomic
<1> QED
  BY <1>2, <1>3, <1>5 DEF MigrationInv

(* The queries before and after a migration change nothing it counts.       *)
LEMMA QuietStepKeeps ==
    ASSUME MigrationInv, NEW p \in Apps,
           \/ \E down \in BOOLEAN : StartMigrating(p, down)
           \/ CheckTable(p) \/ CreateTable(p) \/ SelectRow(p) \/ Data(p)
    PROVE  MigrationInv'
<1>0. MigrationTypeOK
  BY DEF MigrationInv
<1>1. \A q : UNCHANGED current => (current' = [current EXCEPT ![q] = current[q]])
  BY <1>0 DEF MigrationTypeOK
<1>2. ASSUME NEW down \in BOOLEAN, StartMigrating(p, down)
      PROVE  MigrationInv'
  <2>1. IF down THEN Last \in Nat ELSE 1 \in Nat
    BY MigrationAssumption
  <2>2. /\ downward' \in [Apps -> BOOLEAN] /\ undone' \in BOOLEAN /\ (undone => undone')
        /\ \A q \in Apps : downward'[q] => undone'
    BY <1>0, <1>2 DEF StartMigrating, MigrationTypeOK
  <2> QED
    BY <1>2, <2>1, <2>2, MoveKeeps DEF StartMigrating, IsAt, MoveTo, Stages, database
<1>3. CASE CheckTable(p) \/ CreateTable(p) \/ Data(p)
  <2>1. /\ at[p] \notin {"record", "commit"}
        /\ \E l \in Stages \ {"record", "commit", "delete"} : at' = [at EXCEPT ![p] = l]
        /\ UNCHANGED <<Mode, holds, recorded, applied, writer, downward, undone, current>>
    BY <1>3 DEF CheckTable, CreateTable, Data, IsAt, MoveTo, Stages, database, process
  <2>2. current' = [current EXCEPT ![p] = current[p]] /\ current[p] \in Nat
    BY <1>0, <1>1, <2>1 DEF MigrationTypeOK
  <2> QED
    BY <1>0, <2>1, <2>2, MoveKeeps DEF MigrationTypeOK
<1>4. CASE SelectRow(p)
  <2>1. /\ at[p] \notin {"record", "commit"}
        /\ UNCHANGED <<Mode, holds, recorded, applied, writer, downward, undone>>
    BY <1>4 DEF SelectRow, IsAt, database, process
  <2>2. \E l \in {"check", "stopped", "data", "run"}, n \in Nat :
          at' = [at EXCEPT ![p] = l] /\ current' = [current EXCEPT ![p] = n]
    <3>1. CASE NextMigration(p)
      BY <1>0, <3>1, NextMigrationEffect
    <3>2. CASE MoveTo(p, "run") /\ UNCHANGED current
      BY <1>0, <1>1, <3>2 DEF MoveTo, MigrationTypeOK
    <3> QED
      BY <1>4, <3>1, <3>2 DEF SelectRow
  <2> QED
    BY <1>0, <2>1, <2>2, MoveKeeps DEF MigrationTypeOK, Stages
<1> QED
  BY <1>2, <1>3, <1>4

(* up(): it counts once more, by a transaction nobody else can begin.       *)
LEMMA UpKeeps ==
    ASSUME MigrationInv, NEW p \in Apps, Up(p)
    PROVE  MigrationInv'
<1>0. MigrationTypeOK /\ WriterRecords /\ SchemaMatches /\ \A q \in Apps : q # Nobody
  BY MigrationAssumption DEF MigrationInv
<1>1. /\ at[p] = "run" /\ at' = [at EXCEPT ![p] = "record"]
      /\ applied' = [applied EXCEPT ![current[p]] = @ + 1]
      /\ writer' = IF Atomic THEN p ELSE writer
      /\ writer \in {Nobody, p}
      /\ UNCHANGED <<Mode, holds, recorded, downward, undone, current>>
  BY DEF Up, IsAt, MoveTo, Locks, CanWrite, process
<1>2. at'[p] = "record" /\ \A q \in Apps \ {p} : at'[q] = at[q]
  BY <1>0, <1>1 DEF MigrationTypeOK
<1>3. MigrationTypeOK'
  BY <1>0, <1>1, AppliedAgain DEF MigrationTypeOK, Stages
<1>4. \A m \in Migrations : /\ applied[m] \in Nat
                           /\ applied'[m] = IF m = current[p] THEN applied[m] + 1 ELSE applied[m]
  BY <1>0, <1>1, AppliedAgain
<1>5. CASE Atomic
  <2>1. writer = Nobody
    BY <1>0, <1>1, <1>5 DEF WriterRecords
  <2>2. WriterRecords'
    BY <1>0, <1>1, <1>2, <1>5, <2>1 DEF WriterRecords, Atomic
  <2>3. \A m : ~Unrecorded(m) /\ (Unrecorded(m)' <=> m = current[p])
    BY <1>0, <1>1, <1>2, <1>5, <2>1 DEF Unrecorded
  <2>4. SchemaMatches'
    BY <1>0, <1>1, <1>4, <1>5, <2>3 DEF SchemaMatches, Atomic, Count
  <2> QED
    BY <1>3, <2>2, <2>4 DEF MigrationInv
<1>6. CASE ~Atomic
  <2>1. WriterRecords'
    BY <1>0, <1>1, <1>6 DEF WriterRecords, Atomic
  <2>2. SchemaMatches'
    BY <1>0, <1>1, <1>2, <1>4, <1>6 DEF SchemaMatches, Atomic
  <2> QED
    BY <1>3, <2>1, <2>2 DEF MigrationInv
<1> QED
  BY <1>5, <1>6

(* A migration that throws leaves nothing in a transaction; without one it  *)
(* may be in the schema, and is not recorded.                               *)
LEMMA UpFailsKeeps ==
    ASSUME MigrationInv, NEW p \in Apps, UpFails(p)
    PROVE  MigrationInv'
<1>0. MigrationTypeOK /\ WriterRecords /\ SchemaMatches
  BY DEF MigrationInv
<1>1. /\ at[p] = "run" /\ at' = [at EXCEPT ![p] = "stopped"]
      /\ UNCHANGED <<Mode, holds, recorded, writer, downward, undone, current>>
  BY DEF UpFails, IsAt, MoveTo, process
<1>2. CASE UNCHANGED applied
  <2>1. current' = [current EXCEPT ![p] = current[p]] /\ current[p] \in Nat
    BY <1>0, <1>1 DEF MigrationTypeOK
  <2> QED
    BY <1>0, <1>1, <1>2, <2>1, MoveKeeps DEF MigrationTypeOK, Stages
<1>3. CASE ~Atomic /\ applied' = [applied EXCEPT ![current[p]] = @ + 1]
  <2>1. at'[p] = "stopped" /\ \A q \in Apps \ {p} : at'[q] = at[q]
    BY <1>0, <1>1 DEF MigrationTypeOK
  <2>2. \A m \in Migrations : applied'[m] \in {applied[m], applied[m] + 1} /\ applied[m] \in Nat
    BY <1>0, <1>3, AppliedAgain
  <2>3. MigrationTypeOK'
    BY <1>0, <1>1, <1>3, AppliedAgain DEF MigrationTypeOK, Stages
  <2>4. WriterRecords'
    BY <1>0, <1>1, <1>3 DEF WriterRecords, Atomic
  <2>5. SchemaMatches'
    BY <1>0, <1>1, <1>3, <2>1, <2>2 DEF SchemaMatches, Atomic
  <2> QED
    BY <2>3, <2>4, <2>5 DEF MigrationInv
<1> QED
  BY <1>2, <1>3 DEF UpFails

(* The row is inserted: of a migration that is applied and has none.        *)
LEMMA RecordKeeps ==
    ASSUME MigrationInv, NEW p \in Apps, Record(p)
    PROVE  MigrationInv'
<1>0. MigrationTypeOK /\ WriterRecords /\ SchemaMatches /\ \A q \in Apps : q # Nobody
  BY MigrationAssumption DEF MigrationInv
<1>1. /\ at[p] = "record" /\ current[p] \notin recorded
      /\ recorded' = recorded \cup {current[p]}
      /\ UNCHANGED <<Mode, holds, applied, writer, downward, undone>>
  BY DEF Record, IsAt
<1>2. \E l \in {"commit", "check", "stopped", "data"}, n \in Nat :
        /\ at' = [at EXCEPT ![p] = l] /\ current' = [current EXCEPT ![p] = n]
        /\ IF Atomic THEN l = "commit" /\ n = current[p] ELSE l # "commit"
  <2>1. CASE Atomic
    <3>1. current' = [current EXCEPT ![p] = current[p]] /\ current[p] \in Nat
      BY <1>0, <2>1 DEF Record, MigrationTypeOK
    <3> QED
      BY <2>1, <3>1 DEF Record, MoveTo
  <2>2. CASE ~Atomic
    BY <1>0, <2>2, NextMigrationEffect DEF Record
  <2> QED
    BY <2>1, <2>2
<1>3. /\ at'[p] \in {"commit", "check", "stopped", "data"}
      /\ IF Atomic THEN at'[p] = "commit" /\ current'[p] = current[p] ELSE at'[p] # "commit"
      /\ \A q \in Apps \ {p} : at'[q] = at[q] /\ current'[q] = current[q]
  BY <1>0, <1>2 DEF MigrationTypeOK
<1>4. MigrationTypeOK'
  BY <1>0, <1>1, <1>2 DEF MigrationTypeOK, Stages
<1>5. WriterRecords'
  BY <1>0, <1>1, <1>3 DEF WriterRecords, Atomic
<1>6. SchemaMatches'
  <2>1. CASE Atomic
    <3>1. writer = p
      BY <1>0, <1>1, <2>1 DEF WriterRecords
    <3>2. \A m : (Unrecorded(m) <=> m = current[p]) /\ ~Unrecorded(m)'
      BY <1>0, <1>1, <1>3, <2>1, <3>1 DEF Unrecorded
    <3> QED
      BY <1>0, <1>1, <2>1, <3>2 DEF SchemaMatches, Atomic, Count
  <2>2. CASE ~Atomic
    BY <1>0, <1>1, <1>3, <2>2 DEF SchemaMatches, Atomic
  <2> QED
    BY <2>1, <2>2
<1> QED
  BY <1>4, <1>5, <1>6 DEF MigrationInv

(* COMMIT: what the transaction applied is recorded, and nobody writes.     *)
LEMMA CommitMigrationKeeps ==
    ASSUME MigrationInv, NEW p \in Apps, CommitMigration(p)
    PROVE  MigrationInv'
<1>0. MigrationTypeOK /\ WriterRecords /\ SchemaMatches /\ \A q \in Apps : q # Nobody
  BY MigrationAssumption DEF MigrationInv
<1>1. /\ at[p] = "commit" /\ writer' = Nobody
      /\ UNCHANGED <<Mode, holds, recorded, applied, downward, undone>>
  BY DEF CommitMigration, IsAt, process
<1>2. \E l \in {"check", "stopped", "data"}, n \in Nat :
        at' = [at EXCEPT ![p] = l] /\ current' = [current EXCEPT ![p] = n]
  BY <1>0, NextMigrationEffect DEF CommitMigration
<1>3. /\ at'[p] \in {"check", "stopped", "data"}
      /\ \A q \in Apps \ {p} : at'[q] = at[q] /\ current'[q] = current[q]
  BY <1>0, <1>2 DEF MigrationTypeOK
<1>4. MigrationTypeOK'
  BY <1>0, <1>1, <1>2 DEF MigrationTypeOK, Stages
<1>5. CASE Atomic
  <2>1. writer = p
    BY <1>0, <1>1, <1>5 DEF WriterRecords
  <2>2. WriterRecords'
    BY <1>0, <1>1, <1>3, <1>5, <2>1 DEF WriterRecords, Atomic
  <2>3. \A m : ~Unrecorded(m) /\ ~Unrecorded(m)'
    BY <1>1, <2>1 DEF Unrecorded
  <2>4. SchemaMatches'
    BY <1>0, <1>1, <1>5, <2>3 DEF SchemaMatches, Atomic, Count
  <2> QED
    BY <1>4, <2>2, <2>4 DEF MigrationInv
<1>6. CASE ~Atomic
  <2>1. WriterRecords'
    BY <1>1, <1>6 DEF WriterRecords, Atomic
  <2>2. SchemaMatches'
    BY <1>0, <1>1, <1>3, <1>6 DEF SchemaMatches, Atomic
  <2> QED
    BY <1>4, <2>1, <2>2 DEF MigrationInv
<1> QED
  BY <1>5, <1>6

(* The insert or the commit is refused, or the process dies anywhere: what  *)
(* its transaction has done is undone.                                      *)
LEMMA AbandonKeeps ==
    ASSUME MigrationInv, NEW p \in Apps, RecordFails(p) \/ Dies(p)
    PROVE  MigrationInv'
<1>0. MigrationTypeOK /\ WriterRecords /\ SchemaMatches /\ \A q \in Apps : q # Nobody
  BY MigrationAssumption DEF MigrationInv
<1>1. /\ RollBack(p)
      /\ at' = [at EXCEPT ![p] = "stopped"]
      /\ UNCHANGED <<Mode, holds, downward, undone, current>>
  BY DEF RecordFails, Dies, MoveTo, process
<1>2. at'[p] = "stopped" /\ \A q \in Apps \ {p} : at'[q] = at[q]
  BY <1>0, <1>1 DEF MigrationTypeOK
<1>3. CASE writer = p
  <2>1. Atomic /\ at[p] \in {"record", "commit"}
    BY <1>0, <1>3 DEF WriterRecords
  <2>2. /\ applied' = [applied EXCEPT ![current[p]] = @ - 1]
        /\ recorded' = IF at[p] = "commit" THEN recorded \ {current[p]} ELSE recorded
        /\ writer' = Nobody
    BY <1>1, <1>3 DEF RollBack, IsAt
  <2>3. \A m : (Unrecorded(m) <=> (m = current[p] /\ at[p] = "record")) /\ ~Unrecorded(m)'
    BY <1>0, <1>3, <2>2 DEF Unrecorded
  <2>4. at[p] = "commit" => current[p] \in recorded
    BY <1>0, <2>1 DEF WriterRecords
  <2>5. applied' = [m \in Migrations |-> IF m = current[p] THEN applied[m] - 1 ELSE applied[m]]
    BY <1>0, <2>2 DEF MigrationTypeOK
  <2>6. \A m \in Migrations : applied[m] = Count(m \in recorded) + Count(Unrecorded(m))
    BY <1>0, <2>1 DEF SchemaMatches
  <2>7. \A m \in Migrations : applied'[m] = Count(m \in recorded') /\ applied'[m] \in Nat
    BY <2>1, <2>2, <2>3, <2>4, <2>5, <2>6 DEF Count
  <2>8. MigrationTypeOK'
    <3>1. applied' \in [Migrations -> Nat]
      BY <2>5, <2>7
    <3> QED
      BY <1>0, <1>1, <2>2, <3>1 DEF MigrationTypeOK, Stages
  <2>9. WriterRecords'
    <3>1. \A q \in Apps \ {p} : at[q] \notin {"record", "commit", "delete"}
      BY <1>0, <1>3, <2>1 DEF WriterRecords
    <3> QED
      BY <1>0, <1>1, <1>2, <2>1, <2>2, <3>1 DEF WriterRecords, Atomic
  <2>10. SchemaMatches'
    BY <1>1, <2>1, <2>3, <2>7 DEF SchemaMatches, Atomic, Count
  <2> QED
    BY <2>8, <2>9, <2>10 DEF MigrationInv
<1>4. CASE writer # p
  <2>1. UNCHANGED <<applied, recorded, writer>>
    BY <1>1, <1>4 DEF RollBack
  <2>2. MigrationTypeOK'
    BY <1>0, <1>1, <2>1 DEF MigrationTypeOK, Stages
  <2>3. WriterRecords'
    BY <1>0, <1>1, <1>2, <1>4, <2>1 DEF WriterRecords, Atomic
  <2>4. Atomic => \A m : Unrecorded(m)' <=> Unrecorded(m)
    BY <1>0, <1>1, <1>2, <1>4, <2>1 DEF Unrecorded, MigrationTypeOK
  <2>5. SchemaMatches'
    <3>1. CASE Atomic
      BY <1>0, <1>1, <2>1, <2>4, <3>1 DEF SchemaMatches, Atomic, Count
    <3>2. CASE ~Atomic
      BY <1>0, <1>1, <1>2, <2>1, <3>2 DEF SchemaMatches, Atomic
    <3> QED
      BY <3>1, <3>2
  <2> QED
    BY <2>2, <2>3, <2>5 DEF MigrationInv
<1> QED
  BY <1>3, <1>4

(* down() takes a migration and its row away, with a transaction at once.   *)
LEMMA DownKeeps ==
    ASSUME MigrationInv, NEW p \in Apps, RunDown(p) \/ DeleteRow(p)
    PROVE  MigrationInv'
<1>0. MigrationTypeOK /\ WriterRecords /\ SchemaMatches /\ \A q \in Apps : q # Nobody
  BY MigrationAssumption DEF MigrationInv
<1>1. UNCHANGED <<Mode, holds, writer, downward, undone>>
  BY DEF RunDown, DeleteRow, process
<1>2. \E l \in {"check", "stopped", "data", "delete"}, n \in Nat :
        /\ at' = [at EXCEPT ![p] = l] /\ current' = [current EXCEPT ![p] = n]
        /\ Atomic => l # "delete"
  <2>1. CASE NextMigration(p)
    BY <1>0, <2>1, NextMigrationEffect
  <2>2. CASE ~NextMigration(p)
    <3>1. current' = [current EXCEPT ![p] = current[p]] /\ current[p] \in Nat
      BY <1>0, <2>2 DEF RunDown, DeleteRow, MigrationTypeOK
    <3> QED
      BY <2>2, <3>1 DEF RunDown, DeleteRow, MoveTo
  <2> QED
    BY <2>1, <2>2
<1>3. /\ at'[p] \in {"check", "stopped", "data", "delete"}
      /\ Atomic => at'[p] # "delete"
      /\ \A q \in Apps \ {p} : at'[q] = at[q] /\ current'[q] = current[q]
  BY <1>0, <1>2 DEF MigrationTypeOK
<1>4. applied' \in [Migrations -> Nat]
  BY <1>0 DEF RunDown, DeleteRow, MigrationTypeOK
<1>5. MigrationTypeOK'
  BY <1>0, <1>1, <1>2, <1>4 DEF MigrationTypeOK, Stages
<1>6. CASE Atomic
  <2>1. RunDown(p) /\ at[p] = "run"
    BY <1>0, <1>6 DEF DeleteRow, RunDown, IsAt, WriterRecords
  <2>2. writer = Nobody
    BY <1>0, <1>6, <2>1 DEF RunDown, CanWrite, WriterRecords
  <2>3. /\ applied' = [applied EXCEPT ![current[p]] = 0]
        /\ recorded' = recorded \ {current[p]}
    BY <1>6, <2>1 DEF RunDown
  <2>4. \A q \in Apps : at[q] \notin {"record", "commit"} /\ at'[q] \notin {"record", "commit"}
    BY <1>0, <1>3, <1>6, <2>1, <2>2 DEF WriterRecords
  <2>5. WriterRecords'
    BY <1>0, <1>1, <1>3, <1>6, <2>2, <2>4 DEF WriterRecords, Atomic
  <2>6. \A m : ~Unrecorded(m) /\ ~Unrecorded(m)'
    BY <1>1, <2>2 DEF Unrecorded
  <2>7. SchemaMatches'
    BY <1>0, <1>1, <1>6, <2>3, <2>6 DEF SchemaMatches, Atomic, Count, MigrationTypeOK
  <2> QED
    BY <1>5, <2>5, <2>7 DEF MigrationInv
<1>7. CASE ~Atomic
  <2>1. WriterRecords'
    BY <1>0, <1>1, <1>7 DEF WriterRecords, Atomic
  <2>2. DeleteRow(p) => UNCHANGED applied /\ recorded' \subseteq recorded
    BY DEF DeleteRow
  <2>3. RunDown(p) => undone'
    BY <1>0, <1>1 DEF RunDown, MigrationTypeOK
  <2>4. SchemaMatches'
    BY <1>0, <1>1, <1>3, <1>7, <2>2, <2>3 DEF SchemaMatches, Atomic
  <2> QED
    BY <1>5, <2>1, <2>4 DEF MigrationInv
<1> QED
  BY <1>6, <1>7

(* With a transaction per migration, by a driver that makes it hold, a      *)
(* migration is in the schema exactly once if it is recorded and not at all *)
(* if it is not; otherwise nothing is recorded that was not applied: for    *)
(* any number of migrations, processes and starts, wherever they fail and   *)
(* die.                                                                     *)
THEOREM MigrationsMatchSchema == MigrationSpec => []RecordMatchesSchema
<1>1. MigrationInv /\ UNCHANGED migrationVars => MigrationInv'
  BY DEF migrationVars, MigrationInv, MigrationTypeOK, WriterRecords, SchemaMatches, Unrecorded,
         Atomic
<1>2. MigrationInv /\ MigrationNext => MigrationInv'
  BY QuietStepKeeps, UpKeeps, UpFailsKeeps, RecordKeeps, CommitMigrationKeeps, AbandonKeeps,
     DownKeeps DEF MigrationNext
<1>3. MigrationInv => RecordMatchesSchema
  <2> SUFFICES ASSUME MigrationInv, NEW m \in Migrations, writer = Nobody \/ current[writer] # m
               PROVE  IF Atomic THEN applied[m] = (IF m \in recorded THEN 1 ELSE 0)
                      ELSE ~undone /\ m \in recorded => applied[m] > 0
    BY DEF RecordMatchesSchema
  <2>1. ~Unrecorded(m)
    BY DEF Unrecorded
  <2> QED
    BY <2>1 DEF MigrationInv, SchemaMatches, Count
<1> QED
  BY <1>1, <1>2, <1>3, MigrationInvInit, PTL DEF MigrationSpec

-----------------------------------------------------------------------------
(* Sessions.                                                                *)

Listed == [ids : SUBSET Sids, all : SUBSET Sids]

SessionVarsOK ==
    /\ provider \in {"memory", "db", "dynamo"}
    /\ rows \in [Sids -> SessionRows \cup {NoRow}]
    /\ now \in Nat
    /\ op \in [Requests -> {"idle", "handler", "relogin", "authenticate", "save", "upsert",
                            "destroy"}]
    /\ ssid \in [Requests -> Sids]
    /\ session \in [Requests -> SessionRows \cup {NoRow}]
    /\ read \in [Requests -> SessionRows \cup Listed \cup {NoRow}]
    /\ userOf \in [Sids -> Users \cup {NoUser}]
    /\ ended \subseteq Sids

(* Which query of which call a request has still to make says what it has.  *)
CallsHold ==
    \A r \in Requests :
        /\ op[r] \in {"save", "upsert"} => session[r] # NoRow
        /\ op[r] = "upsert" => provider = "db" /\ read[r] \in SessionRows \cup {NoRow}
        /\ op[r] = "destroy" => read[r] \in Listed /\ read[r].all \subseteq read[r].ids

(* A session that is stored, or that a request has, was made for a user;    *)
(* its row names him, and so does what may be written over it, but for the  *)
(* objects the tables hand out, which name nobody.                          *)
OwnersFit ==
    /\ \A s \in Sids : HasRow(s) =>
          userOf[s] # NoUser /\ (provider # "dynamo" => rows[s].owner = userOf[s])
    /\ \A r \in Requests : session[r] # NoRow =>
          /\ userOf[ssid[r]] # NoUser
          /\ provider = "memory" => session[r].owner = userOf[ssid[r]]
          /\ provider = "db" => session[r].owner \in {NoUser, userOf[ssid[r]]}
          /\ provider = "db" /\ op[r] = "handler" => session[r].owner = NoUser
    /\ provider = "db" => \A r \in Requests :
          op[r] = "upsert" /\ read[r] # NoRow => read[r].owner = userOf[ssid[r]]

(* What the table store may still save of an ended session names nobody, so *)
(* it is refused.                                                           *)
EndedHarmless ==
    /\ \A s \in ended : ~HasRow(s) /\ userOf[s] # NoUser
    /\ provider = "db" =>
         \A r \in Requests : op[r] \in {"save", "upsert"} /\ ssid[r] \in ended =>
            session[r].owner = NoUser /\ (op[r] = "upsert" => read[r] = NoRow)

SessionInv == SessionVarsOK /\ CallsHold /\ OwnersFit /\ EndedHarmless

(* Nobody has a session at first.                                           *)
LEMMA SessionInvInit == SessionInit => SessionInv
  BY SessionAssumption
     DEF SessionInit, SessionInv, SessionVarsOK, CallsHold, OwnersFit, EndedHarmless, HasRow

(* A request that takes its turn, and gives up or keeps what it has.        *)
LEMMA TurnKeeps ==
    ASSUME SessionInv, NEW r \in Requests, NEW l \in {"idle", "handler", "relogin", "authenticate"},
           l = "handler" => op[r] = "handler",
           op' = [op EXCEPT ![r] = l],
           session' \in {session, [session EXCEPT ![r] = NoRow]},
           read' \in {read, [read EXCEPT ![r] = NoRow]},
           UNCHANGED <<provider, rows, now, ssid, userOf, ended>>
    PROVE  SessionInv'
<1>0. SessionVarsOK /\ CallsHold /\ OwnersFit /\ EndedHarmless
  BY DEF SessionInv
<1>1. /\ op'[r] = l
      /\ \A q \in Requests \ {r} : op'[q] = op[q] /\ session'[q] = session[q] /\ read'[q] = read[q]
      /\ session'[r] \in {session[r], NoRow}
  BY <1>0 DEF SessionVarsOK
<1>2. SessionVarsOK'
  BY <1>0 DEF SessionVarsOK
<1>3. CallsHold'
  BY <1>0, <1>1 DEF CallsHold
<1>4. OwnersFit'
  BY <1>0, <1>1 DEF OwnersFit, HasRow
<1>5. EndedHarmless'
  BY <1>0, <1>1 DEF EndedHarmless, HasRow
<1> QED
  BY <1>2, <1>3, <1>4, <1>5 DEF SessionInv

(* Sessions are deleted, in a turn of a request or without one: rows go,    *)
(* and those nobody was saving have ended.                                  *)
LEMMA EndingKeeps ==
    ASSUME SessionInv, NEW S \in SUBSET Sids, Ending(S),
           rows' \in [Sids -> SessionRows \cup {NoRow}],
           \A s \in Sids : rows'[s] \in {rows[s], NoRow},
           \A s \in S : rows'[s] = NoRow,
           SessionVarsOK', UNCHANGED <<provider, now, ssid, userOf>>,
           \A q \in Requests :
              \/ op'[q] = op[q] /\ session'[q] = session[q] /\ read'[q] = read[q]
              \/ op'[q] \in {"idle", "authenticate"} /\ session'[q] \in {session[q], NoRow}
    PROVE  SessionInv'
<1>0. SessionVarsOK /\ CallsHold /\ OwnersFit /\ EndedHarmless
  BY DEF SessionInv
<1>1. ended' = ended \cup {s \in S : userOf[s] # NoUser /\ ~Saving(s)}
  BY DEF Ending
<1>2. CallsHold'
  BY <1>0 DEF CallsHold
<1>3. OwnersFit'
  BY <1>0 DEF OwnersFit, HasRow
<1>4. EndedHarmless'
  BY <1>0, <1>1 DEF EndedHarmless, HasRow, Saving, SessionVarsOK
<1> QED
  BY <1>2, <1>3, <1>4 DEF SessionInv

(* The request restores the session of its cookie, which the table stores   *)
(* hand out without its owner.                                              *)
LEMMA RestoreKeeps ==
    ASSUME SessionInv, NEW r \in Requests, NEW s \in Sids, Restore(r, s)
    PROVE  SessionInv'
<1>0. SessionVarsOK /\ CallsHold /\ OwnersFit /\ EndedHarmless
  BY DEF SessionInv
<1> DEFINE found == IF HasRow(s) /\ ~Expired(s) THEN Restored(s) ELSE NoRow
<1>1. /\ op' = [op EXCEPT ![r] = "handler"]
      /\ ssid' = [ssid EXCEPT ![r] = s]
      /\ session' = [session EXCEPT ![r] = found]
      /\ userOf[s] # NoUser
      /\ UNCHANGED <<provider, rows, now, read, userOf, ended>>
  BY DEF Restore, Turn
<1>2. /\ found \in SessionRows \cup {NoRow}
      /\ found # NoRow => /\ provider = "memory" => found.owner = userOf[s]
                          /\ provider = "db" => found.owner = NoUser
  BY <1>0 DEF Restored, HasRow, Session, SessionRows, SessionVarsOK, OwnersFit
<1> HIDE DEF found
<1>3. /\ op'[r] = "handler" /\ ssid'[r] = s /\ session'[r] = found
      /\ \A q \in Requests \ {r} : op'[q] = op[q] /\ session'[q] = session[q] /\ ssid'[q] = ssid[q]
  BY <1>0, <1>1 DEF SessionVarsOK
<1>4. SessionVarsOK'
  BY <1>0, <1>1, <1>2 DEF SessionVarsOK
<1>5. CallsHold'
  BY <1>0, <1>1, <1>3 DEF CallsHold
<1>6. OwnersFit'
  BY <1>0, <1>1, <1>2, <1>3 DEF OwnersFit, HasRow
<1>7. EndedHarmless'
  BY <1>0, <1>1, <1>3 DEF EndedHarmless, HasRow
<1> QED
  BY <1>4, <1>5, <1>6, <1>7 DEF SessionInv

(* A new session is one nobody has, stored or ended.                        *)
LEMMA AuthenticatedKeeps ==
    ASSUME SessionInv, NEW r \in Requests, NEW s \in Sids, NEW u \in Users,
           Authenticated(r, s, u)
    PROVE  SessionInv'
<1>0. SessionVarsOK /\ CallsHold /\ OwnersFit /\ EndedHarmless
  BY DEF SessionInv
<1> DEFINE new == Session(u, now + Lifetime)
<1>1. /\ op' = [op EXCEPT ![r] = "save"]
      /\ userOf[s] = NoUser /\ userOf' = [userOf EXCEPT ![s] = u]
      /\ ssid' = [ssid EXCEPT ![r] = s]
      /\ session' = [session EXCEPT ![r] = new]
      /\ UNCHANGED <<provider, rows, now, read, ended>>
  BY DEF Authenticated, Turn
<1>2. new \in SessionRows /\ new # NoRow /\ new.owner = u /\ u # NoUser
  <2>1. now + Lifetime \in Nat
    BY <1>0, SessionAssumption DEF SessionVarsOK
  <2>2. new \in SessionRows /\ new.owner = u
    BY <2>1 DEF Session, SessionRows
  <2> QED
    BY <2>2, SessionAssumption
<1> HIDE DEF new
<1>3. /\ op'[r] = "save" /\ ssid'[r] = s /\ session'[r] = new
      /\ \A q \in Requests \ {r} : op'[q] = op[q] /\ session'[q] = session[q] /\ ssid'[q] = ssid[q]
      /\ userOf'[s] = u /\ \A x \in Sids \ {s} : userOf'[x] = userOf[x]
  BY <1>0, <1>1 DEF SessionVarsOK
<1>4. s \notin ended /\ ~HasRow(s) /\ \A q \in Requests : session[q] # NoRow => ssid[q] # s
  BY <1>0, <1>1 DEF OwnersFit, EndedHarmless
<1>5. SessionVarsOK'
  BY <1>0, <1>1, <1>2 DEF SessionVarsOK
<1>6. CallsHold'
  BY <1>0, <1>1, <1>2, <1>3 DEF CallsHold
<1>7. OwnersFit'
  <2>1. \A x \in Sids : HasRow(x)' => userOf'[x] # NoUser /\ (provider # "dynamo" => rows[x].owner = userOf'[x])
    BY <1>0, <1>1, <1>3, <1>4 DEF OwnersFit, HasRow
  <2>2. \A q \in Requests : session'[q] # NoRow =>
          /\ userOf'[ssid'[q]] # NoUser
          /\ provider = "memory" => session'[q].owner = userOf'[ssid'[q]]
          /\ provider = "db" => session'[q].owner \in {NoUser, userOf'[ssid'[q]]}
          /\ provider = "db" /\ op'[q] = "handler" => session'[q].owner = NoUser
    BY <1>0, <1>2, <1>3, <1>4 DEF OwnersFit, SessionVarsOK
  <2>3. \A q \in Requests \ {r} : op[q] = "upsert" => userOf'[ssid[q]] = userOf[ssid[q]]
    BY <1>0, <1>3, <1>4 DEF CallsHold, SessionVarsOK
  <2> QED
    BY <1>0, <1>1, <1>3, <2>1, <2>2, <2>3 DEF OwnersFit
<1>8. EndedHarmless'
  BY <1>0, <1>1, <1>3, <1>4 DEF EndedHarmless, HasRow, SessionVarsOK
<1> QED
  BY <1>5, <1>6, <1>7, <1>8 DEF SessionInv

(* A request goes on to save what it has, which no ended session survives.  *)
LEMMA SavingKeeps ==
    ASSUME SessionInv, NEW r \in Requests, ChangeAndSave(r) \/ SaveSelect(r)
    PROVE  SessionInv'
<1>0. SessionVarsOK /\ CallsHold /\ OwnersFit /\ EndedHarmless
  BY DEF SessionInv
<1>1. CASE ChangeAndSave(r)
  <2>1. /\ session[r] # NoRow /\ op[r] = "handler" /\ op' = [op EXCEPT ![r] = "save"]
        /\ UNCHANGED <<provider, rows, now, ssid, session, read, userOf, ended>>
    BY <1>1 DEF ChangeAndSave, Turn
  <2>2. op'[r] = "save" /\ \A q \in Requests \ {r} : op'[q] = op[q]
    BY <1>0, <2>1 DEF SessionVarsOK
  <2>3. SessionVarsOK' /\ CallsHold'
    BY <1>0, <2>1, <2>2 DEF SessionVarsOK, CallsHold
  <2>4. OwnersFit' /\ EndedHarmless'
    BY <1>0, <2>1, <2>2 DEF OwnersFit, EndedHarmless, HasRow
  <2> QED
    BY <2>3, <2>4 DEF SessionInv
<1>2. CASE SaveSelect(r)
  <2>1. /\ provider = "db" /\ op[r] = "save" /\ op' = [op EXCEPT ![r] = "upsert"]
        /\ read' = [read EXCEPT ![r] = rows[ssid[r]]]
        /\ UNCHANGED <<provider, rows, now, ssid, session, userOf, ended>>
        /\ ssid[r] \in Sids
    BY <1>0, <1>2 DEF SaveSelect, Turn, SessionVarsOK
  <2>2. /\ op'[r] = "upsert" /\ read'[r] = rows[ssid[r]]
        /\ \A q \in Requests \ {r} : op'[q] = op[q] /\ read'[q] = read[q]
    BY <1>0, <2>1 DEF SessionVarsOK
  <2>3. SessionVarsOK' /\ CallsHold'
    BY <1>0, <2>1, <2>2 DEF SessionVarsOK, CallsHold
  <2>4. OwnersFit'
    BY <1>0, <2>1, <2>2 DEF OwnersFit, HasRow
  <2>5. EndedHarmless'
    BY <1>0, <2>1, <2>2 DEF EndedHarmless, HasRow
  <2> QED
    BY <2>3, <2>4, <2>5 DEF SessionInv
<1> QED
  BY <1>1, <1>2

(* A row is written, by a save or a touch, for a session that has not ended *)
(* or begins anew.                                                          *)
LEMMA WriteKeeps ==
    ASSUME SessionInv, NEW r \in Requests, NEW written \in SessionRows \cup {NoRow},
           NEW s \in Sids, s = ssid[r], userOf[s] # NoUser,
           provider # "dynamo" /\ written # NoRow => written.owner = userOf[s],
           rows' = [rows EXCEPT ![s] = written],
           op' = [op EXCEPT ![r] = "idle"],
           SessionVarsOK',
           session'[r] = NoRow,
           \A q \in Requests \ {r} :
              \/ session'[q] = session[q]
              \/ /\ provider = "memory" /\ session[q] # NoRow /\ session'[q] # NoRow
                 /\ ssid[q] = s /\ session'[q].owner = userOf[s],
           read' \in {read, [read EXCEPT ![r] = NoRow]},
           \/ ended' = ended \ {s}
           \/ ended' = ended /\ s \notin ended,
           UNCHANGED <<provider, now, ssid, userOf>>
    PROVE  SessionInv'
<1>0. SessionVarsOK /\ CallsHold /\ OwnersFit /\ EndedHarmless
  BY DEF SessionInv
<1>1. /\ op'[r] = "idle" /\ \A q \in Requests \ {r} : op'[q] = op[q] /\ read'[q] = read[q]
      /\ rows'[s] = written /\ \A x \in Sids \ {s} : rows'[x] = rows[x]
  BY <1>0 DEF SessionVarsOK
<1>2. CallsHold'
  BY <1>0, <1>1 DEF CallsHold
<1>3. OwnersFit'
  <2>1. \A x \in Sids : HasRow(x)' =>
          userOf[x] # NoUser /\ (provider # "dynamo" => rows'[x].owner = userOf[x])
    BY <1>0, <1>1 DEF OwnersFit, HasRow
  <2>2. \A q \in Requests : session'[q] # NoRow =>
          /\ userOf[ssid[q]] # NoUser
          /\ provider = "memory" => session'[q].owner = userOf[ssid[q]]
          /\ provider = "db" => session'[q].owner \in {NoUser, userOf[ssid[q]]}
          /\ provider = "db" /\ op'[q] = "handler" => session'[q].owner = NoUser
    BY <1>0, <1>1 DEF OwnersFit
  <2> QED
    BY <1>0, <1>1, <2>1, <2>2 DEF OwnersFit
<1>4. EndedHarmless'
  BY <1>0, <1>1 DEF EndedHarmless, HasRow, SessionVarsOK
<1> QED
  BY <1>2, <1>3, <1>4 DEF SessionInv

(* The save of the table store writes the row of the user the session was   *)
(* made for, or is refused.                                                 *)
LEMMA UpsertKeeps ==
    ASSUME SessionInv, NEW r \in Requests, SaveUpsert(r)
    PROVE  SessionInv'
<1>0. SessionVarsOK /\ CallsHold /\ OwnersFit /\ EndedHarmless
  BY DEF SessionInv
<1> DEFINE s == ssid[r]
           written == Upserted(read[r], session[r])
<1>1. /\ op[r] = "upsert" /\ op' = [op EXCEPT ![r] = "idle"]
      /\ session' = [session EXCEPT ![r] = NoRow] /\ read' = [read EXCEPT ![r] = NoRow]
      /\ UNCHANGED <<provider, now, ssid, userOf, ended>>
  BY DEF SaveUpsert, Turn, Saved
<1>2. CASE written.owner = NoUser
  <2>1. UNCHANGED rows
    BY <1>2 DEF SaveUpsert
  <2> QED
    BY <1>1, <2>1, TurnKeeps
<1>3. CASE written.owner # NoUser
  <2>1. rows' = [rows EXCEPT ![s] = written]
    BY <1>3 DEF SaveUpsert, Saved
  <2>2. /\ provider = "db" /\ session[r] \in SessionRows /\ session[r] # NoRow
        /\ read[r] \in SessionRows \cup {NoRow} /\ s \in Sids
    BY <1>0, <1>1 DEF CallsHold, SessionVarsOK
  <2>3. now + DbLifetime \in Nat
    BY <1>0, SessionAssumption DEF SessionVarsOK
  <2>4. written \in SessionRows
    BY <2>2, <2>3 DEF Upserted, Session, SessionRows
  <2>5. userOf[s] # NoUser /\ written.owner = userOf[s]
    BY <1>0, <1>1, <1>3, <2>2 DEF OwnersFit, Upserted, Session
  <2>6. s \notin ended
    BY <1>0, <1>1, <1>3, <2>2 DEF EndedHarmless, Upserted, Session
  <2> HIDE DEF written
  <2>7. SessionVarsOK'
    BY <1>0, <1>1, <2>1, <2>2, <2>4 DEF SessionVarsOK
  <2>8. session'[r] = NoRow /\ \A q \in Requests \ {r} : session'[q] = session[q]
    BY <1>0, <1>1 DEF SessionVarsOK
  <2> QED
    BY <1>1, <2>1, <2>2, <2>4, <2>5, <2>6, <2>7, <2>8, WriteKeeps
<1> QED
  BY <1>2, <1>3

(* The other stores write what the request has, which in the Map names the  *)
(* user the session was made for.                                           *)
LEMMA SavePutKeeps ==
    ASSUME SessionInv, NEW r \in Requests, SavePut(r)
    PROVE  SessionInv'
<1>0. SessionVarsOK /\ CallsHold /\ OwnersFit /\ EndedHarmless
  BY DEF SessionInv
<1>1. /\ provider # "db" /\ op[r] = "save" /\ op' = [op EXCEPT ![r] = "idle"]
      /\ rows' = [rows EXCEPT ![ssid[r]] = session[r]]
      /\ session' = [session EXCEPT ![r] = NoRow]
      /\ ended' = ended \ {ssid[r]}
      /\ UNCHANGED <<provider, now, ssid, userOf, read>>
  BY DEF SavePut, Turn, Saved
<1>2. session[r] # NoRow /\ session[r] \in SessionRows /\ ssid[r] \in Sids
  BY <1>0, <1>1 DEF CallsHold, SessionVarsOK
<1>3. userOf[ssid[r]] # NoUser /\ (provider # "dynamo" => session[r].owner = userOf[ssid[r]])
  BY <1>0, <1>1, <1>2 DEF OwnersFit, SessionVarsOK
<1>4. SessionVarsOK'
  BY <1>0, <1>1, <1>2 DEF SessionVarsOK
<1>5. session'[r] = NoRow /\ \A q \in Requests \ {r} : session'[q] = session[q]
  BY <1>0, <1>1 DEF SessionVarsOK
<1> QED
  BY <1>1, <1>2, <1>3, <1>4, <1>5, WriteKeeps

(* A touch writes the same owner again, and in the Map every request that   *)
(* has the session has the one that was touched.                            *)
LEMMA TouchKeeps ==
    ASSUME SessionInv, NEW r \in Requests, Touch(r)
    PROVE  SessionInv'
<1>0. SessionVarsOK /\ CallsHold /\ OwnersFit /\ EndedHarmless
  BY DEF SessionInv
<1> DEFINE s == ssid[r]
           longer == [session[r] EXCEPT !.expires = now + Lifetime]
           others == [q \in Requests |->
              IF q = r THEN NoRow
              ELSE IF provider = "memory" /\ s = ssid[q] /\ session[q] # NoRow THEN longer
              ELSE session[q]]
<1>1. /\ session[r] # NoRow /\ op[r] = "handler" /\ op' = [op EXCEPT ![r] = "idle"]
      /\ session' = others
      /\ UNCHANGED <<provider, now, ssid, read, userOf>>
  BY DEF Touch, Turn
<1>2. now + Lifetime \in Nat /\ s \in Sids /\ session[r] \in SessionRows
  BY <1>0, <1>1, SessionAssumption DEF SessionVarsOK
<1>3. longer \in SessionRows /\ longer.owner = session[r].owner /\ longer # NoRow
  <2>1. longer \in SessionRows /\ longer.owner = session[r].owner
    BY <1>2 DEF SessionRows
  <2> QED
    BY <2>1, SessionAssumption
<1>4. /\ userOf[s] # NoUser
      /\ provider = "memory" => longer.owner = userOf[s]
  BY <1>0, <1>1, <1>3, <1>2 DEF OwnersFit
<1>5. CASE provider = "db" /\ ~HasRow(s)
  <2>1. UNCHANGED <<rows, ended>>
    BY <1>5 DEF Touch
  <2>2. session' = [session EXCEPT ![r] = NoRow]
    BY <1>0, <1>1, <1>5 DEF SessionVarsOK
  <2> QED
    BY <1>1, <2>1, <2>2, TurnKeeps
<1>6. CASE ~(provider = "db" /\ ~HasRow(s))
  <2> DEFINE written == IF provider = "memory" THEN longer
                        ELSE IF HasRow(s) THEN [rows[s] EXCEPT !.expires = longer.expires]
                        ELSE [longer EXCEPT !.whole = FALSE]
  <2>1. rows' = [rows EXCEPT ![s] = written] /\ ended' = ended \ {s}
    BY <1>0, <1>2, <1>6 DEF Touch, SessionVarsOK
  <2>2. written \in SessionRows
    BY <1>0, <1>2, <1>3 DEF SessionVarsOK, HasRow, SessionRows
  <2>3. provider # "dynamo" => written.owner = userOf[s]
    <3>1. CASE provider = "memory"
      BY <3>1, <1>4
    <3>2. CASE provider = "db"
      <4>1. HasRow(s) /\ rows[s] \in SessionRows /\ rows[s].owner = userOf[s]
        BY <1>0, <1>2, <1>6, <3>2 DEF OwnersFit, HasRow, SessionVarsOK
      <4> QED
        BY <3>2, <4>1 DEF SessionRows
    <3> QED
      BY <1>0, <3>1, <3>2 DEF SessionVarsOK
  <2> HIDE DEF written, longer
  <2>4. SessionVarsOK'
    BY <1>0, <1>1, <1>2, <1>3, <2>1, <2>2 DEF SessionVarsOK
  <2>5. session'[r] = NoRow
    BY <1>1
  <2>6. \A q \in Requests \ {r} :
           \/ session'[q] = session[q]
           \/ /\ provider = "memory" /\ session[q] # NoRow /\ session'[q] # NoRow
              /\ ssid[q] = s /\ session'[q].owner = userOf[s]
    BY <1>1, <1>3, <1>4
  <2> QED
    BY <1>1, <1>2, <1>4, <2>1, <2>2, <2>3, <2>4, <2>5, <2>6, WriteKeeps
<1> QED
  BY <1>5, <1>6

(* Every deletion ends no session whose row it leaves: the ids the table    *)
(* store reads when a user is logged out are all of that user.              *)
LEMMA DeletionKeeps ==
    ASSUME SessionInv, NEW r \in Requests, NEW u,
           Delete(r) \/ LogsOut(r, u) \/ LogsOutDestroy(r)
    PROVE  SessionInv'
<1>0. SessionVarsOK /\ CallsHold /\ OwnersFit /\ EndedHarmless
  BY DEF SessionInv
<1>1. CASE Delete(r)
  <2>1. /\ op[r] \in {"handler", "relogin"}
        /\ op' = [op EXCEPT ![r] = "idle"] \/ op' = [op EXCEPT ![r] = "authenticate"]
        /\ rows' = [rows EXCEPT ![ssid[r]] = NoRow]
        /\ session' = [session EXCEPT ![r] = NoRow]
        /\ Ending({ssid[r]})
        /\ UNCHANGED <<provider, now, ssid, read, userOf>>
    BY <1>1 DEF Delete, Turn
  <2>2. ssid[r] \in Sids /\ {ssid[r]} \in SUBSET Sids
    BY <1>0 DEF SessionVarsOK
  <2>3. SessionVarsOK'
    BY <1>0, <2>1, <2>2 DEF SessionVarsOK, Ending
  <2>4. /\ \A s \in Sids : rows'[s] \in {rows[s], NoRow}
        /\ \A s \in {ssid[r]} : rows'[s] = NoRow
    BY <1>0, <2>1, <2>2 DEF SessionVarsOK
  <2>5. \A q \in Requests :
          \/ op'[q] = op[q] /\ session'[q] = session[q] /\ read'[q] = read[q]
          \/ op'[q] \in {"idle", "authenticate"} /\ session'[q] \in {session[q], NoRow}
    BY <1>0, <2>1 DEF SessionVarsOK
  <2>6. rows' \in [Sids -> SessionRows \cup {NoRow}]
    BY <2>3 DEF SessionVarsOK
  <2> QED
    BY <2>1, <2>2, <2>3, <2>4, <2>5, <2>6, EndingKeeps
<1>2. CASE LogsOut(r, u) /\ provider = "memory"
  <2> DEFINE S == {s \in Sids : userOf[s] = u /\ HasRow(s)}
  <2>1. /\ rows' = [s \in Sids |-> IF s \in OwnedBy(u) THEN NoRow ELSE rows[s]]
        /\ Ending(S)
        /\ UNCHANGED <<provider, now, op, ssid, session, read, userOf>>
    BY <1>2 DEF LogsOut
  <2>2. S \in SUBSET Sids /\ \A s \in S : rows'[s] = NoRow
    BY <1>0, <1>2, <2>1 DEF OwnersFit, OwnedBy
  <2>3. SessionVarsOK'
    BY <1>0, <2>1 DEF SessionVarsOK, Ending
  <2>4. \A s \in Sids : rows'[s] \in {rows[s], NoRow}
    BY <2>1
  <2>5. \A q \in Requests : op'[q] = op[q] /\ session'[q] = session[q] /\ read'[q] = read[q]
    BY <2>1
  <2>6. rows' \in [Sids -> SessionRows \cup {NoRow}]
    BY <2>3 DEF SessionVarsOK
  <2> QED
    BY <2>1, <2>2, <2>3, <2>4, <2>5, <2>6, EndingKeeps
<1>3. CASE LogsOut(r, u) /\ provider # "memory"
  <2> DEFINE listed == [ids |-> OwnedBy(u), all |-> {s \in Sids : userOf[s] = u /\ HasRow(s)}]
  <2>1. /\ provider = "db" /\ op' = [op EXCEPT ![r] = "destroy"]
        /\ read' = [read EXCEPT ![r] = listed]
        /\ UNCHANGED <<provider, rows, now, ssid, session, userOf, ended>>
    BY <1>0, <1>3 DEF LogsOut, Turn, SessionVarsOK
  <2>2. listed \in Listed /\ listed.all \subseteq listed.ids
    BY <1>0, <2>1 DEF OwnersFit, OwnedBy, Listed
  <2> HIDE DEF listed
  <2>3. /\ op'[r] = "destroy" /\ read'[r] = listed
        /\ \A q \in Requests \ {r} : op'[q] = op[q] /\ read'[q] = read[q]
    BY <1>0, <2>1 DEF SessionVarsOK
  <2>4. SessionVarsOK' /\ CallsHold'
    BY <1>0, <2>1, <2>2, <2>3 DEF SessionVarsOK, CallsHold
  <2>5. OwnersFit' /\ EndedHarmless'
    BY <1>0, <2>1, <2>3 DEF OwnersFit, EndedHarmless, HasRow
  <2> QED
    BY <2>4, <2>5 DEF SessionInv
<1>4. CASE LogsOutDestroy(r)
  <2>1. /\ op[r] = "destroy" /\ op' = [op EXCEPT ![r] = "idle"]
        /\ rows' = [s \in Sids |-> IF s \in read[r].ids THEN NoRow ELSE rows[s]]
        /\ Ending(read[r].all)
        /\ read' = [read EXCEPT ![r] = NoRow]
        /\ UNCHANGED <<provider, now, ssid, session, userOf>>
    BY <1>4 DEF LogsOutDestroy, Turn
  <2>2. read[r].all \in SUBSET Sids /\ read[r].all \subseteq read[r].ids
    BY <1>0, <2>1 DEF CallsHold, Listed
  <2>3. SessionVarsOK'
    BY <1>0, <2>1, <2>2 DEF SessionVarsOK, Ending
  <2>4. /\ \A s \in Sids : rows'[s] \in {rows[s], NoRow}
        /\ \A s \in read[r].all : rows'[s] = NoRow
    BY <2>1, <2>2
  <2>5. \A q \in Requests :
          \/ op'[q] = op[q] /\ session'[q] = session[q] /\ read'[q] = read[q]
          \/ op'[q] \in {"idle", "authenticate"} /\ session'[q] \in {session[q], NoRow}
    BY <1>0, <2>1 DEF SessionVarsOK
  <2>6. rows' \in [Sids -> SessionRows \cup {NoRow}]
    BY <2>3 DEF SessionVarsOK
  <2> QED
    BY <2>1, <2>2, <2>3, <2>4, <2>5, <2>6, EndingKeeps
<1> QED
  BY <1>1, <1>2, <1>3, <1>4

(* A cleanup ends the sessions it deletes, in one statement.                *)
LEMMA CleanupKeeps == SessionInv /\ Cleanup => SessionInv'
<1> SUFFICES ASSUME SessionInv, Cleanup
             PROVE  SessionInv'
  OBVIOUS
<1>0. SessionVarsOK /\ CallsHold /\ OwnersFit /\ EndedHarmless
  BY DEF SessionInv
<1> DEFINE due == {s \in Sids : HasRow(s) /\ rows[s].expires <= now}
<1>1. /\ rows' = [s \in Sids |-> IF s \in due THEN NoRow ELSE rows[s]]
      /\ Ending(due)
      /\ UNCHANGED <<provider, now, op, ssid, session, read, userOf>>
  BY DEF Cleanup
<1>2. due \in SUBSET Sids
  OBVIOUS
<1> HIDE DEF due
<1>3. SessionVarsOK'
  BY <1>0, <1>1, <1>2 DEF SessionVarsOK, Ending
<1>4. (\A s \in Sids : rows'[s] \in {rows[s], NoRow}) /\ (\A s \in due : rows'[s] = NoRow)
  BY <1>1, <1>2
<1>5. \A q \in Requests : op'[q] = op[q] /\ session'[q] = session[q] /\ read'[q] = read[q]
  BY <1>1
<1>6. rows' \in [Sids -> SessionRows \cup {NoRow}]
  BY <1>3 DEF SessionVarsOK
<1> QED
  BY <1>1, <1>2, <1>3, <1>4, <1>5, <1>6, EndingKeeps

(* Every step of a request, a logout, the cleanup and the clock keeps the   *)
(* invariant.                                                               *)
LEMMA SessionInductive == SessionInv /\ [SessionNext]_sessionVars => SessionInv'
<1> SUFFICES ASSUME SessionInv, [SessionNext]_sessionVars
             PROVE  SessionInv'
  OBVIOUS
<1>1. ASSUME NEW r \in Requests, Respond(r) \/ Login(r) \/ AuthenticationFails(r) \/ QueryRefused(r)
      PROVE  SessionInv'
  <2>1. \E l \in {"idle", "handler", "relogin", "authenticate"} :
           (l = "handler" => op[r] = "handler") /\ op' = [op EXCEPT ![r] = l]
    BY <1>1 DEF Respond, Login, AuthenticationFails, QueryRefused, Turn
  <2>2. /\ session' \in {session, [session EXCEPT ![r] = NoRow]}
        /\ read' \in {read, [read EXCEPT ![r] = NoRow]}
        /\ UNCHANGED <<provider, rows, now, ssid, userOf, ended>>
    BY <1>1 DEF Respond, Login, AuthenticationFails, QueryRefused
  <2> QED
    BY <2>1, <2>2, TurnKeeps
<1>2. CASE Tick \/ UNCHANGED sessionVars
  <2>1. now' \in Nat /\ UNCHANGED <<provider, rows, op, ssid, session, read, userOf, ended>>
    BY <1>2 DEF Tick, sessionVars, SessionInv, SessionVarsOK
  <2> QED
    BY <2>1 DEF SessionInv, SessionVarsOK, CallsHold, OwnersFit, EndedHarmless, HasRow
<1>3. ASSUME NEW r \in Requests, NEW s \in Sids,
             Restore(r, s) \/ \E u \in Users : Authenticated(r, s, u)
      PROVE  SessionInv'
  BY <1>3, RestoreKeeps, AuthenticatedKeeps
<1>4. ASSUME NEW r \in Requests,
             ChangeAndSave(r) \/ SaveSelect(r) \/ SaveUpsert(r) \/ SavePut(r) \/ Touch(r)
      PROVE  SessionInv'
  <2>1. CASE ChangeAndSave(r) \/ SaveSelect(r)
    BY <2>1, SavingKeeps
  <2>2. CASE SaveUpsert(r)
    BY <2>2, UpsertKeeps
  <2>3. CASE SavePut(r)
    BY <2>3, SavePutKeeps
  <2>4. CASE Touch(r)
    BY <2>4, TouchKeeps
  <2> QED
    BY <1>4, <2>1, <2>2, <2>3, <2>4
<1>5. ASSUME NEW r \in Requests,
             Delete(r) \/ (\E u \in Users : LogsOut(r, u)) \/ LogsOutDestroy(r)
      PROVE  SessionInv'
  BY <1>5, DeletionKeeps
<1>6. CASE Cleanup
  BY <1>6, CleanupKeeps
<1> QED
  BY <1>1, <1>2, <1>3, <1>4, <1>5, <1>6 DEF SessionNext

(* A session that was deleted while nobody was saving it stays away, in     *)
(* each of the three stores, for any number of requests, users and          *)
(* sessions and at any time.                                                *)
THEOREM EndedSessionsStayAway == SessionSpec => []EndedStaysAway
<1>1. SessionInv => EndedStaysAway
  BY DEF SessionInv, EndedHarmless, EndedStaysAway
<1> QED
  BY <1>1, SessionInvInit, SessionInductive, PTL DEF SessionSpec

-----------------------------------------------------------------------------
(* UserActions.                                                             *)

UserRows == [active : BOOLEAN, deleted : BOOLEAN, roles : SUBSET Roles, password : Nat,
             metadata : [Metadata -> Nat]]

UserTypeOK ==
    /\ user \in UserRows
    /\ actions \in Nat
    /\ asked \in [active : BOOLEAN, roles : SUBSET Roles, password : Nat]
    /\ task \in [UserCalls -> Plain \cup WithRole \cup WithValue \cup {"none", "request"}]
    /\ stage \in [UserCalls -> {"idle", "load", "change", "authenticate", "set",
                                "metadata", "emit"}]
    /\ \A c \in UserCalls : IF task[c] \in WithRole THEN arg[c] \in Roles ELSE arg[c] \in Nat
    /\ arg \in [UserCalls -> Roles \cup Nat]
    /\ loaded \in [UserCalls -> UserRows \cup {NoCopy}]
    /\ unsaved \in [UserCalls -> SUBSET Metadata]
    /\ stale \in BOOLEAN

(* A call that changes the user has loaded it; metadata is left to store    *)
(* only while it is stored, and a token only by a call without a role.      *)
CopyLoaded ==
    \A c \in UserCalls :
        /\ stage[c] \in {"change", "set"} => loaded[c] \in UserRows
        /\ stage[c] = "set" => task[c] \in {"ban", "request"}
        /\ unsaved[c] # {} => stage[c] = "metadata"
        /\ "token" \in unsaved[c] => task[c] \notin WithRole

Banned == user.metadata["is_banned"] # None

(* A ban goes through its metadata and nothing else, and from when it has   *)
(* stored it the row says so.                                               *)
BanStored ==
    \A c \in UserCalls : task[c] = "ban" =>
        /\ stage[c] \in {"idle", "load", "set", "metadata", "emit"}
        /\ stage[c] = "metadata" => "is_banned" \in unsaved[c] \/ Banned
        /\ stage[c] = "emit" => Banned

UserInv == UserTypeOK /\ CopyLoaded /\ BanStored /\ EveryChangeStands

(* Nothing is asked and nobody is banned before the first action.           *)
LEMMA UserInvInit == UserInit => UserInv
<1> SUFFICES ASSUME UserInit
             PROVE  UserInv
  OBVIOUS
<1>1. user \in UserRows
  BY DEF UserInit, UserRows, None
<1>2. UserTypeOK
  BY <1>1 DEF UserInit, UserTypeOK, None, WithRole
<1>3. CopyLoaded /\ BanStored /\ EveryChangeStands
  BY DEF UserInit, CopyLoaded, BanStored, EveryChangeStands
<1> QED
  BY <1>2, <1>3 DEF UserInv

(* What an action assigns in the copy it has loaded is again a user.        *)
LEMMA ChangedUser ==
    ASSUME UserTypeOK, NEW c \in UserCalls, loaded[c] \in UserRows
    PROVE  Changed(c) \in UserRows
<1> DEFINE u == loaded[c]
<1>1. u \in UserRows /\ actions \in Nat
  BY DEF UserTypeOK
<1>2. task[c] \in WithRole => arg[c] \in Roles
  BY DEF UserTypeOK
<1>3. CASE task[c] = "activate"
  BY <1>1, <1>3 DEF Changed, UserRows
<1>4. CASE task[c] = "deactivate"
  BY <1>1, <1>4 DEF Changed, UserRows
<1>5. CASE task[c] = "delete"
  BY <1>1, <1>5 DEF Changed, UserRows
<1>6. CASE task[c] = "grant"
  BY <1>1, <1>2, <1>6 DEF Changed, UserRows, WithRole
<1>7. CASE task[c] = "revoke"
  BY <1>1, <1>7 DEF Changed, UserRows
<1>8. CASE task[c] \notin {"activate", "deactivate", "delete", "grant", "revoke"}
  BY <1>1, <1>8 DEF Changed, UserRows
<1> QED
  BY <1>3, <1>4, <1>5, <1>6, <1>7, <1>8

(* The UPDATE sends what the call was asked, and only that; roles are       *)
(* computed from the ones it read.                                          *)
LEMMA UpdateUserKeeps ==
    ASSUME UserInv, NEW c \in UserCalls, UpdateUser(c)
    PROVE  UserInv'
<1>0. UserTypeOK /\ CopyLoaded /\ BanStored /\ EveryChangeStands
  BY DEF UserInv
<1>1. stage[c] = "change" /\ loaded[c] \in UserRows /\ task[c] # "ban"
  BY <1>0 DEF UpdateUser, InStage, CopyLoaded, BanStored, UserTypeOK
<1>2. Changed(c) \in UserRows
  BY <1>0, <1>1, ChangedUser
<1>3. /\ user' \in UserRows
      /\ user'.metadata = user.metadata
      /\ user'.active = IF task[c] \in {"activate", "deactivate"} THEN Changed(c).active
                        ELSE user.active
      /\ user'.roles = IF task[c] \in WithRole THEN Changed(c).roles ELSE user.roles
      /\ user'.password = IF task[c] \in WithValue THEN Changed(c).password ELSE user.password
  BY <1>0, <1>2 DEF UpdateUser, Sent, UserRows, UserTypeOK, WithRole, WithValue
<1>4. stale' \/ user'.roles = asked'.roles
  <2>1. SUFFICES ASSUME ~stale'
                 PROVE  user'.roles = asked'.roles
    OBVIOUS
  <2>2. user.roles = asked.roles /\ (task[c] \in WithRole => loaded[c].roles = user.roles)
    BY <1>0, <2>1 DEF UpdateUser, EveryChangeStands, UserTypeOK
  <2>3. CASE task[c] = "grant"
    <3>1. Changed(c).roles = loaded[c].roles \cup {arg[c]}
      BY <1>1, <2>3 DEF Changed, UserRows
    <3>2. asked'.roles = asked.roles \cup {arg[c]}
      BY <1>0, <2>3 DEF UpdateUser, UserTypeOK
    <3> QED
      BY <1>3, <2>2, <2>3, <3>1, <3>2 DEF WithRole
  <2>4. CASE task[c] = "revoke"
    <3>1. Changed(c).roles = loaded[c].roles \ {arg[c]}
      BY <1>1, <2>4 DEF Changed, UserRows
    <3>2. asked'.roles = asked.roles \ {arg[c]}
      BY <1>0, <2>4 DEF UpdateUser, UserTypeOK
    <3> QED
      BY <1>3, <2>2, <2>4, <3>1, <3>2 DEF WithRole
  <2>5. CASE task[c] \notin WithRole
    BY <1>0, <1>3, <2>2, <2>5 DEF UpdateUser, UserTypeOK, WithRole
  <2> QED
    BY <2>3, <2>4, <2>5 DEF WithRole
<1>5. asked' \in [active : BOOLEAN, roles : SUBSET Roles, password : Nat]
  <2>1. Changed(c).active \in BOOLEAN /\ Changed(c).password \in Nat
    BY <1>2 DEF UserRows
  <2>2. /\ asked \in [active : BOOLEAN, roles : SUBSET Roles, password : Nat]
        /\ task[c] \in WithRole => arg[c] \in Roles
    BY <1>0 DEF UserTypeOK
  <2> QED
    BY <2>1, <2>2 DEF UpdateUser, WithRole
<1>6. UserTypeOK'
  BY <1>0, <1>3, <1>5 DEF UpdateUser, UserTypeOK, Metadata, ToStage, doing
<1>7. EveryChangeStands'
  BY <1>0, <1>3, <1>4 DEF UpdateUser, EveryChangeStands, UserTypeOK
<1>8. CopyLoaded' /\ BanStored'
  BY <1>0, <1>1, <1>3 DEF UpdateUser, CopyLoaded, BanStored, Banned, ToStage, doing, UserTypeOK
<1> QED
  BY <1>6, <1>7, <1>8 DEF UserInv

(* Storing a metadata key takes back neither a change nor a ban.            *)
LEMMA StoreMetadataKeeps ==
    ASSUME UserInv, NEW c \in UserCalls, NEW k \in Metadata, StoreMetadata(c, k)
    PROVE  UserInv'
<1>0. UserTypeOK /\ CopyLoaded /\ BanStored /\ EveryChangeStands
  BY DEF UserInv
<1>1. k = "token" => arg[c] \in Nat
  BY <1>0 DEF StoreMetadata, CopyLoaded, UserTypeOK
<1>2. /\ user' \in UserRows
      /\ user'.active = user.active /\ user'.roles = user.roles
      /\ user'.password = user.password
      /\ user'.metadata = [user.metadata EXCEPT ![k] = IF k = "token" THEN arg[c] ELSE 1]
  BY <1>0, <1>1 DEF StoreMetadata, UserRows, UserTypeOK
<1>3. user'.metadata["is_banned"] = IF k = "is_banned" THEN 1 ELSE user.metadata["is_banned"]
  BY <1>0, <1>2 DEF UserTypeOK, UserRows, Metadata
<1>4. UserTypeOK'
  BY <1>0, <1>2 DEF StoreMetadata, UserTypeOK, doing, ghosts
<1>5. EveryChangeStands'
  BY <1>0, <1>2, <1>3 DEF StoreMetadata, EveryChangeStands, ghosts, None
<1>6. CopyLoaded' /\ BanStored'
  BY <1>0, <1>3 DEF StoreMetadata, CopyLoaded, BanStored, Banned, doing, UserTypeOK, None
<1> QED
  BY <1>4, <1>5, <1>6 DEF UserInv

(* Every action on the user keeps the invariant.                            *)
LEMMA UserInductive == UserInv /\ [UserNext]_userVars => UserInv'
<1> SUFFICES ASSUME UserInv, [UserNext]_userVars
             PROVE  UserInv'
  OBVIOUS
<1>0. UserTypeOK /\ CopyLoaded /\ BanStored /\ EveryChangeStands
  BY DEF UserInv
<1>1. ASSUME NEW c \in UserCalls, NEW what, NEW with, CallAction(c, what, with),
             \/ what \in Plain \cup WithValue \cup {"request"} /\ with \in Nat
             \/ what \in WithRole /\ with \in Roles
      PROVE  UserInv'
  <2>1. UserTypeOK'
    BY <1>0, <1>1 DEF CallAction, UserTypeOK, ToStage, ghosts, Plain, WithRole, WithValue
  <2>2. CopyLoaded'
    BY <1>0, <1>1 DEF CallAction, UserTypeOK, InStage, ToStage, CopyLoaded
  <2>3. BanStored' /\ EveryChangeStands'
    BY <1>0, <1>1 DEF CallAction, UserTypeOK, ToStage, ghosts, BanStored, Banned,
                      EveryChangeStands
  <2> QED
    BY <2>1, <2>2, <2>3 DEF UserInv
<1>2. ASSUME NEW c \in UserCalls, LoadUser(c) \/ SetMetadata(c) \/ MetadataStored(c)
                                  \/ ActionRefused(c) \/ ActionFails(c)
                                  \/ \E password : Authenticate(c, password)
      PROVE  UserInv'
  <2>1. UNCHANGED <<user, task, arg, actions, asked, stale, bans>>
    BY <1>2 DEF LoadUser, SetMetadata, MetadataStored, ActionRefused, ActionFails, Authenticate,
                doing, ghosts
  <2>2. EveryChangeStands'
    BY <1>0, <2>1 DEF EveryChangeStands
  <2>3. UserTypeOK' /\ CopyLoaded' /\ BanStored'
    BY <1>0, <1>2, <2>1
       DEF LoadUser, SetMetadata, MetadataStored, ActionRefused, ActionFails, Authenticate, Over,
           ToStage, InStage, UserTypeOK, CopyLoaded, BanStored, Banned, Metadata, WithRole
  <2> QED
    BY <2>2, <2>3 DEF UserInv
<1>3. ASSUME NEW c \in UserCalls, Emit(c)
      PROVE  UserInv'
  <2>1. task[c] = "ban" => Banned
    BY <1>0, <1>3 DEF Emit, InStage, BanStored
  <2>2. EveryChangeStands'
    BY <1>0, <1>3, <2>1 DEF Emit, EveryChangeStands, Banned
  <2>3. UserTypeOK' /\ CopyLoaded' /\ BanStored'
    BY <1>0, <1>3
       DEF Emit, Over, ToStage, UserTypeOK, CopyLoaded, BanStored, Banned, doing
  <2> QED
    BY <2>2, <2>3 DEF UserInv
<1>4. CASE UNCHANGED userVars
  BY <1>0, <1>4 DEF userVars, UserInv, UserTypeOK, CopyLoaded, BanStored, Banned,
                    EveryChangeStands
<1>5. user.metadata["token"] \in Nat /\ actions + 1 \in Nat /\ None \in Nat
  BY <1>0 DEF UserTypeOK, UserRows, Metadata, None
<1> QED
  BY <1>1, <1>2, <1>3, <1>4, <1>5, UpdateUserKeeps, StoreMetadataKeeps DEF UserNext

(* What was asked of the user by the calls that stored their change is what *)
(* its row says, and an answered ban is in force, for any number of calls   *)
(* and roles, however the calls overlap and fail.                           *)
THEOREM UserChangesStand == UserSpec => []EveryChangeStands
<1>1. UserInv => EveryChangeStands
  BY DEF UserInv
<1> QED
  BY <1>1, UserInvInit, UserInductive, PTL DEF UserSpec
=============================================================================
