------------------------------- MODULE LogLoki -------------------------------
(***************************************************************************)
(* The Loki target of packages/log-source-graphana-loki: entries are       *)
(* collected, and pushed together over HTTP when there are enough, by a    *)
(* timer or on dispose; a push that fails leaves its entries to the next.  *)
(***************************************************************************)
EXTENDS Naturals, Sequences, SequencesExt

CONSTANTS
    BufferSize,   \* options.bufferSize
    MaxMessages,  \* bound: entries that are logged
    MaxPushes     \* bound: flush() calls that wait and pushes in progress

ASSUME LokiAssumption == {BufferSize, MaxMessages, MaxPushes} \subseteq Nat \ {0}

VARIABLES
    Entries,       \* entries since the last flush was scheduled
    WriteEntries,  \* entries of the next push
    pushStatus,    \* Status of the target
    scheduled,     \* flush() calls given to setImmediate
    pushes,        \* the contents of the requests in progress
    sent,          \* entries logged so far; entry n is the number n
    received,      \* history: the entries Loki has
    lokiDisposed,  \* dispose() was called
    doubled        \* history: a flush was scheduled or run beside another one

lokiVars == <<Entries, WriteEntries, pushStatus, scheduled, pushes, sent,
              received, lokiDisposed, doubled>>

LokiInit ==
    /\ Entries = <<>> /\ WriteEntries = <<>>
    /\ pushStatus = "IDLE"
    /\ scheduled = 0 /\ pushes = <<>>
    /\ sent = 0
    /\ received = {}
    /\ lokiDisposed = FALSE /\ doubled = FALSE

Pushing == scheduled + Len(pushes) > 0
CanPush == scheduled + Len(pushes) < MaxPushes

-----------------------------------------------------------------------------
(* write(): the entry is collected; enough of them are scheduled at once.   *)
WriteEntry ==
    /\ sent < MaxMessages
    /\ sent' = sent + 1
    /\ \/ /\ pushStatus # "IDLE" \/ Len(Entries) + 1 < BufferSize
          /\ Entries' = Append(Entries, sent + 1)
          /\ UNCHANGED <<WriteEntries, pushStatus, scheduled, doubled>>
       \/ /\ pushStatus = "IDLE" /\ Len(Entries) + 1 >= BufferSize
          /\ CanPush
          /\ WriteEntries' = WriteEntries \o Append(Entries, sent + 1)
          /\ Entries' = <<>>
          /\ pushStatus' = "PENDING"
          /\ scheduled' = scheduled + 1
          /\ doubled' = (doubled \/ Pushing)
    /\ UNCHANGED <<pushes, received, lokiDisposed>>

(* The timer stands back only while the status is busy, and does not set it.*)
PushTimer ==
    /\ ~lokiDisposed
    /\ pushStatus = "IDLE"
    /\ CanPush
    /\ WriteEntries' = WriteEntries \o Entries
    /\ Entries' = <<>>
    /\ scheduled' = scheduled + 1
    /\ doubled' = (doubled \/ Pushing)
    /\ UNCHANGED <<pushStatus, pushes, sent, received, lokiDisposed>>

(* flush() of the entries w.                                                *)
PushOf(w) ==
    IF w = <<>> THEN pushStatus' = "IDLE" /\ UNCHANGED pushes
    ELSE pushStatus' = "WRITTING" /\ pushes' = Append(pushes, w)

FlushEntries ==
    /\ scheduled > 0
    /\ scheduled' = scheduled - 1
    /\ PushOf(WriteEntries)
    /\ UNCHANGED <<Entries, WriteEntries, sent, received, lokiDisposed, doubled>>

PushSucceeds(k) ==
    /\ received' = received \cup ToSet(pushes[k])
    /\ WriteEntries' = <<>>
    /\ pushStatus' = "IDLE"
    /\ pushes' = RemoveAt(pushes, k)
    /\ UNCHANGED <<Entries, scheduled, sent, lokiDisposed, doubled>>

(* Mutant: the status stays busy after a failed push.                       *)
RetryNever == UNCHANGED <<WriteEntries, pushStatus>>

(* The catch of the push.                                                   *)
Retry == pushStatus' = "IDLE" /\ UNCHANGED WriteEntries

(* An error or a timeout; after a timeout Loki may have the entries.        *)
PushFails(k) ==
    /\ received' \in {received, received \cup ToSet(pushes[k])}
    /\ Retry
    /\ pushes' = RemoveAt(pushes, k)
    /\ UNCHANGED <<Entries, scheduled, sent, lokiDisposed, doubled>>

DisposeLoki ==
    /\ ~lokiDisposed
    /\ lokiDisposed' = TRUE
    /\ WriteEntries' = WriteEntries \o Entries
    /\ Entries' = <<>>
    /\ PushOf(WriteEntries \o Entries)
    /\ doubled' = (doubled \/ Pushing)
    /\ UNCHANGED <<scheduled, sent, received>>

Succeeds == \E k \in DOMAIN pushes : PushSucceeds(k)
Fails == \E k \in DOMAIN pushes : PushFails(k)

LokiNext ==
    WriteEntry \/ PushTimer \/ FlushEntries \/ Succeeds \/ Fails \/ DisposeLoki

LokiSpec == LokiInit /\ [][LokiNext]_lokiVars

(* The timer fires, setImmediate calls back, a request ends, and Loki does  *)
(* not refuse for ever.                                                     *)
LokiFairness ==
    /\ WF_lokiVars(PushTimer) /\ WF_lokiVars(FlushEntries)
    /\ WF_lokiVars(Succeeds \/ Fails) /\ SF_lokiVars(Succeeds)

LokiFairSpec == LokiSpec /\ LokiFairness
-----------------------------------------------------------------------------
Kept == ToSet(WriteEntries) \cup ToSet(Entries)

LokiTypeOK ==
    /\ pushStatus \in {"IDLE", "PENDING", "WRITTING"}
    /\ sent \in 0..MaxMessages
    /\ Kept \cup received \cup UNION {ToSet(p) : p \in ToSet(pushes)} \subseteq 1..sent
    /\ scheduled + Len(pushes) \in 0..(MaxPushes + 1)

(* Every entry reaches Loki in the end, however many pushes fail, unless    *)
(* flushes overlap or the target is disposed.                               *)
ReceivedInTheEnd ==
    \A n \in 1..MaxMessages :
        n <= sent ~> n \in received \/ doubled \/ lokiDisposed
==============================================================================
