------------------------------- MODULE LogFile -------------------------------
(***************************************************************************)
(* FileTarget of packages/log: entries are buffered, moved to the write    *)
(* buffer when the buffer is full, by a timer or on dispose, and appended  *)
(* to the log file by an asynchronous write.  A second timer archives the  *)
(* files.  Callbacks of setImmediate, of the timers and of the file system *)
(* interleave; each of them is one step.                                   *)
(***************************************************************************)
EXTENDS Naturals, Sequences, SequencesExt

CONSTANTS
    MaxBufferSize,  \* options.maxBufferSize
    MaxEntries,     \* bound: entries that are logged
    MaxWaiting      \* bound: flush() and archive() calls that wait or run

ASSUME LogFileAssumption == {MaxBufferSize, MaxEntries, MaxWaiting} \subseteq Nat \ {0}

VARIABLES
    Buffer,         \* entries since the last flush was scheduled
    WriteBuffer,    \* entries the next flush() writes
    Status,         \* IDLE, PENDING or WRITTING
    ArchiveStatus,  \* IDLE or PENDING
    flushes,        \* flush() calls given to setImmediate
    appends,        \* the contents of the appendFile calls in progress
    archives,       \* archive() calls given to setImmediate
    moves,          \* files being renamed and compressed
    logged,         \* entries logged so far; entry n is the number n
    stored,         \* history: what the log files were given, in order
    refused,        \* history: entries of writes that failed
    fileDisposed,   \* dispose() was called
    overlapped      \* history: a flush was scheduled or run beside another one

statusVars == <<Status, ArchiveStatus>>
archiveVars == <<archives, moves>>
historyVars == <<stored, refused>>
fileVars == <<Buffer, WriteBuffer, statusVars, flushes, appends, archiveVars,
              logged, historyVars, fileDisposed, overlapped>>

FileInit ==
    /\ Buffer = <<>> /\ WriteBuffer = <<>>
    /\ Status = "IDLE" /\ ArchiveStatus = "IDLE"
    /\ flushes = 0 /\ appends = <<>>
    /\ archives = 0 /\ moves = 0
    /\ logged = 0
    /\ stored = <<>> /\ refused = {}
    /\ fileDisposed = FALSE /\ overlapped = FALSE

Busy == flushes + Len(appends) > 0
CanWait == flushes + Len(appends) < MaxWaiting

-----------------------------------------------------------------------------
(* write(): a full buffer is scheduled unless a write or an archive runs.   *)
WriteOnly ==
    /\ Buffer' = Append(Buffer, logged + 1)
    /\ UNCHANGED <<WriteBuffer, Status, flushes>>
    /\ overlapped' = (overlapped \/ fileDisposed)

WriteAndSchedule ==
    /\ CanWait
    /\ WriteBuffer' = WriteBuffer \o Append(Buffer, logged + 1)
    /\ Buffer' = <<>>
    /\ Status' = "PENDING"
    /\ flushes' = flushes + 1
    /\ overlapped' = (overlapped \/ Busy \/ fileDisposed)

Write ==
    /\ logged < MaxEntries
    /\ logged' = logged + 1
    /\ IF Status = "IDLE" /\ ArchiveStatus = "IDLE" /\ Len(Buffer) + 1 >= MaxBufferSize
         THEN WriteAndSchedule
         ELSE WriteOnly
    /\ UNCHANGED <<ArchiveStatus, appends, archiveVars, historyVars, fileDisposed>>

(* Mutant: the timers stand back when either status is busy.                *)
SkipsEither == Status # "IDLE" \/ ArchiveStatus # "IDLE"

(* What makes both timers stand back.                                       *)
Skips == Status # "IDLE" /\ ArchiveStatus # "IDLE"

(* The flush timer, once a second.                                          *)
FlushTimer ==
    /\ ~fileDisposed
    /\ ~Skips
    /\ CanWait
    /\ WriteBuffer' = WriteBuffer \o Buffer
    /\ Buffer' = <<>>
    /\ flushes' = flushes + 1
    /\ overlapped' = (overlapped \/ Busy)
    /\ UNCHANGED <<statusVars, appends, archiveVars, logged, historyVars, fileDisposed>>

(* flush() with the write buffer w.                                         *)
FlushOf(w) ==
    IF w = <<>> THEN Status' = "IDLE" /\ UNCHANGED appends
    ELSE Status' = "WRITTING" /\ appends' = Append(appends, w)

Flush ==
    /\ flushes > 0
    /\ flushes' = flushes - 1
    /\ FlushOf(WriteBuffer)
    /\ UNCHANGED <<Buffer, WriteBuffer, ArchiveStatus, archiveVars, logged,
                   historyVars, fileDisposed, overlapped>>

(* Mutant: the callback of appendFile keeps the write buffer.               *)
WrittenKeeps == UNCHANGED WriteBuffer

(* The callback of appendFile empties the write buffer, error or not.       *)
Written == WriteBuffer' = <<>>

AppendEnds(k) ==
    /\ Written
    /\ Status' = "IDLE"
    /\ appends' = RemoveAt(appends, k)
    /\ UNCHANGED <<Buffer, ArchiveStatus, flushes, archiveVars, logged, fileDisposed, overlapped>>

AppendSucceeds(k) ==
    /\ stored' = stored \o appends[k]
    /\ AppendEnds(k)
    /\ UNCHANGED refused

AppendFails(k) ==
    /\ refused' = refused \cup ToSet(appends[k])
    /\ AppendEnds(k)
    /\ UNCHANGED stored

(* dispose(): the timers stop, the rest is written but Buffer is kept.      *)
DisposeFile ==
    /\ ~fileDisposed
    /\ fileDisposed' = TRUE
    /\ WriteBuffer' = WriteBuffer \o Buffer
    /\ FlushOf(WriteBuffer \o Buffer)
    /\ overlapped' = (overlapped \/ Busy)
    /\ UNCHANGED <<Buffer, ArchiveStatus, flushes, archiveVars, logged, historyVars>>

-----------------------------------------------------------------------------
(* The archive timer.                                                       *)
ArchiveTimer ==
    /\ ~fileDisposed
    /\ ~Skips
    /\ archives + moves < MaxWaiting
    /\ ArchiveStatus' = "PENDING"
    /\ archives' = archives + 1
    /\ UNCHANGED <<Buffer, WriteBuffer, Status, flushes, appends, moves, logged,
                   historyVars, fileDisposed, overlapped>>

(* archive() finds no file that is too large or old ...                     *)
ArchiveNothing ==
    /\ archives > 0
    /\ archives' = archives - 1
    /\ ArchiveStatus' = "IDLE"
    /\ UNCHANGED <<Buffer, WriteBuffer, Status, flushes, appends, moves, logged,
                   historyVars, fileDisposed, overlapped>>

(* ... or starts to rename those it finds.                                  *)
ArchiveStarts ==
    /\ archives > 0
    /\ archives' = archives - 1
    /\ moves' \in (moves + 1)..(MaxWaiting + 1 - archives)
    /\ UNCHANGED <<Buffer, WriteBuffer, statusVars, flushes, appends, logged,
                   historyVars, fileDisposed, overlapped>>

(* One is renamed and compressed; on an error the status is left as it is.  *)
Archived ==
    /\ moves > 0
    /\ moves' = moves - 1
    /\ ArchiveStatus' \in {"IDLE", ArchiveStatus}
    /\ UNCHANGED <<Buffer, WriteBuffer, Status, flushes, appends, archives, logged,
                   historyVars, fileDisposed, overlapped>>

AppendStep == \E k \in DOMAIN appends : AppendSucceeds(k) \/ AppendFails(k)

FileNext ==
    \/ Write \/ FlushTimer \/ Flush \/ AppendStep \/ DisposeFile
    \/ ArchiveTimer \/ ArchiveNothing \/ ArchiveStarts \/ Archived

FileSpec == FileInit /\ [][FileNext]_fileVars

(* setImmediate and the file system call back, and the flush timer fires.   *)
FileFairness == WF_fileVars(FlushTimer) /\ WF_fileVars(Flush) /\ WF_fileVars(AppendStep)

FileFairSpec == FileSpec /\ FileFairness
-----------------------------------------------------------------------------
FileTypeOK ==
    /\ Status \in {"IDLE", "PENDING", "WRITTING"}
    /\ ArchiveStatus \in {"IDLE", "PENDING"}
    /\ logged \in 0..MaxEntries
    /\ \A s \in {Buffer, WriteBuffer, stored} \cup ToSet(appends) : ToSet(s) \subseteq 1..logged
    /\ refused \subseteq 1..logged
    /\ flushes + Len(appends) \in 0..(MaxWaiting + 1)
    /\ archives + moves \in 0..MaxWaiting

(* What the log files have, then what a write still has to bring.           *)
LogSoFar == stored \o WriteBuffer \o (IF fileDisposed THEN <<>> ELSE Buffer)

Rising(s) == \A i, k \in DOMAIN s : i < k => s[i] < s[k]

(* As long as no two flushes overlap, every entry is in the log once and in *)
(* the order it was logged, or still buffered, or was in a write that       *)
(* failed: the two buffers and the callbacks lose and repeat nothing.       *)
InOrderUnlessOverlapped ==
    ~overlapped => Rising(LogSoFar) /\ ToSet(LogSoFar) = (1..logged) \ refused

(* A file target that was not disposed hands every buffered entry to a      *)
(* write, even when an archive failed and left its status busy for ever.    *)
BufferIsFlushed ==
    \A n \in 1..MaxEntries :
        n \in ToSet(Buffer) ~> n \notin ToSet(Buffer) \/ fileDisposed

(* The comment in the flush timer: "do not flush, if we already writting to *)
(* file": no write begins while another is in progress.                     *)
WritesAlone == fileDisposed \/ Len(appends) <= 1
==============================================================================
