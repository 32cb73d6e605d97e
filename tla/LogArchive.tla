------------------------------ MODULE LogArchive ------------------------------
(***************************************************************************)
(* archive() of FileTarget: a log file that is too large is renamed into   *)
(* the archive directory and, if so configured, compressed there; archives *)
(* above the limit are deleted.  The names carry numbers that archive()    *)
(* computes from the names it finds.  One log file, an archive directory   *)
(* of its own.  The next archive() starts when the file operations of the  *)
(* last one are over: the timer's three minutes, not the code, see to that.*)
(***************************************************************************)
EXTENDS Naturals, FiniteSets, FiniteSetsExt

CONSTANTS
    MaxArchiveFiles,    \* options.maxArchiveFiles
    MaxLogFiles         \* bound: log files that are filled

ASSUME LogArchiveAssumption == {MaxArchiveFiles, MaxLogFiles} \subseteq Nat

VARIABLES
    compress,   \* options.compress
    counted,    \* the log's extension is .txt, the one that archive() looks for
    filled,     \* log files filled so far; the n-th holds the entries n
    logFile,    \* the entries in the log file, 0 when there is none
    archived,   \* the archives: number, compressed, entries, complete
    moving,     \* what archive() is doing to the log file: a set of at most one
    unlinks,    \* unlink() calls in progress, each with its reason
    deleted     \* history: entries deleted for the limit

archiveDirVars ==
    <<compress, counted, filled, logFile, archived, moving, unlinks, deleted>>

Archive(num, zip, of, whole) == [num |-> num, zip |-> zip, of |-> of, whole |-> whole]
SameName(f, g) == f.num = g.num /\ f.zip = g.zip

ArchiveInit ==
    /\ compress \in BOOLEAN /\ counted \in BOOLEAN
    /\ filled = 0 /\ logFile = 0
    /\ archived = {} /\ moving = {} /\ unlinks = {} /\ deleted = {}

LogFills ==
    /\ logFile = 0 /\ filled < MaxLogFiles
    /\ filled' = filled + 1 /\ logFile' = filled'
    /\ UNCHANGED <<compress, counted, archived, moving, unlinks, deleted>>

-----------------------------------------------------------------------------
(* Mutant: only the compressed archives are numbered.                       *)
LastZipNumber == Max({0} \cup {f.num : f \in {g \in archived : counted /\ g.zip}})

(* The number is read where it stands before .txt (x_1.txt, x_1.txt.gzip);  *)
(* in the name of a log with another extension none is found.               *)
LastNumber == Max({0} \cup {f.num : f \in {g \in archived : counted}})

(* The archives by age: a compressed one is younger than what it was made of.*)
OlderArchive(f, g) == f.of < g.of \/ (f.of = g.of /\ g.zip /\ ~f.zip)

AboveLimit ==
    {f \in archived : Cardinality({g \in archived : OlderArchive(f, g)}) >= MaxArchiveFiles}

ArchiveLog ==
    /\ logFile # 0 /\ moving = {} /\ unlinks = {}
    /\ unlinks' = {[file |-> f, why |-> "limit"] : f \in AboveLimit}
    /\ moving' = {[stage |-> "renaming", num |-> LastNumber + 1, zip |-> Cardinality(archived) + 1]}
    /\ UNCHANGED <<compress, counted, filled, logFile, archived, deleted>>

(* A file appears under its name and replaces the one that had it.          *)
Appears(f) == archived' = {g \in archived : ~SameName(f, g)} \cup {f}

Renamed(m) ==
    /\ m.stage = "renaming"
    /\ Appears(Archive(m.num, FALSE, logFile, TRUE))
    /\ logFile' = 0
    /\ moving' = IF compress THEN {[m EXCEPT !.stage = "renamed"]} ELSE {}
    /\ UNCHANGED <<compress, counted, filled, unlinks, deleted>>

RenameFails(m) ==
    /\ m.stage = "renaming"
    /\ moving' = {}
    /\ UNCHANGED <<compress, counted, filled, logFile, archived, unlinks, deleted>>

(* createWriteStream opens, and truncates, the compressed file.             *)
ZipStarts(m) ==
    /\ m.stage = "renamed"
    /\ \E f \in archived :
          /\ SameName(f, Archive(m.num, FALSE, 0, TRUE))
          /\ Appears(Archive(m.zip, TRUE, f.of, FALSE))
    /\ moving' = {[m EXCEPT !.stage = "zipping"]}
    /\ UNCHANGED <<compress, counted, filled, logFile, unlinks, deleted>>

(* What the end of the compression deletes: its input, or its failed output.*)
Unlinked(m, ok) ==
    IF ok THEN {f \in archived : ~f.zip /\ f.num = m.num}
          ELSE {f \in archived : f.zip /\ f.num = m.zip}

ZipEnds(m, ok) ==
    /\ m.stage = "zipping"
    /\ archived' = {IF f.zip /\ f.num = m.zip THEN [f EXCEPT !.whole = ok] ELSE f : f \in archived}
    /\ unlinks' = unlinks \cup {[file |-> f, why |-> "done"] : f \in Unlinked(m, ok)}
    /\ moving' = {}
    /\ UNCHANGED <<compress, counted, filled, logFile, deleted>>

(* An unlink() ends; it deletes whatever has the name by then, or fails.    *)
UnlinkEnds(u) ==
    /\ unlinks' = unlinks \ {u}
    /\ \/ /\ archived' = {f \in archived : ~SameName(f, u.file)}
          /\ deleted' = deleted \cup {f.of : f \in {g \in archived : u.why = "limit" /\ SameName(g, u.file)}}
       \/ UNCHANGED <<archived, deleted>>
    /\ UNCHANGED <<compress, counted, filled, logFile, moving>>

(* The process ends in the middle of it and starts again.                   *)
ArchiverRestarts ==
    /\ moving # {} \/ unlinks # {}
    /\ moving' = {} /\ unlinks' = {}
    /\ UNCHANGED <<compress, counted, filled, logFile, archived, deleted>>

ArchiveNext ==
    \/ LogFills \/ ArchiveLog \/ ArchiverRestarts
    \/ \E m \in moving : Renamed(m) \/ RenameFails(m) \/ ZipStarts(m) \/ \E ok \in BOOLEAN : ZipEnds(m, ok)
    \/ \E u \in unlinks : UnlinkEnds(u)

ArchiveSpec == ArchiveInit /\ [][ArchiveNext]_archiveDirVars
-----------------------------------------------------------------------------
(* Archiving loses no entries, whatever fails and wherever the process      *)
(* stops: each log file is still there, or is one of the archives, or was   *)
(* deleted for the limit.  Compressed archives are numbered by their count, *)
(* so this ends for them with the first deletion; and a log that is no .txt *)
(* file is archived as number 1 again and again, which keeps the last log   *)
(* file only: see the README.                                               *)
ArchivesKept ==
    \A n \in 1..filled :
        \/ n = logFile
        \/ \E f \in archived : f.of = n /\ f.whole
        \/ n \in deleted
        \/ compress /\ deleted # {}
        \/ ~counted /\ n # filled
==============================================================================
