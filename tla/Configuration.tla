----------------------------- MODULE Configuration -----------------------------
(***************************************************************************)
(* The configuration: load() reads the files, then the table of the        *)
(* database source, then merges what the modules registered in the         *)
(* container and replaces references (aws://, fs-json://) by what they     *)
(* refer to.  A property declared with @Config(path, { expose }) gets a    *)
(* row; a timer copies the rows of the watched ones into the               *)
(* configuration, under the group of the row.  All of it overlaps.         *)
(***************************************************************************)
EXTENDS Naturals

CONSTANTS
    Props,     \* properties that are exposed, all in one group, with slugs without dots
    Polls,     \* queries of the timer under way at a time
    MaxValue,  \* bound: edits of rows and calls of set()
    MaxLoads   \* bound: calls of load()

ASSUME ConfigAssumption == MaxValue \in Nat /\ MaxLoads \in Nat

(* What a value is, or where it comes from; rows are edited one by one.     *)
Value(kind, n) == <<kind, n>>
Absent == Value("absent", 0)
Default == Value("default", 0)
Reference == Value("reference", 0)  \* of the form protocol://path

NotRead == [at |-> "idle"]
Sent == [at |-> "sent"]
Read(result) == [at |-> "answered", result |-> result]

VARIABLES
    fromFiles,   \* places the files give a value
    fromModules, \* properties __configuration__ gives a value, in the group
    otherKeys,   \* the files have other keys of the group
    Config,      \* Config[p][place]: the value at the path of p (own), and at group.path (group)
    phase,       \* of the application: start, ready (loaded once), orm (Orm is resolved), disposed
    declared,    \* declared[p]: no, early (before Orm was resolved) or late
    watched,     \* properties with exposeOptions.watch
    inserting,   \* properties whose insert has been sent
    table,       \* the table has been made
    row,         \* row[p]: Value of its row, or Absent
    edits,     \* edits of rows and calls of set() so far
    first,       \* first[p]: the query of a late property: idle, sent, or answered by a value
    poll,        \* poll[q]: a query of the timer: idle, sent, or answered by rows
    load,        \* the step load() waits for: idle, files, table, rows, merge, references or answers
    loaded,      \* the rows load() has read
    asked,       \* places whose reference a protocol has been asked for
    loads        \* calls of load()

configVars == <<fromFiles, fromModules, otherKeys, Config, phase, declared, watched, inserting,
                table, row, edits, first, poll, load, loaded, asked, loads>>

PropPlaces == Props \X {"own", "group"}
NoConfig == [p \in Props |-> [place \in {"own", "group"} |-> Absent]]
NoRows == [p \in Props |-> Absent]

ConfigInit ==
    /\ fromFiles \in SUBSET PropPlaces /\ fromModules \in SUBSET Props
    /\ otherKeys \in BOOLEAN
    /\ Config = NoConfig
    /\ phase = "start"
    /\ declared = [p \in Props |-> "no"] /\ watched = {} /\ inserting = {}
    /\ table \in BOOLEAN /\ row = NoRows /\ edits = 0
    /\ first = [p \in Props |-> NotRead]
    /\ poll = [q \in Polls |-> NotRead]
    /\ load = "idle" /\ loaded = NoRows /\ asked = {} /\ loads = 0

Sources == <<fromFiles, fromModules, otherKeys>>
Rows == <<table, row, edits>>
Declarations == <<phase, declared, watched>>

-----------------------------------------------------------------------------
(* @Config: the property is registered as a value.  The bootstrapper hears  *)
(* of one that comes late: its insert and its query are sent together.      *)
Declare(p, watch) ==
    /\ declared[p] = "no" /\ phase # "disposed"
    /\ declared' = [declared EXCEPT ![p] = IF phase \in {"start", "ready"} THEN "early" ELSE "late"]
    /\ watched' = IF watch THEN watched \cup {p} ELSE watched
    /\ inserting' = IF phase = "orm" THEN inserting \cup {p} ELSE inserting
    /\ first' = [first EXCEPT ![p] = IF phase = "orm" THEN Sent ELSE @]
    /\ UNCHANGED <<Sources, Config, phase, Rows, poll, load, loaded, asked, loads>>

(* di.resolved.Orm: what has been declared is inserted, and listed for the  *)
(* timer.  The migrations may have made the table.                          *)
OrmResolved(migrated) ==
    /\ phase = "ready"
    /\ phase' = "orm"
    /\ table' = (table \/ migrated)
    /\ inserting' = inserting \cup {p \in Props : declared[p] = "early"}
    /\ UNCHANGED <<Sources, Config, declared, watched, row, edits, first, poll, load, loaded, asked, loads>>

DisposeConfig ==
    /\ phase = "orm" /\ phase' = "disposed"
    /\ UNCHANGED <<Sources, Config, declared, watched, inserting, Rows, first, poll, load, loaded, asked, loads>>

(* INSERT OR IGNORE: a row that is there stays; nobody hears of a refusal.  *)
Inserted(p, refused) ==
    /\ p \in inserting
    /\ inserting' = inserting \ {p}
    /\ row' = [row EXCEPT ![p] = IF table /\ ~refused /\ @ = Absent THEN Default ELSE @]
    /\ UNCHANGED <<Sources, Config, Declarations, table, edits, first, poll, load, loaded, asked, loads>>

(* Somebody edits a row; it may become a reference.                         *)
WriteRow(p, reference) ==
    /\ table /\ row[p] # Absent /\ edits < MaxValue
    /\ edits' = edits + 1
    /\ row' = [row EXCEPT ![p] = IF reference THEN Reference ELSE Value("row", edits')]
    /\ UNCHANGED <<Sources, Config, Declarations, inserting, table, first, poll, load, loaded, asked, loads>>

(* The query of a late property and the set() of its answer, at its path.   *)
FirstRead(p) ==
    /\ first[p] = Sent
    /\ first' = [first EXCEPT ![p] = IF table THEN Read(row[p]) ELSE NotRead]
    /\ UNCHANGED <<Sources, Config, Declarations, inserting, Rows, poll, load, loaded, asked, loads>>

FirstAnswered(p) ==
    /\ first[p].at = "answered"
    /\ Config' = [Config EXCEPT ![p]["own"] = IF first[p].result = Absent THEN Default ELSE first[p].result]
    /\ first' = [first EXCEPT ![p] = NotRead]
    /\ UNCHANGED <<Sources, Declarations, inserting, Rows, poll, load, loaded, asked, loads>>

-----------------------------------------------------------------------------
(* The properties the timer asks for: those declared when Orm was resolved. *)
VarsToWatch == {p \in watched : declared[p] = "early"}

Poll(q) ==
    /\ phase = "orm" /\ poll[q] = NotRead /\ VarsToWatch # {}
    /\ poll' = [poll EXCEPT ![q] = Sent]
    /\ UNCHANGED <<Sources, Config, Declarations, inserting, Rows, first, load, loaded, asked, loads>>

PollRead(q) ==
    /\ poll[q] = Sent /\ table
    /\ poll' = [poll EXCEPT ![q] = Read(row)]
    /\ UNCHANGED <<Sources, Config, Declarations, inserting, Rows, first, load, loaded, asked, loads>>

PollFails(q) ==
    /\ poll[q] = Sent
    /\ poll' = [poll EXCEPT ![q] = NotRead]
    /\ UNCHANGED <<Sources, Config, Declarations, inserting, Rows, first, load, loaded, asked, loads>>

(* Mutant: the value goes to the path of the property.                      *)
PolledAtPath(config, rows) ==
    [p \in Props |-> IF p \in VarsToWatch /\ rows[p] # Absent
                     THEN [config[p] EXCEPT !["own"] = rows[p]] ELSE config[p]]

(* What differs is set, under the group of the row.                         *)
Polled(config, rows) ==
    [p \in Props |-> IF p \in VarsToWatch /\ rows[p] # Absent
                     THEN [config[p] EXCEPT !["group"] = rows[p]] ELSE config[p]]

PollAnswered(q) ==
    /\ poll[q].at = "answered"
    /\ Config' = Polled(Config, poll[q].result)
    /\ poll' = [poll EXCEPT ![q] = NotRead]
    /\ UNCHANGED <<Sources, Declarations, inserting, Rows, first, load, loaded, asked, loads>>

-----------------------------------------------------------------------------
(* load() begins with an empty configuration.                               *)
LoadBegins ==
    /\ load = "idle" /\ loads < MaxLoads
    /\ loads' = loads + 1
    /\ Config' = NoConfig
    /\ load' = "files"
    /\ UNCHANGED <<Sources, Declarations, inserting, Rows, first, poll, loaded, asked>>

MergedFiles(config) ==
    [p \in Props |-> [place \in {"own", "group"} |->
        IF <<p, place>> \in fromFiles THEN Value("file", 0) ELSE config[p][place]]]

FilesLoaded ==
    /\ load = "files"
    /\ Config' = MergedFiles(Config)
    /\ load' = "table"
    /\ UNCHANGED <<Sources, Declarations, inserting, Rows, first, poll, loaded, asked, loads>>

MergedRows(config, rows) ==
    [p \in Props |-> [config[p] EXCEPT !["group"] = IF rows[p] = Absent THEN @ ELSE rows[p]]]

(* merge() changes what get() returns: a group nobody has yet is lost.      *)
GroupIsThere(config) == otherKeys \/ \E p \in Props : config[p]["group"] # Absent
MergedModules(config) ==
    IF GroupIsThere(config)
    THEN [p \in Props |-> [config[p] EXCEPT !["group"] = IF p \in fromModules THEN Value("module", 0) ELSE @]]
    ELSE config

(* The table is looked for; without it nothing is merged from the database. *)
TableLooked ==
    /\ load = "table"
    /\ IF table THEN load' = "rows" /\ UNCHANGED Config
                ELSE load' = "references" /\ Config' = MergedModules(Config)
    /\ UNCHANGED <<Sources, Declarations, inserting, Rows, first, poll, loaded, asked, loads>>

RowsRead ==
    /\ load = "rows"
    /\ loaded' = row
    /\ load' = "merge"
    /\ UNCHANGED <<Sources, Config, Declarations, inserting, Rows, first, poll, asked, loads>>

RowsMerged ==
    /\ load = "merge"
    /\ Config' = MergedModules(MergedRows(Config, loaded))
    /\ loaded' = NoRows
    /\ load' = "references"
    /\ UNCHANGED <<Sources, Declarations, inserting, Rows, first, poll, asked, loads>>

(* The protocols are asked for the references that are there; each answer   *)
(* takes the place of what has been set meanwhile.                          *)
References(config) == {x \in PropPlaces : config[x[1]][x[2]] = Reference}

ProtocolsAsked ==
    /\ load = "references"
    /\ asked' = References(Config)
    /\ load' = "answers"
    /\ UNCHANGED <<Sources, Config, Declarations, inserting, Rows, first, poll, loaded, loads>>

ReferenceResolved ==
    /\ load = "answers"
    /\ \E x \in asked :
          /\ Config' = [Config EXCEPT ![x[1]][x[2]] = Value("secret", 0)]
          /\ asked' = asked \ {x}
    /\ UNCHANGED <<Sources, Declarations, inserting, Rows, first, poll, load, loaded, loads>>

LoadEnds ==
    /\ load = "answers" /\ asked = {}
    /\ load' = "idle"
    /\ phase' = IF phase = "start" THEN "ready" ELSE phase
    /\ UNCHANGED <<Sources, Config, declared, watched, inserting, Rows, first, poll, loaded, asked, loads>>

(* A source cannot be read: load() rejects, with what it has merged.        *)
SourceFails ==
    /\ load # "idle"
    /\ load' = "idle" /\ loaded' = NoRows /\ asked' = {}
    /\ UNCHANGED <<Sources, Config, Declarations, inserting, Rows, first, poll, loads>>

LoadStep == FilesLoaded \/ TableLooked \/ RowsRead \/ RowsMerged
            \/ ProtocolsAsked \/ ReferenceResolved \/ LoadEnds

(* set() by the application.                                                *)
Assign(p, place) ==
    /\ phase = "orm" /\ Config[p][place] # Value("set", 0)
    /\ edits < MaxValue /\ edits' = edits + 1
    /\ Config' = [Config EXCEPT ![p][place] = Value("set", 0)]
    /\ UNCHANGED <<Sources, Declarations, inserting, table, row, first, poll, load, loaded, asked, loads>>

ConfigNext ==
    \/ \E p \in Props :
          \/ \E b \in BOOLEAN : Declare(p, b) \/ Inserted(p, b) \/ WriteRow(p, b)
          \/ FirstRead(p) \/ FirstAnswered(p)
          \/ \E place \in {"own", "group"} : Assign(p, place)
    \/ \E b \in BOOLEAN : OrmResolved(b)
    \/ \E q \in Polls : Poll(q) \/ PollRead(q) \/ PollFails(q) \/ PollAnswered(q)
    \/ DisposeConfig \/ LoadBegins \/ LoadStep \/ SourceFails

ConfigSpec == ConfigInit /\ [][ConfigNext]_configVars

(* The interval fires, queries are answered, and not refused for ever.      *)
ConfigFairness ==
    /\ WF_configVars(LoadStep)
    /\ WF_configVars(\E q \in Polls : Poll(q) \/ PollAnswered(q))
    /\ SF_configVars(\E q \in Polls : PollRead(q))

ConfigFairSpec == ConfigSpec /\ ConfigFairness
-----------------------------------------------------------------------------
ConfigTypeOK ==
    /\ \A p \in Props : declared[p] # "late" => first[p] = NotRead
    /\ load \in {"idle", "files", "table", "rows", "merge", "references", "answers"}
    /\ inserting \subseteq Props

(* When the table is left alone the configuration of a watched property     *)
(* ends up as its row says, and stays so: whatever order polls and loads    *)
(* read and answer in, which sources give it other values, and whoever has  *)
(* set it.                                                                  *)
WatchedFollows ==
    \A p \in Props :
        <>[](phase = "orm" /\ p \in VarsToWatch /\ row[p] # Absent)
            => <>[](Config[p]["group"] = row[p])
================================================================================
