----------------------------- MODULE StartupLog -----------------------------
(***************************************************************************)
(* What is logged while the application starts.  The real loggers need the *)
(* configuration; until the container has it, InternalLogger keeps the     *)
(* entries in a buffer, which a bootstrapper writes out when the container *)
(* says that Configuration is resolved.  It says so before it caches the   *)
(* instance, asynchronously made, and whoever asks DI.has(Configuration)   *)
(* in between, its listeners first of all, is told that there is none.     *)
(***************************************************************************)
EXTENDS Naturals, FiniteSets

CONSTANTS
    StartEntries, \* entries that are logged
    LoggerNames,  \* names of loggers; each is the @Logger field of one class
    LogTargets,
    Rules         \* sequence of [names, level, targets]; "*" is for every name

ASSUME StartupAssumption ==
    /\ StartEntries \cap LoggerNames = {} /\ "none" \notin StartEntries \cup LoggerNames
    /\ IsFiniteSet(DOMAIN Rules)

VARIABLES
    config,     \* of Configuration: none, loading, told (its listeners), cached
    bootstrap,  \* of InternalLogger: no, waiting (for the event), done
    field,      \* field[n]: none, proxy or logger, what the class of n logs with
    proxy,      \* the name of the only InternalLoggerProxy; "none" before it is made
    entry,      \* entry[e]: [level, logger, from] of one that n = from logged
    buffer,     \* LogBuffer
    handed,   \* handed[t][e]: how often e was handed to the target
    printed,    \* on the console, when the process was about to exit
    dropped,    \* history: cleared from the buffer and written nowhere
    gap         \* history: entries logged, or met by bootstrap(), while "told"

startVars == <<config, bootstrap, field, proxy, entry, buffer, handed, printed,
               dropped, gap>>

Trace == 1  \* of the levels; the others are 2 here
NotYet == [level |-> 0]

StartInit ==
    /\ config = "none" /\ bootstrap = "no"
    /\ field = [n \in LoggerNames |-> "none"] /\ proxy = "none"
    /\ entry = [e \in StartEntries |-> NotYet]
    /\ buffer = {} /\ printed = {} /\ dropped = {} /\ gap = {}
    /\ handed = [t \in LogTargets |-> [e \in StartEntries |-> 0]]

Logged == {e \in StartEntries : entry[e] # NotYet}

(* DI.has(Configuration) looks into the cache.                              *)
HasConfiguration == config = "cached"

-----------------------------------------------------------------------------
(* matchRulesToLogger(), resolveLogTargets() and the filter of write(): a   *)
(* target gets an entry once for every rule that names it.                  *)
RulesFor(name, level, t) ==
    {i \in DOMAIN Rules : /\ Rules[i].names = {"*"} \/ name \in Rules[i].names
                          /\ t \in Rules[i].targets /\ level >= Rules[i].level}
Times(x, t) == Cardinality(RulesFor(x.logger, x.level, t))

HandTo(entries, es) ==
    handed' = [t \in LogTargets |-> [e \in StartEntries |->
                   handed[t][e] + IF e \in es THEN Times(entries[e], t) ELSE 0]]

(* Without Configuration the factory of Log resolves InternalLoggerProxy.   *)
(* The container makes one instance of it, with the name it is first asked  *)
(* for, and answers every later name with the same.                         *)
MakeProxy(names) ==
    IF proxy = "none" /\ names # {} THEN proxy' \in names ELSE UNCHANGED proxy

(* The factory of Log: the real logger when Configuration is there, else    *)
(* the proxy of InternalLogger, which a class then keeps.                   *)
ResolveLogger(n) ==
    /\ field[n] = "none"
    /\ field' = [field EXCEPT ![n] = IF HasConfiguration THEN "logger" ELSE "proxy"]
    /\ IF HasConfiguration THEN UNCHANGED proxy ELSE MakeProxy({n})
    /\ UNCHANGED <<config, bootstrap, entry, buffer, handed, printed, dropped, gap>>

(* The logger an entry is for.  The proxy passes on its own name, whichever *)
(* logger was asked for; its level methods, save trace(), pass on a message *)
(* without an Error such that it becomes the name.                          *)
NameOf(e, n, by, level, error) ==
    CASE by = "proxy" /\ ~error /\ level # Trace -> e
      [] by = "proxy" /\ (error \/ level = Trace) -> proxy
      [] OTHER -> n

(* A proxy, and code that calls InternalLogger itself, write to the logger  *)
(* when Configuration is there, else to the buffer.                         *)
LogEntry(e, n, by, level, error) ==
    /\ entry[e] = NotYet
    /\ by \in {field[n], "static"} \ {"none"}
    /\ entry' = [entry EXCEPT
                  ![e] = [level |-> level, logger |-> NameOf(e, n, by, level, error),
                          from |-> n]]
    /\ IF by = "logger" \/ HasConfiguration
       THEN HandTo(entry', {e}) /\ UNCHANGED buffer
       ELSE buffer' = buffer \cup {e} /\ UNCHANGED handed
    /\ gap' = gap \cup {x \in {e} : config = "told"}
    /\ UNCHANGED <<config, bootstrap, field, proxy, printed, dropped>>

-----------------------------------------------------------------------------
LoadConfiguration ==
    /\ config = "none"
    /\ config' = "loading"
    /\ UNCHANGED <<bootstrap, field, proxy, entry, buffer, handed, printed, dropped,
                   gap>>

LoadFails ==
    /\ config = "loading"
    /\ config' = "none"
    /\ UNCHANGED <<bootstrap, field, proxy, entry, buffer, handed, printed, dropped,
                   gap>>

(* Mutant: the buffer is written and not cleared.                           *)
KeepBuffer ==
    IF HasConfiguration THEN HandTo(entry, buffer) /\ UNCHANGED <<buffer, dropped, proxy>>
           ELSE UNCHANGED <<buffer, handed, dropped, proxy>>

(* write() of bootstrap(): each entry goes to what the factory answers, a   *)
(* logger, or the proxy, which puts it back; then the buffer is cleared.    *)
EmptyBuffer ==
    /\ IF HasConfiguration
       THEN HandTo(entry, buffer) /\ UNCHANGED <<dropped, proxy>>
       ELSE /\ dropped' = dropped \cup buffer /\ UNCHANGED handed
            /\ MakeProxy({entry[e].logger : e \in buffer})
    /\ buffer' = {}

(* The container emits di.resolved.Configuration.                           *)
Told ==
    /\ config = "loading"
    /\ config' = "told"
    /\ IF bootstrap = "waiting"
       THEN bootstrap' = "done" /\ EmptyBuffer
       ELSE UNCHANGED <<bootstrap, buffer, handed, dropped, proxy>>
    /\ UNCHANGED <<field, entry, printed, gap>>

(* The continuation of getOrCreate caches the instance.                     *)
CacheConfiguration ==
    /\ config = "told"
    /\ config' = "cached"
    /\ UNCHANGED <<bootstrap, field, proxy, entry, buffer, handed, printed, dropped,
                   gap>>

Bootstrap ==
    /\ bootstrap = "no"
    /\ IF HasConfiguration
       THEN bootstrap' = "done" /\ EmptyBuffer
       ELSE bootstrap' = "waiting" /\ UNCHANGED <<buffer, handed, dropped, proxy>>
    /\ gap' = gap \cup {e \in buffer : config = "told"}
    /\ UNCHANGED <<config, field, entry, printed>>

BeforeExit ==
    /\ bootstrap # "no" /\ buffer # {}
    /\ printed' = printed \cup buffer
    /\ buffer' = {}
    /\ UNCHANGED <<config, bootstrap, field, proxy, entry, handed, dropped, gap>>

StartNext ==
    \/ \E n \in LoggerNames : ResolveLogger(n)
    \/ \E e \in StartEntries, n \in LoggerNames, level \in 1..2, error \in BOOLEAN :
          \E by \in {"proxy", "logger", "static"} : LogEntry(e, n, by, level, error)
    \/ LoadConfiguration \/ LoadFails \/ Told \/ CacheConfiguration
    \/ Bootstrap \/ BeforeExit

StartSpec == StartInit /\ [][StartNext]_startVars

-----------------------------------------------------------------------------
StartTypeOK ==
    /\ config \in {"none", "loading", "told", "cached"}
    /\ bootstrap \in {"no", "waiting", "done"}
    /\ field \in [LoggerNames -> {"none", "proxy", "logger"}]
    /\ proxy \in LoggerNames \cup StartEntries \cup {"none"}
    /\ entry \in [StartEntries -> [level : 1..2, logger : LoggerNames \cup StartEntries,
                                   from : LoggerNames] \cup {NotYet}]
    /\ buffer \subseteq Logged /\ printed \subseteq Logged
    /\ dropped \subseteq Logged /\ gap \subseteq Logged
    /\ handed \in [LogTargets -> [StartEntries -> Nat]]

(* Every entry that was logged is in one place: in the buffer, on the       *)
(* console, with the targets the rules give the name and level it was       *)
(* written with, once for each rule, or it was in the buffer when the       *)
(* listeners of di.resolved.Configuration cleared it.  The name is that of  *)
(* the logger the class asked for, or of the proxy that all early loggers   *)
(* share, or the message.  Once Configuration is cached and bootstrap() has *)
(* run, nothing waits in the buffer except what came between the event and  *)
(* the cache.                                                               *)
EveryEntryIsSomewhere ==
    /\ buffer \cap (printed \cup dropped) = {}
    /\ printed \cap dropped = {}
    /\ \A e \in Logged, t \in LogTargets :
         handed[t][e] = IF e \in buffer \cup printed \cup dropped
                        THEN 0 ELSE Times(entry[e], t)
    /\ \A e \in Logged : entry[e].logger \in {entry[e].from, proxy, e}
    /\ HasConfiguration /\ bootstrap # "no" => buffer \subseteq gap
=============================================================================
