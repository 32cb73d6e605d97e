----------------------------- MODULE MCPlatform -----------------------------
(***************************************************************************)
(* What the container resolves beside the plain cache (DiRegistry,         *)
(* DiInstanceCheck), the log it builds at startup (StartupLog), the files  *)
(* (FileStore), the archives of the log (LogArchive) and the sessions      *)
(* (Sessions) for TLC.  They share no state, so focus says which of them a *)
(* behaviour is about.                                                     *)
(***************************************************************************)
EXTENDS DiInstanceCheck, DiRegistry, FileStore, LogArchive, StartupLog, Sessions, TLC

CONSTANTS root, child, a, b, n

VARIABLE focus

allVars == <<focus, checkVars, vars, storeVars, archiveDirVars, startVars, sessionVars>>

TreeLine == (root :> <<root>>) @@ (child :> <<child, root>>)

(* One rule for every logger, one for A that also names a target of its own.*)
StartRules == <<[names |-> {"*"}, level |-> 2, targets |-> {"t"}],
                [names |-> {"A"}, level |-> 1, targets |-> {"t", "u"}]>>

AllInit ==
    /\ focus \in {"check", "registry", "files", "archive", "start", "sessions"}
    /\ CheckInit /\ Init /\ FilesInit /\ ArchiveInit /\ StartInit /\ SessionInit
    /\ focus # "archive" => compress /\ counted
    /\ focus # "sessions" => provider = "memory"

AllNext ==
    /\ UNCHANGED focus
    /\ \/ focus = "check" /\ CheckNext
       \/ focus # "check" /\ UNCHANGED checkVars
    /\ \/ focus = "registry" /\ Next
       \/ focus # "registry" /\ UNCHANGED vars
    /\ \/ focus = "archive" /\ ArchiveNext
       \/ focus # "archive" /\ UNCHANGED archiveDirVars
    /\ \/ focus = "start" /\ StartNext
       \/ focus # "start" /\ UNCHANGED startVars
    /\ \/ focus = "sessions" /\ SessionNext
       \/ focus # "sessions" /\ UNCHANGED sessionVars
    /\ \/ focus = "files" /\ FilesNext
       \/ focus # "files" /\ UNCHANGED storeVars

AllSpec == AllInit /\ [][AllNext]_allVars

(* Every module keeps its variables within their types.                     *)
TypesOK == CheckTypeOK /\ TypeOK /\ FilesTypeOK
=============================================================================
