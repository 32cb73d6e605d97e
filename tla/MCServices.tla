------------------------------ MODULE MCServices ------------------------------
(***************************************************************************)
(* The configuration, the web server, a route of it, the PDF renderer and  *)
(* two targets of the log for TLC.  They share no state, so focus says     *)
(* which of them a behaviour is about; the others stand still.  Only the   *)
(* group has a value in the files, and nothing but the properties.         *)
(***************************************************************************)
EXTENDS LogFile, LogLoki, PdfRender, HttpRoute, HttpServer, Configuration

VARIABLE focus

servicesVars == <<focus, fileVars, lokiVars, pdfVars, httpVars, serverVars, configVars>>

ServicesInit ==
    /\ focus \in {"file", "loki", "pdf", "http", "server", "config"}
    /\ FileInit /\ LokiInit /\ PdfInit /\ HttpInit /\ ServerInit /\ ConfigInit
    /\ focus # "server" => closesAll
    /\ \A p \in Props : <<p, "own">> \notin fromFiles
    /\ ~otherKeys
    /\ focus # "config" => fromFiles = {} /\ fromModules = {} /\ table

ServicesNext ==
    /\ UNCHANGED focus
    /\ \/ focus = "file" /\ FileNext
       \/ focus # "file" /\ UNCHANGED fileVars
    /\ \/ focus = "loki" /\ LokiNext
       \/ focus # "loki" /\ UNCHANGED lokiVars
    /\ \/ focus = "pdf" /\ PdfNext
       \/ focus # "pdf" /\ UNCHANGED pdfVars
    /\ \/ focus = "http" /\ HttpNext
       \/ focus # "http" /\ UNCHANGED httpVars
    /\ \/ focus = "server" /\ ServerNext
       \/ focus # "server" /\ UNCHANGED serverVars
    /\ \/ focus = "config" /\ ConfigNext
       \/ focus # "config" /\ UNCHANGED configVars

ServicesSpec == ServicesInit /\ [][ServicesNext]_servicesVars

(* The fairness of each component in the behaviours that are about it.     *)
FairServicesSpec ==
    /\ ServicesSpec
    /\ WF_fileVars(focus = "file" /\ FlushTimer)
    /\ WF_fileVars(focus = "file" /\ Flush)
    /\ WF_fileVars(focus = "file" /\ AppendStep)
    /\ WF_lokiVars(focus = "loki" /\ PushTimer)
    /\ WF_lokiVars(focus = "loki" /\ FlushEntries)
    /\ WF_lokiVars(focus = "loki" /\ (Succeeds \/ Fails))
    /\ SF_lokiVars(focus = "loki" /\ Succeeds)
    /\ WF_pdfVars(focus = "pdf" /\ PdfProgress)
    /\ WF_httpVars(focus = "http" /\ HttpProgress)
    /\ WF_serverVars(focus = "server" /\ ServerProgress)
    /\ WF_configVars(focus = "config" /\ LoadStep)
    /\ WF_configVars(focus = "config" /\ \E q \in Polls : Poll(q) \/ PollAnswered(q))
    /\ SF_configVars(focus = "config" /\ \E q \in Polls : PollRead(q))
==============================================================================
