------------------------------ MODULE PdfRender ------------------------------
(***************************************************************************)
(* PdfRenderer.renderToFile(): each call starts a local web server for the *)
(* files of its template, renders the template, launches a browser, prints *)
(* the page under a timeout, and releases browser and server on every      *)
(* path.  The browser and its page are external: a page may hang, and a    *)
(* browser may die.                                                        *)
(***************************************************************************)
EXTENDS Naturals

CONSTANTS
    Renders,  \* calls of renderToFile
    Ports,    \* portRange
    NoPort

ASSUME PdfAssumption == NoPort \notin Ports

VARIABLES
    step,     \* step[r]: what the call awaits
    port,     \* port[r]: the port its server listens on, or NoPort
    server,   \* server[r]: none, starting, listening or closed
    browser,  \* browser[r]: none, open or closed
    timer,    \* timer[r]: off, armed, closing (the page), or done
    written,  \* written[r]: the file is complete
    failed    \* failed[r]: the call will throw

pdfVars == <<step, port, server, browser, timer, written, failed>>

PdfInit ==
    /\ step = [r \in Renders |-> "idle"]
    /\ port = [r \in Renders |-> NoPort]
    /\ server = [r \in Renders |-> "none"]
    /\ browser = [r \in Renders |-> "none"]
    /\ timer = [r \in Renders |-> "off"]
    /\ written = [r \in Renders |-> FALSE]
    /\ failed = [r \in Renders |-> FALSE]

Awaits(r, s) == step[r] = s
Proceed(r, s) == step' = [step EXCEPT ![r] = s]
Throw(r) == Proceed(r, "release browser") /\ failed' = [failed EXCEPT ![r] = TRUE]

(* runLocalServer: a port of the range at random, whether or not it is free.*)
StartRender(r, p) ==
    /\ Awaits(r, "idle")
    /\ Proceed(r, "server")
    /\ port' = [port EXCEPT ![r] = p]
    /\ server' = [server EXCEPT ![r] = "starting"]
    /\ UNCHANGED <<browser, timer, written, failed>>

PortTaken(p) == \E r \in Renders : port[r] = p /\ server[r] = "listening"

Listening(r) ==
    /\ Awaits(r, "server")
    /\ ~PortTaken(port[r])
    /\ Proceed(r, "template")
    /\ server' = [server EXCEPT ![r] = "listening"]
    /\ UNCHANGED <<port, browser, timer, written, failed>>

(* It cannot listen, or does not within its timeout, and is closed at once. *)
ListenFails(r) ==
    /\ Awaits(r, "server")
    /\ Throw(r)
    /\ server' = [server EXCEPT ![r] = "closed"]
    /\ UNCHANGED <<port, browser, timer, written>>

TemplateRendered(r) ==
    /\ Awaits(r, "template")
    /\ Proceed(r, "launch")
    /\ UNCHANGED <<port, server, browser, timer, written, failed>>

Launched(r) ==
    /\ Awaits(r, "launch")
    /\ Proceed(r, "page")
    /\ browser' = [browser EXCEPT ![r] = "open"]
    /\ UNCHANGED <<port, server, timer, written, failed>>

(* The template, the launch or newPage() fails.                             *)
PrepareFails(r) ==
    /\ step[r] \in {"template", "launch", "page"}
    /\ Throw(r)
    /\ UNCHANGED <<port, server, browser, timer, written>>

(* Mutant: no timeout unless one is configured.                             *)
NewPageUntimed(r) ==
    /\ Awaits(r, "page") /\ browser[r] = "open"
    /\ Proceed(r, "print")
    /\ UNCHANGED <<port, server, browser, timer, written, failed>>

(* newPage() is answered, the timeout set, the content sent and printed.    *)
NewPage(r) ==
    /\ Awaits(r, "page") /\ browser[r] = "open"
    /\ Proceed(r, "print")
    /\ timer' = [timer EXCEPT ![r] = "armed"]
    /\ UNCHANGED <<port, server, browser, written, failed>>

ClearTimer(r) == timer' = [timer EXCEPT ![r] = IF @ = "armed" THEN "off" ELSE @]

Printed(r) ==
    /\ Awaits(r, "print")
    /\ browser[r] = "open" /\ timer[r] # "done"
    /\ Proceed(r, "release browser")
    /\ written' = [written EXCEPT ![r] = TRUE]
    /\ ClearTimer(r)
    /\ UNCHANGED <<port, server, browser, failed>>

(* setContent or pdf rejects: the page, or the browser, may be gone.        *)
PrintFails(r) ==
    /\ Awaits(r, "print")
    /\ Throw(r)
    /\ ClearTimer(r)
    /\ UNCHANGED <<port, server, browser, written>>

(* The timeout closes the page, waits for that, and kills the browser.      *)
TimerFires(r) ==
    /\ timer[r] = "armed"
    /\ timer' = [timer EXCEPT ![r] = "closing"]
    /\ UNCHANGED <<step, port, server, browser, written, failed>>

TimerKills(r) ==
    /\ timer[r] = "closing"
    /\ timer' = [timer EXCEPT ![r] = "done"]
    /\ browser' = [browser EXCEPT ![r] = "closed"]
    /\ UNCHANGED <<step, port, server, written, failed>>

BrowserDies(r) ==
    /\ browser[r] = "open"
    /\ browser' = [browser EXCEPT ![r] = "closed"]
    /\ UNCHANGED <<step, port, server, timer, written, failed>>

(* The finally block: pages and browser are closed, or its process killed.  *)
ReleaseBrowser(r) ==
    /\ Awaits(r, "release browser")
    /\ Proceed(r, "release server")
    /\ browser' = [browser EXCEPT ![r] = IF @ = "none" THEN @ ELSE "closed"]
    /\ UNCHANGED <<port, server, timer, written, failed>>

(* The server is closed, after a while with the connections it still has.   *)
ReleaseServer(r) ==
    /\ Awaits(r, "release server")
    /\ Proceed(r, "settled")
    /\ server' = [server EXCEPT ![r] = "closed"]
    /\ UNCHANGED <<port, browser, timer, written, failed>>

(* What is known to happen: nothing of the page itself, unless its browser  *)
(* is gone.                                                                 *)
Progress(r) ==
    \/ Listening(r) \/ ListenFails(r) \/ TemplateRendered(r) \/ Launched(r)
    \/ PrepareFails(r) \/ NewPage(r) \/ TimerFires(r)
    \/ browser[r] = "closed" /\ PrintFails(r)
    \/ ReleaseBrowser(r) \/ ReleaseServer(r)

PdfNext ==
    \E r \in Renders :
        \/ \E p \in Ports : StartRender(r, p)
        \/ Progress(r) \/ Printed(r) \/ PrintFails(r) \/ TimerKills(r) \/ BrowserDies(r)

(* A rendering takes finitely many steps, so it is enough that some go on.  *)
PdfProgress == \E r \in Renders : Progress(r) \/ TimerKills(r)
PdfFairness == WF_pdfVars(PdfProgress)

PdfSpec == PdfInit /\ [][PdfNext]_pdfVars /\ PdfFairness
-----------------------------------------------------------------------------
PdfTypeOK ==
    /\ server \in [Renders -> {"none", "starting", "listening", "closed"}]
    /\ browser \in [Renders -> {"none", "open", "closed"}]
    /\ timer \in [Renders -> {"off", "armed", "closing", "done"}]

NothingLeft(r) ==
    /\ server[r] = "closed" /\ browser[r] \in {"none", "closed"}
    /\ timer[r] # "armed"
    /\ failed[r] # written[r]

(* Every rendering ends, also one whose page hangs: with its server and its *)
(* browser gone and no timeout left to fire, resolved if the file is        *)
(* complete and rejected if not.                                            *)
EveryRenderEnds ==
    \A r \in Renders : Awaits(r, "server") ~> (Awaits(r, "settled") /\ NothingLeft(r))
==============================================================================
