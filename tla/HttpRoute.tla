------------------------------ MODULE HttpRoute ------------------------------
(***************************************************************************)
(* A request on its way through one route of a BaseController: policies,   *)
(* middlewares, arguments, action, response, and the handler of errors.    *)
(* Express calls the handlers in turn and is external, as are the client,  *)
(* the application's policies, middlewares and actions, and the files of   *)
(* the response templates.  Requests share none of this, so one is enough. *)
(***************************************************************************)
EXTENDS Naturals

CONSTANTS
    Policies,     \* what the route may declare
    Middlewares,  \* how many are enabled on it
    MaxParams     \* bound: parameters of its action

ASSUME HttpAssumption == Middlewares \in Nat /\ MaxParams \in Nat

VARIABLES
    route,    \* its declared policies and those isEnabled() lets through
    client,   \* what the request accepts, and the one fault of the configuration
    at,       \* the handler that runs
    doing,    \* what it waits for
    verdict,  \* verdict[p]: none, pending, fulfilled or rejected
    passed,   \* history: the handlers that have called next() without an error
    arg,      \* parameters extracted
    body,     \* unread, consumed by the form parser, or awaited once more
    payload,  \* callData.Payload: what the last parameter left there
    forms,    \* types of parameter whose handler keeps the parsed form
    reply,    \* res.locals.response
    good,     \* what the page under way is: ok or error
    answer    \* sent to the client: none, ok or error

requestVars == <<arg, body, payload, forms>>
pageVars == <<reply, good, answer>>
httpVars == <<route, client, at, doing, verdict, passed, arg, body, payload, forms, reply, good,
              answer>>

ActionAt == Middlewares + 2
ResponseAt == 2 * Middlewares + 3
ErrorAt == ResponseAt + 1

Faults == {"none", "no provider", "no error page", "circular error", "empty model"}

Routes == {r \in [declared : SUBSET Policies, enabled : SUBSET Policies] :
             r.enabled \subseteq r.declared}

HttpInit ==
    /\ route = [declared |-> {}, enabled |-> {}]
    /\ client = [accepts |-> "json", fault |-> "none"]
    /\ at = 1 /\ doing = "idle"
    /\ verdict = [p \in Policies |-> "none"]
    /\ passed = {}
    /\ arg = 0 /\ body = "unread" /\ payload = "empty" /\ forms = {}
    /\ reply = "none" /\ good = "ok" /\ answer = "none"

(* A client asks for a route: resolve() has pushed its handlers in order.   *)
Request ==
    /\ doing = "idle"
    /\ route' \in Routes
    /\ client' \in [accepts : {"html", "json", "other"}, fault : Faults]
    /\ doing' = "called"
    /\ UNCHANGED <<at, verdict, passed, requestVars, pageVars>>

(* Express: next() goes to the handler behind, next(err) to that of errors. *)
Continue ==
    /\ passed' = passed \cup {at}
    /\ at' = at + 1
    /\ doing' = "called"

Fail ==
    /\ at' = ErrorAt
    /\ doing' = "called"
    /\ UNCHANGED passed

(* The first handler asks all the enabled policies at once.                 *)
ExecutePolicies ==
    /\ at = 1 /\ doing = "called"
    /\ \/ route.declared = {} /\ Continue /\ UNCHANGED verdict
       \/ /\ route.declared # {}
          /\ verdict' = [p \in Policies |-> IF p \in route.enabled THEN "pending" ELSE "none"]
          /\ doing' = "policies"
          /\ UNCHANGED <<at, passed>>
    /\ UNCHANGED <<route, client, requestVars, pageVars>>

PolicySettles(p) ==
    /\ verdict[p] = "pending"
    /\ \E v \in {"fulfilled", "rejected"} : verdict' = [verdict EXCEPT ![p] = v]
    /\ UNCHANGED <<route, client, at, doing, passed, requestVars, pageVars>>

Settled(v) == \E p \in Policies : verdict[p] = v

(* Mutant: a route goes on unless one of its policies refused.              *)
LenientPolicies ==
    /\ doing = "policies"
    /\ ~Settled("pending")
    /\ \/ ~Settled("rejected") /\ Continue
       \/ Settled("rejected") /\ Fail
    /\ UNCHANGED <<route, client, verdict, requestVars, pageVars>>

(* One that is fulfilled is enough, and one that refuses is reported if     *)
(* there is none; with no policy enabled neither next() nor next(err).      *)
AllPoliciesSettled ==
    /\ doing = "policies"
    /\ ~Settled("pending")
    /\ \/ Settled("fulfilled") /\ Continue
       \/ ~Settled("fulfilled") /\ Settled("rejected") /\ Fail
    /\ UNCHANGED <<route, client, verdict, requestVars, pageVars>>

(* onBefore and onAfter of the middlewares, one after the other.            *)
InvokeMiddleware ==
    /\ at \in (2..ActionAt - 1) \cup (ActionAt + 1..ResponseAt - 1)
    /\ Continue \/ Fail
    /\ UNCHANGED <<route, client, verdict, requestVars, pageVars>>

(* _extractRouteArgs: a form is parsed for the first parameter that needs   *)
(* it and handed on in callData, which a parameter of the query replaces.   *)
(* The body can be read once: to parse it again is to wait for ever.        *)
NeedsForm(t) == t \in {"form", "file"}
HasForm(t) == t \in forms \/ payload = "form"

BodyParsed == IF body = "unread" THEN "consumed" ELSE "awaited"
PayloadLeft(t) ==
    CASE NeedsForm(t) -> "form" [] t = "query" -> "query" [] OTHER -> payload
Forget == arg' = 0 /\ payload' = "empty" /\ forms' = {}

ExtractArg(t) ==
    /\ at = ActionAt /\ doing = "called" /\ arg < MaxParams
    /\ body' = IF NeedsForm(t) /\ ~HasForm(t) THEN BodyParsed ELSE body
    /\ \/ /\ arg' = arg + 1
          /\ payload' = PayloadLeft(t)
          /\ forms' = IF NeedsForm(t) THEN forms \cup {t} ELSE forms
          /\ doing' = IF body' = "awaited" THEN "body" ELSE doing
          /\ UNCHANGED <<at, passed>>
       \/ body' # "awaited" /\ Fail /\ Forget
    /\ UNCHANGED <<route, client, verdict, pageVars>>

(* The action throws or rejects, or onResponse throws; or its result is     *)
(* left for the handler of responses.                                       *)
CallAction ==
    /\ at = ActionAt /\ doing = "called"
    /\ \/ Fail /\ UNCHANGED reply
       \/ Continue /\ reply' \in {"data", "template", "file", "undefined", "value"}
    /\ Forget
    /\ UNCHANGED <<route, client, verdict, body, good, answer>>
-----------------------------------------------------------------------------
Send(a) ==
    /\ answer' = a
    /\ doing' = "sent"
    /\ UNCHANGED <<at, passed, good>>

Await(what, g) ==
    /\ doing' = what
    /\ good' = g
    /\ UNCHANGED <<at, passed, answer>>

(* The last resort of __handle_error__: HttpConfig is no field of the       *)
(* controller, so for a client that takes html reading it throws once more; *)
(* for others the error is sent as it is, if it can be.                     *)
LastResort ==
    IF client.accepts = "html" \/ client.fault = "circular error"
    THEN Await("silence", good)
    ELSE Send("error")

(* An exception in execute() or in the function it answers.                 *)
Throws ==
    \/ at = ResponseAt /\ Fail /\ UNCHANGED <<good, answer>>
    \/ at = ErrorAt /\ LastResort

(* httpResponse: a template for a client that takes html, else json through *)
(* a transformer, else text; what a page or json shows is ok or an error.   *)
(* Text without a model is never sent.                                      *)
SendDefault(g) ==
    CASE client.accepts = "html" ->
            IF client.fault = "no provider" THEN Throws ELSE Await("template", g)
      [] client.accepts = "json" ->
            \/ Throws
            \/ ~(g = "error" /\ client.fault = "circular error") /\ Send(g)
            \/ Send("error")
      [] OTHER ->
            IF g = "error"
            THEN IF client.fault = "circular error" THEN Throws ELSE Send(g)
            ELSE IF client.fault = "empty model" THEN Await("silence", g) ELSE Send(g)

(* htmlResponse, of a template response or of httpResponse.                 *)
SendHtml(g) ==
    CASE client.accepts = "html" -> Await("rendering", g)
      [] client.fault = "no provider" -> Throws
      [] OTHER -> Await("plain page", "error")

(* execute() of a response with data, from a template, or of a file.        *)
Execute ==
    \/ reply = "data" /\ SendDefault("ok")
    \/ reply = "template" /\ SendHtml("ok")
    \/ reply = "file" /\ Send("ok")

(* __handle_response__: a result that is no response has no execute().      *)
HandleResponse ==
    /\ at = ResponseAt /\ doing = "called"
    /\ Throws \/ Execute
    /\ UNCHANGED <<route, client, verdict, requestVars, reply>>

(* Mutant: an error that no response is mapped to ends the chain.           *)
HandleMappedError ==
    /\ at = ErrorAt /\ doing = "called"
    /\ SendDefault("error") \/ Await("silence", good)
    /\ UNCHANGED <<route, client, verdict, requestVars, reply>>

(* __handle_error__: the response mapped to the error, or ServerError.      *)
HandleError ==
    /\ at = ErrorAt /\ doing = "called"
    /\ SendDefault("error")
    /\ UNCHANGED <<route, client, verdict, requestVars, reply>>

Template ==
    /\ doing = "template"
    /\ Await("rendering", good) \/ Await("error page", "error")
    /\ UNCHANGED <<route, client, verdict, requestVars, reply>>

Render ==
    /\ doing = "rendering"
    /\ Send(good) \/ Await("second page", "error")
    /\ UNCHANGED <<route, client, verdict, requestVars, reply>>

(* serverError.pug, in place of a template that cannot be fetched or        *)
(* rendered, or for a client that takes no html.  Nobody hears if it fails. *)
FetchErrorPage ==
    /\ doing \in {"error page", "second page", "plain page"}
    /\ client.fault # "no error page"
    /\ CASE doing = "error page" -> Await("rendering", "error")
         [] doing = "second page" -> Await("last page", "error")
         [] OTHER -> Send("error")
    /\ UNCHANGED <<route, client, verdict, requestVars, reply>>

(* It is rendered, or the embedded page is sent.                            *)
RenderLast ==
    /\ doing = "last page"
    /\ Send("error")
    /\ UNCHANGED <<route, client, verdict, requestVars, reply>>

HttpProgress ==
    \/ ExecutePolicies
    \/ \E p \in Policies : PolicySettles(p)
    \/ AllPoliciesSettled
    \/ InvokeMiddleware
    \/ \E t \in {"form", "file", "query", "other"} : ExtractArg(t)
    \/ CallAction
    \/ HandleResponse \/ HandleError
    \/ Template \/ Render \/ FetchErrorPage \/ RenderLast

HttpNext == Request \/ HttpProgress

(* Promises of the application settle and the event loop runs on.           *)
HttpFairness == WF_httpVars(HttpProgress)

HttpSpec == HttpInit /\ [][HttpNext]_httpVars /\ HttpFairness
-----------------------------------------------------------------------------
HttpTypeOK ==
    /\ at \in 1..ErrorAt
    /\ verdict \in [Policies -> {"none", "pending", "fulfilled", "rejected"}]
    /\ passed \subseteq 1..ResponseAt
    /\ answer \in {"none", "ok", "error"}

(* An action runs, and its parameters are read, only if the route has no    *)
(* policy or one that is enabled was fulfilled; and the client is told ok   *)
(* only if every handler before the response has done its part: a failure   *)
(* anywhere, in any order, is answered as one.                              *)
OkIsEarned ==
    /\ at = ActionAt \/ ActionAt \in passed =>
         route.declared = {} \/ \E p \in route.enabled : verdict[p] = "fulfilled"
    /\ answer = "ok" => passed = 1..ResponseAt - 1

(* What has to be so for an answer, beside promises that settle.            *)
CanAnswer ==
    /\ route.declared # {} => route.enabled # {}
    /\ client.fault # "no error page"
    /\ client.accepts = "html" => client.fault # "no provider"
    /\ client.accepts # "html" => client.fault # "circular error"
    /\ client.accepts = "other" => client.fault # "empty model"

(* Whatever fails on the way, every request is answered: the known ways not *)
(* to be are a route whose policies are all disabled, a form read twice,    *)
(* and the faults of a configuration that CanAnswer names.                  *)
EveryRequestAnswered ==
    doing = "called" /\ CanAnswer ~> (answer # "none" \/ body = "awaited")
==============================================================================
