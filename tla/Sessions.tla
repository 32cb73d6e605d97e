------------------------------- MODULE Sessions -------------------------------
(***************************************************************************)
(* Sessions of users in one of the three session stores: a Map in memory,  *)
(* a table of the database, a DynamoDB table.  HTTP requests log in, log   *)
(* out, restore the session of their cookie, prolong it and save it, an    *)
(* administrator logs a user out everywhere and expired rows are deleted,  *)
(* all of them query by query.  What a session holds is not told apart.    *)
(***************************************************************************)
EXTENDS Naturals

CONSTANTS
    Requests,   \* requests under way
    Sids,       \* session ids, each generated once
    Users,
    NoUser,     \* no user
    NoRow,      \* no row, no session object
    Lifetime,   \* of extend() and of the cookie
    DbLifetime, \* of a row the table store creates, in minutes where extend() has seconds
    MaxNow      \* bound: time

(* The session as it is stored, and the object a request has.               *)
SessionRows == [owner : Users \cup {NoUser}, expires : Nat, whole : BOOLEAN]

ASSUME SessionAssumption ==
    /\ NoUser \notin Users
    /\ NoRow \notin SessionRows
    /\ Sids # {}
    /\ {Lifetime, DbLifetime, MaxNow} \subseteq Nat

VARIABLES
    provider, \* memory, db or dynamo
    rows,     \* rows[s]: the stored session, its owner and its expiration, or NoRow
    now,
    op,       \* op[r]: what a request does next
    ssid,     \* ssid[r]: the session id it is about
    session,  \* session[r]: the session object it has, or NoRow
    read,     \* read[r]: ids or row an earlier query of its call has read
    userOf,   \* history: the user each session was made for
    ended     \* history: sessions deleted with no save of them under way

sessionVars == <<provider, rows, now, op, ssid, session, read, userOf, ended>>

(* Touching a DynamoDB item that is gone makes one without data, not whole. *)
Session(owner, expires) == [owner |-> owner, expires |-> expires, whole |-> TRUE]

SessionInit ==
    /\ provider \in {"memory", "db", "dynamo"}
    /\ rows = [s \in Sids |-> NoRow] /\ now = 0
    /\ op = [r \in Requests |-> "idle"]
    /\ ssid \in [Requests -> {CHOOSE s \in Sids : TRUE}]
    /\ session = [r \in Requests |-> NoRow]
    /\ read = [r \in Requests |-> NoRow]
    /\ userOf = [s \in Sids |-> NoUser]
    /\ ended = {}

Turn(r, from, to) == op[r] = from /\ op' = [op EXCEPT ![r] = to]
HasRow(s) == rows[s] # NoRow
Saving(s) == \E r \in Requests : ssid[r] = s /\ op[r] \in {"save", "upsert"}
Ending(S) == ended' = ended \cup {s \in S : userOf[s] # NoUser /\ ~Saving(s)}

(* A request comes in, with the cookie of some session or with none; the    *)
(* RbacMiddleware restores it if it is there and has not expired.  Only the *)
(* Map hands out the stored object, the tables one without its owner.       *)
Expired(s) == IF provider = "memory" THEN rows[s].expires <= now ELSE rows[s].expires < now

(* Mutant: the owner is restored with the session.                          *)
RestoredWithOwner(s) == rows[s]

Restored(s) == IF provider = "memory" THEN rows[s] ELSE Session(NoUser, rows[s].expires)

Restore(r, s) ==
    LET live == HasRow(s) /\ ~Expired(s)
    IN  /\ Turn(r, "idle", "handler")
        /\ userOf[s] # NoUser
        /\ live => rows[s].whole
        /\ ssid' = [ssid EXCEPT ![r] = s]
        /\ session' = [session EXCEPT ![r] = IF live THEN Restored(s) ELSE NoRow]
        /\ UNCHANGED <<provider, rows, now, read, userOf, ended>>

(* The handler returns.                                                     *)
Respond(r) ==
    /\ Turn(r, "handler", "idle")
    /\ session' = [session EXCEPT ![r] = NoRow]
    /\ UNCHANGED <<provider, rows, now, ssid, read, userOf, ended>>

(* LoginController.login: the session of the cookie is deleted first, then  *)
(* the credentials are checked, and a new session is saved.                 *)
Login(r) ==
    /\ \/ Turn(r, "handler", "relogin")
       \/ Turn(r, "idle", "authenticate")
    /\ UNCHANGED <<provider, rows, now, ssid, session, read, userOf, ended>>

Authenticated(r, s, u) ==
    /\ Turn(r, "authenticate", "save")
    /\ userOf[s] = NoUser
    /\ userOf' = [userOf EXCEPT ![s] = u]
    /\ ssid' = [ssid EXCEPT ![r] = s]
    /\ session' = [session EXCEPT ![r] = Session(u, now + Lifetime)]
    /\ UNCHANGED <<provider, rows, now, read, ended>>

AuthenticationFails(r) ==
    /\ Turn(r, "authenticate", "idle")
    /\ session' = [session EXCEPT ![r] = NoRow]
    /\ UNCHANGED <<provider, rows, now, ssid, read, userOf, ended>>

(* The session is changed and saved: the two factor check has passed.       *)
ChangeAndSave(r) ==
    /\ session[r] # NoRow
    /\ Turn(r, "handler", "save")
    /\ UNCHANGED <<provider, rows, now, ssid, session, read, userOf, ended>>

-----------------------------------------------------------------------------
(* save() of the table store looks the row up first.                        *)
SaveSelect(r) ==
    /\ provider = "db"
    /\ Turn(r, "save", "upsert")
    /\ read' = [read EXCEPT ![r] = rows[ssid[r]]]
    /\ UNCHANGED <<provider, rows, now, ssid, session, userOf, ended>>

(* What it writes: the row it found with the new data, or a new row.        *)
Upserted(found, object) ==
    IF found = NoRow THEN Session(object.owner, now + DbLifetime) ELSE found

Saved(r, written) ==
    /\ rows' = [rows EXCEPT ![ssid[r]] = written]
    /\ session' = [session EXCEPT ![r] = NoRow]
    /\ UNCHANGED <<provider, now, ssid, userOf>>

(* The column of the owner is NOT NULL.                                     *)
SaveUpsert(r) ==
    LET written == Upserted(read[r], session[r])
    IN  /\ Turn(r, "upsert", "idle")
        /\ IF written.owner = NoUser
             THEN session' = [session EXCEPT ![r] = NoRow]
                    /\ UNCHANGED <<provider, rows, now, ssid, userOf>>
             ELSE Saved(r, written)
        /\ read' = [read EXCEPT ![r] = NoRow]
        /\ UNCHANGED ended

(* The Map and DynamoDB store the session whatever is there.                *)
SavePut(r) ==
    /\ provider # "db"
    /\ Turn(r, "save", "idle")
    /\ Saved(r, session[r])
    /\ ended' = ended \ {ssid[r]}
    /\ UNCHANGED read

(* extend() and touch(): the Map stores the object, the table store updates *)
(* a row that is there, DynamoDB makes one that is not.                     *)
Touch(r) ==
    LET s == ssid[r]
        longer == [session[r] EXCEPT !.expires = now + Lifetime]
    IN  /\ session[r] # NoRow
        /\ Turn(r, "handler", "idle")
        /\ IF provider = "db" /\ ~HasRow(s)
             THEN UNCHANGED <<rows, ended>>
             ELSE /\ rows' = [rows EXCEPT ![s] =
                        IF provider = "memory" THEN longer
                        ELSE IF HasRow(s) THEN [@ EXCEPT !.expires = longer.expires]
                        ELSE [longer EXCEPT !.whole = FALSE]]
                  /\ ended' = ended \ {s}
        /\ session' = [q \in Requests |->
              IF q = r THEN NoRow
              ELSE IF provider = "memory" /\ ssid[q] = s /\ session[q] # NoRow THEN longer
              ELSE session[q]]
        /\ UNCHANGED <<provider, now, ssid, read, userOf>>

(* delete(): of logout, and of a login of someone who is logged in.         *)
Delete(r) ==
    /\ \/ Turn(r, "handler", "idle") /\ session[r] # NoRow
       \/ Turn(r, "relogin", "authenticate")
    /\ rows' = [rows EXCEPT ![ssid[r]] = NoRow]
    /\ session' = [session EXCEPT ![r] = NoRow]
    /\ Ending({ssid[r]})
    /\ UNCHANGED <<provider, now, ssid, read, userOf>>

(* A query of the call is refused.                                          *)
QueryRefused(r) ==
    /\ provider # "memory"
    /\ \E s \in {"save", "upsert", "relogin", "destroy"} : Turn(r, s, "idle")
    /\ session' = [session EXCEPT ![r] = NoRow]
    /\ read' = [read EXCEPT ![r] = NoRow]
    /\ UNCHANGED <<provider, rows, now, ssid, userOf, ended>>

-----------------------------------------------------------------------------
OwnedBy(u) == {s \in Sids : HasRow(s) /\ rows[s].owner = u}

(* logsOut(user): the Map deletes at once, the table store reads the ids    *)
(* first.  The filter of DynamoDB looks into a text and finds none.         *)
LogsOut(r, u) ==
    /\ provider # "dynamo"
    /\ IF provider = "memory"
         THEN /\ op[r] = "idle" /\ UNCHANGED <<op, read>>
              /\ rows' = [s \in Sids |-> IF s \in OwnedBy(u) THEN NoRow ELSE rows[s]]
              /\ Ending({s \in Sids : userOf[s] = u /\ HasRow(s)})
         ELSE /\ Turn(r, "idle", "destroy")
              /\ read' = [read EXCEPT ![r] =
                    [ids |-> OwnedBy(u), all |-> {s \in Sids : userOf[s] = u /\ HasRow(s)}]]
              /\ UNCHANGED <<rows, ended>>
    /\ UNCHANGED <<provider, now, ssid, session, userOf>>

(* ... and then deletes those: all that were there when it began should end.*)
LogsOutDestroy(r) ==
    /\ Turn(r, "destroy", "idle")
    /\ rows' = [s \in Sids |-> IF s \in read[r].ids THEN NoRow ELSE rows[s]]
    /\ Ending(read[r].all)
    /\ read' = [read EXCEPT ![r] = NoRow]
    /\ UNCHANGED <<provider, now, ssid, session, userOf>>

(* The timer of the table store, or the time to live of DynamoDB.           *)
Cleanup ==
    LET due == {s \in Sids : HasRow(s) /\ rows[s].expires <= now}
    IN  /\ provider # "memory"
        /\ due # {}
        /\ rows' = [s \in Sids |-> IF s \in due THEN NoRow ELSE rows[s]]
        /\ Ending(due)
        /\ UNCHANGED <<provider, now, op, ssid, session, read, userOf>>

Tick == now < MaxNow /\ now' = now + 1
    /\ UNCHANGED <<provider, rows, op, ssid, session, read, userOf, ended>>

SessionNext ==
    \/ \E r \in Requests :
          \/ \E s \in Sids : Restore(r, s) \/ \E u \in Users : Authenticated(r, s, u)
          \/ Respond(r) \/ Login(r) \/ AuthenticationFails(r) \/ ChangeAndSave(r)
          \/ SaveSelect(r) \/ SaveUpsert(r) \/ SavePut(r) \/ Touch(r) \/ Delete(r) \/ QueryRefused(r)
          \/ \E u \in Users : LogsOut(r, u)
          \/ LogsOutDestroy(r)
    \/ Cleanup \/ Tick

SessionSpec == SessionInit /\ [][SessionNext]_sessionVars
-----------------------------------------------------------------------------
SessionTypeOK ==
    /\ rows \in [Sids -> SessionRows \cup {NoRow}]
    /\ userOf \in [Sids -> Users \cup {NoUser}]
    /\ ended \subseteq Sids /\ now \in 0..MaxNow

(* A session that was deleted, by logout, by logging its user out           *)
(* everywhere or by the cleanup, while nobody was saving it, stays away; in *)
(* the table store for ever, in the others until it is saved anew.          *)
EndedStaysAway == \A s \in ended : ~HasRow(s)
==============================================================================
