----------------------------- MODULE UserActions -----------------------------
(***************************************************************************)
(* The actions of packages/rbac on one user: each loads the user with its  *)
(* metadata, changes that copy and stores the difference, by one UPDATE of *)
(* the changed columns and by one upsert per changed metadata key.  Calls  *)
(* overlap, and queries and events may fail.                               *)
(***************************************************************************)
EXTENDS Naturals, FiniteSets

CONSTANTS
    UserCalls,  \* calls under way
    Roles,
    NoCopy,     \* no user loaded
    MaxActions  \* bound: actions called, which number passwords and tokens

ASSUME UserAssumption == MaxActions \in Nat

VARIABLES
    user,     \* the row: active, deleted, roles, password, metadata
    task,     \* task[c]: the action a call performs
    arg,      \* arg[c]: its role, password or token
    stage,    \* stage[c]: idle, load, change, authenticate, metadata, emit
    loaded,     \* loaded[c]: the user it has loaded, or NoCopy
    unsaved,  \* unsaved[c]: the metadata it still has to store
    actions,  \* actions called so far
    asked,    \* history: active, roles and password as the calls that were stored asked
    stale,    \* history: a grant or revoke wrote roles that had changed since it read them
    bans      \* history: bans that were answered

userVars == <<user, task, arg, stage, loaded, unsaved, actions, asked, stale, bans>>

Plain == {"activate", "deactivate", "delete", "ban", "unban", "login"}
WithRole == {"grant", "revoke"}
WithValue == {"password", "confirm"}
Metadata == {"is_banned", "start_date", "token", "last_attempt"}
None == 0

UserInit ==
    /\ user = [active |-> TRUE, deleted |-> FALSE, roles |-> {}, password |-> None,
               metadata |-> [k \in Metadata |-> None]]
    /\ task = [c \in UserCalls |-> "none"]
    /\ arg = [c \in UserCalls |-> None]
    /\ stage = [c \in UserCalls |-> "idle"]
    /\ loaded = [c \in UserCalls |-> NoCopy]
    /\ unsaved = [c \in UserCalls |-> {}]
    /\ actions = 0 /\ bans = {}
    /\ asked = [active |-> TRUE, roles |-> {}, password |-> None]
    /\ stale = FALSE

InStage(c, s) == stage[c] = s
ToStage(c, s) == stage' = [stage EXCEPT ![c] = s]
doing == <<task, arg>>
ghosts == <<asked, stale, bans>>

Over(c) ==
    /\ ToStage(c, "idle")
    /\ loaded' = [loaded EXCEPT ![c] = NoCopy]
    /\ unsaved' = [unsaved EXCEPT ![c] = {}]

(* An action is called.                                                     *)
CallAction(c, what, with) ==
    /\ InStage(c, "idle")
    /\ actions < MaxActions /\ actions' = actions + 1
    /\ task' = [task EXCEPT ![c] = what]
    /\ arg' = [arg EXCEPT ![c] = with]
    /\ ToStage(c, "load")
    /\ UNCHANGED <<user, loaded, unsaved, ghosts>>

(* _user(): the row and its metadata.                                       *)
LoadUser(c) ==
    /\ InStage(c, "load")
    /\ loaded' = [loaded EXCEPT ![c] = user]
    /\ ToStage(c, CASE task[c] \in {"ban", "request"} -> "set"
                    [] task[c] = "login" -> "authenticate"
                    [] OTHER -> "change")
    /\ UNCHANGED <<user, doing, unsaved, actions, ghosts>>

(* A copy of the user with what the action assigns; roles are a new array,  *)
(* which is always a change.                                                *)
Changed(c) ==
    LET u == loaded[c]
    IN  CASE task[c] = "activate" -> [u EXCEPT !.active = TRUE]
          [] task[c] = "deactivate" -> [u EXCEPT !.active = FALSE]
          [] task[c] = "delete" -> [u EXCEPT !.deleted = TRUE]
          [] task[c] = "grant" -> [u EXCEPT !.roles = @ \cup {arg[c]}]
          [] task[c] = "revoke" -> [u EXCEPT !.roles = @ \ {arg[c]}]
          [] OTHER -> [u EXCEPT !.password = actions]

(* What the action may not be done on: nothing would change, or the token   *)
(* of the reset is another one (or too old).                                *)
Refuses(c) ==
    \/ task[c] \in {"activate", "deactivate"} /\ Changed(c) = loaded[c]
    \/ task[c] = "confirm" /\ (loaded[c].metadata["token"] # arg[c] \/ arg[c] = None)

(* Mutant: every column of the copy.                                        *)
SentAll(c) == {"active", "roles", "password"}

(* The columns of the UPDATE: those the action has assigned.                *)
Sent(c) ==
    CASE task[c] \in {"activate", "deactivate"} -> {"active"}
      [] task[c] \in WithRole -> {"roles"}
      [] task[c] \in WithValue -> {"password"}
      [] OTHER -> {}

(* The UPDATE: what the call was asked is now what the row should say.      *)
UpdateUser(c) ==
    LET new == Changed(c)
        columns == Sent(c)
    IN  /\ InStage(c, "change")
        /\ ~Refuses(c) /\ task[c] # "unban"
        /\ user' = [user EXCEPT
              !.active = IF "active" \in columns THEN new.active ELSE @,
              !.roles = IF "roles" \in columns THEN new.roles ELSE @,
              !.password = IF "password" \in columns THEN new.password ELSE @,
              !.deleted = @ \/ new.deleted]
        /\ asked' = [asked EXCEPT
              !.active = IF task[c] \in {"activate", "deactivate"} THEN new.active ELSE @,
              !.roles = IF task[c] = "grant" THEN @ \cup {arg[c]}
                        ELSE IF task[c] = "revoke" THEN @ \ {arg[c]} ELSE @,
              !.password = IF task[c] \in WithValue THEN new.password ELSE @]
        /\ stale' = (stale \/ (task[c] \in WithRole /\ loaded[c].roles # user.roles))
        /\ unsaved' = [unsaved EXCEPT ![c] = IF task[c] \in WithValue THEN {"last_attempt"} ELSE {}]
        /\ ToStage(c, "metadata")
        /\ UNCHANGED <<doing, loaded, actions, bans>>

(* The action throws instead: unban() always does, its check hands no user  *)
(* on to the step that would store it.                                      *)
ActionRefused(c) ==
    /\ InStage(c, "change")
    /\ Refuses(c) \/ task[c] = "unban"
    /\ Over(c)
    /\ UNCHANGED <<user, doing, actions, ghosts>>

(* Metadata is assigned in the copy: a user that is banned is not banned    *)
(* again.                                                                   *)
SetMetadata(c) ==
    /\ InStage(c, "set")
    /\ IF task[c] = "ban" /\ loaded[c].metadata["is_banned"] # None
         THEN Over(c)
         ELSE /\ unsaved' = [unsaved EXCEPT ![c] =
                    IF task[c] = "ban" THEN {"is_banned"} ELSE {"start_date", "token"}]
              /\ ToStage(c, "metadata")
              /\ UNCHANGED loaded
    /\ UNCHANGED <<user, doing, actions, ghosts>>

(* Metadata.update() stores them one by one, then the call goes on.         *)
StoreMetadata(c, k) ==
    /\ InStage(c, "metadata") /\ k \in unsaved[c]
    /\ user' = [user EXCEPT !.metadata[k] = IF k = "token" THEN arg[c] ELSE 1]
    /\ unsaved' = [unsaved EXCEPT ![c] = @ \ {k}]
    /\ UNCHANGED <<doing, stage, loaded, actions, ghosts>>

MetadataStored(c) ==
    /\ InStage(c, "metadata") /\ unsaved[c] = {}
    /\ ToStage(c, "emit")
    /\ UNCHANGED <<user, doing, loaded, unsaved, actions, ghosts>>

(* authenticate() loads the user again, if it is not deleted, and compares. *)
Admitted(u, password) ==
    ~u.deleted /\ u.password = password /\ u.metadata["is_banned"] = None /\ u.active

(* LastLoginAt is then stored, or the failed login reported and thrown.     *)
Authenticate(c, password) ==
    /\ InStage(c, "authenticate")
    /\ IF Admitted(user, password)
         THEN ToStage(c, "emit") /\ UNCHANGED <<loaded, unsaved>>
         ELSE Over(c)
    /\ UNCHANGED <<user, doing, actions, ghosts>>

(* The event of the action is emitted and the call answered.                *)
Emit(c) ==
    /\ InStage(c, "emit")
    /\ Over(c)
    /\ bans' = IF task[c] = "ban" THEN bans \cup {c} ELSE bans
    /\ UNCHANGED <<user, doing, actions, asked, stale>>

(* Any query, or the queue, fails: the call throws where it is.             *)
ActionFails(c) ==
    /\ ~InStage(c, "idle")
    /\ Over(c)
    /\ UNCHANGED <<user, doing, actions, ghosts>>

UserNext ==
    \E c \in UserCalls :
        \/ \E what \in Plain : CallAction(c, what, None)
        \/ \E what \in WithRole, role \in Roles : CallAction(c, what, role)
        \/ CallAction(c, "request", actions + 1)
        \/ \E what \in WithValue : CallAction(c, what, user.metadata["token"])
        \/ LoadUser(c) \/ UpdateUser(c) \/ ActionRefused(c) \/ SetMetadata(c)
        \/ \E k \in Metadata : StoreMetadata(c, k)
        \/ \E password \in {None, user.password} : Authenticate(c, password)
        \/ MetadataStored(c) \/ Emit(c) \/ ActionFails(c)

UserSpec == UserInit /\ [][UserNext]_userVars
-----------------------------------------------------------------------------
(* What was asked of the user by the calls that stored their change is what *)
(* its row says, however they overlap and fail: no action undoes another    *)
(* that changed something else, and an answered ban is in force.  Roles are *)
(* one column, which overlapping grants and revokes do overwrite.           *)
EveryChangeStands ==
    /\ user.active = asked.active /\ user.password = asked.password
    /\ stale \/ user.roles = asked.roles
    /\ bans # {} => user.metadata["is_banned"] # None
==============================================================================
