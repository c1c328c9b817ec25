------------------------------ MODULE Accounts ------------------------------
(***************************************************************************)
(* Accounts and sessions: internal/auth and internal/admin.  Every request *)
(* is authenticated with a token, by the copy of the user that Redis keeps *)
(* for it or else by the row of the session, and what it does is a         *)
(* sequence of statements on PostgreSQL and of commands on Redis, among    *)
(* those of other requests.  A Redis command may fail, which most calls    *)
(* ignore; a failed statement or a dead process ends a request anywhere.   *)
(*                                                                         *)
(* Not modelled: passwords and their reset, the log of audits, the end of  *)
(* a session by time.  A student and a teacher are the same here.          *)
(***************************************************************************)
EXTENDS Naturals, FiniteSets

CONSTANTS
    Users,      \* addresses of accounts
    Tokens,     \* of sessions
    Changes,    \* of role and status that updates ask for
    Requests,   \* API calls that may run at one time
    Null

VARIABLES
    users,     \* the table users
    sessions,  \* the table sessions, by token_hash
    cache,     \* the tokens with a copy of their user in Redis
    held,      \* the tokens that a login answered
    rpc,       \* next step of each request
    rmem,      \* what each request holds in memory
    alone,     \* history: requests without another one and without a failure
    crossed,   \* history: updates of a user that another one, or the
               \* verification of that user, has met
    live       \* history: requests whose user was active at some time in them

tables  == <<users, sessions, held>>
history == <<alone, crossed, live>>
avars   == <<tables, cache, rpc, rmem, history>>

Roles == {"admin", "other"}

Status == {"absent", "pending", "active", "suspended", "deleted"}

User == [role: Roles, status: Status, token: BOOLEAN]   \* of verification

Session == [user: Users \cup {Null}, revoked: BOOLEAN]

\* A field that the call does not name is Null.
Change == [role: Roles \cup {Null}, status: (Status \ {"absent"}) \cup {Null}]

NoChange == [role |-> Null, status |-> Null]

ASSUME AccountsAssumption ==
    /\ Null \notin Users \cup Tokens /\ Changes \subseteq Change
    /\ IsFiniteSet(Users)

RPC == {"idle", "get", "fresh", "session", "owner", "save", "me", "drop",
        "revokeToken", "findOne", "list", "revoke", "delete", "find", "current",
        "count", "write", "lookup", "insert", "admins", "verify", "mark",
        "login", "create", "store", "done"}

AdminOps == {"revokeOne", "revokeAll", "update", "staff"}

Memory == [op:     AdminOps \cup {"me", "logout", "register", "bootstrap", "verify", "login"},
           token:  Tokens \cup {Null},       \* of the caller, or of the login
           actor:  Users \cup {Null},        \* whose token it is
           target: Users \cup {Null},
           one:    Tokens \cup {Null},       \* the session to revoke
           change: Change,
           row:    User,                     \* of the target, as it will be written
           was:    Status,                   \* of the target, as it was read
           list:   SUBSET Tokens]            \* still to be deleted from Redis

NoUser == [role |-> "other", status |-> "absent", token |-> FALSE]

Nothing == [op |-> "me", token |-> Null, actor |-> Null, target |-> Null, one |-> Null,
            change |-> NoChange, row |-> NoUser, was |-> "absent", list |-> {}]

Init ==
    /\ users = [u \in Users |-> NoUser]
    /\ sessions = [t \in Tokens |-> [user |-> Null, revoked |-> FALSE]]
    /\ cache = {} /\ held = {}
    /\ rpc = [r \in Requests |-> "idle"]
    /\ rmem = [r \in Requests |-> Nothing]
    /\ alone = {} /\ crossed = {} /\ live = {}

Running == {r \in Requests : rpc[r] # "idle"}

\* FindUserByID and FindUserByEmail do not find a deleted user.
Findable(u) == users[u].status \notin {"absent", "deleted"}

ActiveAdmins == {u \in Users : users[u].role = "admin" /\ users[u].status = "active"}

SessionsOf(u) == {t \in Tokens : sessions[t].user = u}

-----------------------------------------------------------------------------
(* Control of a request *)

Go(r, step) == rpc' = [rpc EXCEPT ![r] = step]

Over(r) == /\ Go(r, "idle") /\ rmem' = [rmem EXCEPT ![r] = Nothing]
           /\ alone' = alone \ {r} /\ crossed' = crossed \ {r} /\ live' = live \ {r}

Begin(r, step, call) ==
    /\ rpc[r] = "idle"
    /\ Go(r, step)
    /\ rmem' = [rmem EXCEPT ![r] = call]
    /\ alone' = IF Running = {} THEN {r} ELSE {}
    /\ live' = live \cup {s \in {r} : call.actor # Null /\ users[call.actor].status = "active"}
    /\ UNCHANGED <<tables, cache, crossed>>

\* A command on Redis whose failure is ignored.
Redis(r, then) ==
    \/ cache' = then /\ UNCHANGED alone
    \/ cache' = cache /\ alone' = alone \ {r}

-----------------------------------------------------------------------------
(* AuthMiddleware and RequireRole *)

\* The client of a token calls an endpoint.
BeginCall(r, t, call) ==
    /\ t \in held
    /\ Begin(r, "get", [call EXCEPT !.token = t, !.actor = sessions[t].user])

BeginMe(r) == \E t \in Tokens : BeginCall(r, t, Nothing)

BeginLogout(r) == \E t \in Tokens : BeginCall(r, t, [Nothing EXCEPT !.op = "logout"])

BeginRevoke(r) ==
    \E t \in Tokens :
        \/ \E o \in Tokens :
              /\ sessions[o].user # Null
              /\ BeginCall(r, t, [Nothing EXCEPT !.op = "revokeOne", !.one = o])
        \/ \E u \in Users :
              BeginCall(r, t, [Nothing EXCEPT !.op = "revokeAll", !.target = u])

BeginUpdate(r) ==
    \E t \in Tokens, u \in Users, change \in Changes :
        BeginCall(r, t, [Nothing EXCEPT !.op = "update", !.target = u, !.change = change])

BeginStaff(r) ==
    \E t \in Tokens, u \in Users, role \in Roles :
        BeginCall(r, t, [Nothing EXCEPT !.op = "staff", !.target = u,
                                        !.row.role = role, !.row.status = "active"])

Get(r) ==
    /\ rpc[r] = "get"
    /\ \/ rmem[r].token \in cache /\ Go(r, "fresh") /\ UNCHANGED alone
       \/ rmem[r].token \notin cache /\ Go(r, "session") /\ UNCHANGED alone
       \/ rmem[r].token \in cache /\ Go(r, "session") /\ alone' = alone \ {r}
    /\ UNCHANGED <<tables, cache, rmem, crossed, live>>

\* The first step of each handler.
Handler(op) ==
    CASE op = "me"        -> "me"
      [] op = "logout"    -> "drop"
      [] op = "revokeOne" -> "findOne"
      [] op = "revokeAll" -> "list"
      [] op = "update"    -> "find"
      [] op = "staff"     -> "lookup"

\* RequireRole, with the role that was just read.
MayCall(r) == rmem[r].op \in AdminOps => users[rmem[r].actor].role = "admin"

\* The copy in Redis only says which user it is.
IsActive_AsCached(r) == rpc[r] = "fresh" \/ users[rmem[r].actor].status = "active"

IsActive(r) == users[rmem[r].actor].status = "active"

FindFresh(r) ==
    /\ rpc[r] = "fresh"
    /\ IF IsActive(r) /\ MayCall(r)
       THEN Go(r, Handler(rmem[r].op)) /\ UNCHANGED <<rmem, history>>
       ELSE Over(r)
    /\ UNCHANGED <<tables, cache>>

FindSession(r) ==
    /\ rpc[r] = "session"
    /\ IF sessions[rmem[r].token].revoked
       THEN Over(r)
       ELSE Go(r, "owner") /\ UNCHANGED <<rmem, history>>
    /\ UNCHANGED <<tables, cache>>

\* A user without the role is still copied to Redis.
FindOwner(r) ==
    /\ rpc[r] = "owner"
    /\ IF IsActive(r)
       THEN /\ Go(r, "save")
            /\ rmem' = IF MayCall(r) THEN rmem ELSE [rmem EXCEPT ![r].op = "me"]
            /\ UNCHANGED history
       ELSE Over(r)
    /\ UNCHANGED <<tables, cache>>

Save(r) ==
    /\ rpc[r] = "save"
    /\ Redis(r, cache \cup {rmem[r].token})
    /\ Go(r, Handler(rmem[r].op))
    /\ UNCHANGED <<tables, rmem, crossed, live>>

\* Any endpoint that only asks for a user.
Me(r) == rpc[r] = "me" /\ Over(r) /\ UNCHANGED <<tables, cache>>

\* The answer of a call that changed something.
Answer(r) == rpc[r] = "done" /\ Over(r) /\ UNCHANGED <<tables, cache>>

-----------------------------------------------------------------------------
(* Logout, RevokeSession and revokeAllSessionsForUser *)

Revoked(set) ==
    sessions' = [t \in Tokens |-> [sessions[t] EXCEPT !.revoked = @ \/ t \in set]]

Drop(r) ==
    /\ rpc[r] = "drop"
    /\ Redis(r, cache \ {rmem[r].token})
    /\ Go(r, "revokeToken")
    /\ UNCHANGED <<tables, rmem, crossed, live>>

RevokeToken(r) ==
    /\ rpc[r] = "revokeToken"
    /\ Revoked({rmem[r].token})
    /\ Go(r, "done")
    /\ UNCHANGED <<users, held, cache, rmem, history>>

RevokeSession(r) ==
    /\ rpc[r] = "findOne"
    /\ Revoked({rmem[r].one})
    /\ Go(r, "delete")
    /\ rmem' = [rmem EXCEPT ![r].list = {rmem[r].one}]
    /\ UNCHANGED <<users, held, cache, history>>

\* The sessions that were revoked before are listed too.
Listed_Unrevoked(u) == {t \in SessionsOf(u) : ~sessions[t].revoked}

Listed(u) == SessionsOf(u)

ListSessions(r) ==
    /\ rpc[r] = "list"
    /\ Go(r, "revoke")
    /\ rmem' = [rmem EXCEPT ![r].list = Listed(rmem[r].target)]
    /\ UNCHANGED <<tables, cache, history>>

RevokeSessionsByUser(r) ==
    /\ rpc[r] = "revoke"
    /\ Revoked(SessionsOf(rmem[r].target))
    /\ Go(r, "delete")
    /\ UNCHANGED <<users, held, cache, rmem, history>>

Delete(r) ==
    /\ rpc[r] = "delete"
    /\ \/ \E t \in rmem[r].list :
             /\ Redis(r, cache \ {t})
             /\ rmem' = [rmem EXCEPT ![r].list = @ \ {t}]
             /\ UNCHANGED rpc
       \/ rmem[r].list = {} /\ Go(r, "done") /\ UNCHANGED <<cache, rmem, alone>>
    /\ UNCHANGED <<tables, crossed, live>>

-----------------------------------------------------------------------------
(* UpdateUser and DeleteUser *)

Updates == {r \in Requests : rpc[r] \in {"current", "count", "write"}}

Changed(row, change) ==
    [row EXCEPT !.role   = IF change.role = Null THEN @ ELSE change.role,
                !.status = IF change.status = Null THEN @ ELSE change.status]

IsActiveAdmin(row) == row.role = "admin" /\ row.status = "active"

FindUser(r) ==
    /\ rpc[r] = "find"
    /\ LET u    == rmem[r].target
           next == Changed(users[u], rmem[r].change)
       IN  IF Findable(u) /\ (u = rmem[r].actor => IsActiveAdmin(next))
           THEN /\ Go(r, IF IsActiveAdmin(next) THEN "write" ELSE "current")
                /\ rmem' = [rmem EXCEPT ![r].row = next, ![r].was = users[u].status,
                                        ![r].change = NoChange]   \* it is in the row
                /\ crossed' = crossed \cup (IF Updates = {} THEN {} ELSE Updates \cup {r})
                /\ UNCHANGED <<alone, live>>
           ELSE Over(r)
    /\ UNCHANGED <<tables, cache>>

\* protectLastActiveAdmin reads the user again, then counts.
FindCurrent(r) ==
    /\ rpc[r] = "current"
    /\ IF Findable(rmem[r].target)
       THEN /\ Go(r, IF rmem[r].target \in ActiveAdmins THEN "count" ELSE "write")
            /\ UNCHANGED <<rmem, history>>
       ELSE Over(r)
    /\ UNCHANGED <<tables, cache>>

AnotherRemains_Any == Cardinality(ActiveAdmins) >= 1

AnotherRemains == Cardinality(ActiveAdmins) > 1

CountActiveAdmins(r) ==
    /\ rpc[r] = "count"
    /\ IF AnotherRemains
       THEN Go(r, "write") /\ UNCHANGED <<rmem, history>>
       ELSE Over(r)
    /\ UNCHANGED <<tables, cache>>

\* Whose user has been active since their call began.
StillLive == live' = live \cup {s \in Running : /\ rmem[s].actor # Null
                                                /\ users'[rmem[s].actor].status = "active"}

EndsSessions(r) == rmem[r].was = "active" /\ rmem[r].row.status \in {"suspended", "deleted"}

\* Role and status as they were read, but for the change.
UpdateUser(r) ==
    /\ rpc[r] = "write"
    /\ users' = [users EXCEPT ![rmem[r].target].role = rmem[r].row.role,
                              ![rmem[r].target].status = rmem[r].row.status]
    /\ Go(r, IF EndsSessions(r) THEN "list" ELSE "done")
    /\ StillLive
    /\ UNCHANGED <<sessions, held, cache, rmem, alone, crossed>>

-----------------------------------------------------------------------------
(* Register, createStaffUser, BootstrapAdmin, VerifyEmail and Login *)

BeginRegister(r) ==
    \E u \in Users :
        Begin(r, "lookup", [Nothing EXCEPT !.op = "register", !.target = u,
                                           !.row.status = "pending", !.row.token = TRUE])

BeginBootstrap(r) ==
    \E u \in Users :
        Begin(r, "admins", [Nothing EXCEPT !.op = "bootstrap", !.target = u,
                                           !.row.role = "admin", !.row.status = "active"])

CountAdmins(r) ==
    /\ rpc[r] = "admins"
    /\ IF ActiveAdmins = {} THEN Go(r, "insert") /\ UNCHANGED <<rmem, history>> ELSE Over(r)
    /\ UNCHANGED <<tables, cache>>

FindEmail(r) ==
    /\ rpc[r] = "lookup"
    /\ IF Findable(rmem[r].target)
       THEN Over(r)
       ELSE Go(r, "insert") /\ UNCHANGED <<rmem, history>>
    /\ UNCHANGED <<tables, cache>>

\* The index on the address holds deleted users too.
CreateUser(r) ==
    /\ rpc[r] = "insert"
    /\ \/ /\ users[rmem[r].target].status = "absent"
          /\ users' = [users EXCEPT ![rmem[r].target] = rmem[r].row]
          /\ Go(r, "done")
          /\ UNCHANGED <<rmem, history>>
       \/ users[rmem[r].target].status # "absent" /\ Over(r) /\ UNCHANGED users
    /\ UNCHANGED <<sessions, held, cache>>

BeginVerify(r) ==
    \E u \in Users : Begin(r, "verify", [Nothing EXCEPT !.op = "verify", !.target = u])

FindPending(r) ==
    /\ rpc[r] = "verify"
    /\ IF users[rmem[r].target].token /\ users[rmem[r].target].status = "pending"
       THEN Go(r, "mark") /\ UNCHANGED <<rmem, history>>
       ELSE Over(r)
    /\ UNCHANGED <<tables, cache>>

\* Whatever the status is by then.
MarkEmailVerified(r) ==
    /\ rpc[r] = "mark"
    /\ users' = [users EXCEPT ![rmem[r].target].status = "active",
                              ![rmem[r].target].token = FALSE]
    /\ Go(r, "done")
    /\ crossed' = crossed \cup {s \in Updates : rmem[s].target = rmem[r].target}
    /\ StillLive
    /\ UNCHANGED <<sessions, held, cache, rmem, alone>>

BeginLogin(r) ==
    \E u \in Users : Begin(r, "login", [Nothing EXCEPT !.op = "login", !.target = u])

MayLogin_NotSuspended(u) == users[u].status # "suspended"

MayLogin(u) == users[u].status = "active"

FindLogin(r) ==
    /\ rpc[r] = "login"
    /\ IF MayLogin(rmem[r].target)
       THEN Go(r, "create") /\ UNCHANGED <<rmem, history>>
       ELSE Over(r)
    /\ UNCHANGED <<tables, cache>>

CreateSession(r) ==
    /\ rpc[r] = "create"
    /\ \E t \in SessionsOf(Null) :
          /\ sessions' = [sessions EXCEPT ![t].user = rmem[r].target]
          /\ rmem' = [rmem EXCEPT ![r].token = t]
    /\ Go(r, "store")
    /\ UNCHANGED <<users, held, cache, history>>

\* Here a failed command is the answer (Abort).
StoreLogin(r) ==
    /\ rpc[r] = "store"
    /\ cache' = cache \cup {rmem[r].token}
    /\ held' = held \cup {rmem[r].token}
    /\ Over(r)
    /\ UNCHANGED <<users, sessions>>

-----------------------------------------------------------------------------

RequestStep(r) ==
    \/ Get(r)          \/ FindFresh(r)            \/ FindSession(r)
    \/ FindOwner(r)    \/ Save(r)                 \/ Me(r)
    \/ Drop(r)         \/ RevokeToken(r)          \/ RevokeSession(r)
    \/ ListSessions(r) \/ RevokeSessionsByUser(r) \/ Delete(r)
    \/ FindUser(r)     \/ FindCurrent(r)          \/ CountActiveAdmins(r)
    \/ UpdateUser(r)   \/ CountAdmins(r)          \/ FindEmail(r)
    \/ CreateUser(r)   \/ FindPending(r)          \/ MarkEmailVerified(r)
    \/ FindLogin(r)    \/ CreateSession(r)        \/ StoreLogin(r)
    \/ Answer(r)

Abort(r) == rpc[r] # "idle" /\ Over(r) /\ UNCHANGED <<tables, cache>>

\* A key of Redis is gone: its time to live, a restart.
Evict(t) ==
    /\ t \in cache
    /\ cache' = cache \ {t}
    /\ UNCHANGED <<tables, rpc, rmem, history>>

Next ==
    \/ \E r \in Requests : BeginMe(r)
    \/ \E r \in Requests : BeginLogout(r)
    \/ \E r \in Requests : BeginRevoke(r)
    \/ \E r \in Requests : BeginUpdate(r)
    \/ \E r \in Requests : BeginStaff(r)
    \/ \E r \in Requests : BeginRegister(r)
    \/ \E r \in Requests : BeginBootstrap(r)
    \/ \E r \in Requests : BeginVerify(r)
    \/ \E r \in Requests : BeginLogin(r)
    \/ \E r \in Requests : RequestStep(r)
    \/ \E r \in Requests : Abort(r)
    \/ \E t \in Tokens : Evict(t)

Spec == Init /\ [][Next]_avars

-----------------------------------------------------------------------------
(* Properties *)

AccountsTypeOK ==
    /\ users \in [Users -> User]
    /\ sessions \in [Tokens -> Session]
    /\ cache \cup held \subseteq Tokens \ SessionsOf(Null)
    /\ rpc \in [Requests -> RPC]
    /\ rmem \in [Requests -> Memory]
    /\ alone \cup crossed \cup live \subseteq Running
    /\ \A t \in Tokens \ SessionsOf(Null) : users[sessions[t].user].status # "absent"

\* The last active administrator only goes when two updates of users cross
\* between the count and the write, or an update crosses the verification of the
\* same user: updates one after the other never leave the platform without one,
\* not even those of callers whose own role was taken away after they were
\* authenticated.
AdminRemains ==
    [][ActiveAdmins # {} /\ ActiveAdmins' = {} =>
          \E r \in crossed : rpc[r] = "write" /\ rpc'[r] # "write"]_avars

\* A user who was suspended or deleted before a call began is not served by it,
\* although the sessions and their copies in Redis outlive the change: their
\* revocation follows it and may fail or never come.
OnlyActiveServed ==
    \A r \in Running :
        \/ rmem[r].actor = Null
        \/ rpc[r] \in {"get", "fresh", "session", "owner"}
        \/ r \in live

\* The sessions that a call is to end.
ToEnd(r) ==
    LET m == rmem[r]
    IN  CASE m.op = "logout"    -> {m.token}
          [] m.op = "revokeOne" -> {m.one}
          [] m.op = "revokeAll" -> SessionsOf(m.target)
          [] m.op = "update" /\ EndsSessions(r) -> SessionsOf(m.target)
          [] OTHER              -> {}

\* A revocation that runs alone and without a failure ends the sessions in both
\* stores, whatever revocations before it did in only one of them.
RevocationIsComplete ==
    \A r \in alone :
        rpc[r] = "done" => \A t \in ToEnd(r) : sessions[t].revoked /\ t \notin cache
=============================================================================
