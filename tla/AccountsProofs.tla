--------------------------- MODULE AccountsProofs ---------------------------
(***************************************************************************)
(* Who is served, what a revocation ends and who remains an administrator, *)
(* for any number of users, of sessions and of requests that run at once.  *)
(***************************************************************************)
EXTENDS Accounts, FiniteSetTheorems, TLAPS

-----------------------------------------------------------------------------
(* Types *)

\* The fields of what a request holds.
LEMMA MemoryFields ==
    ASSUME NEW m \in Memory
    PROVE  /\ m.op \in AdminOps \cup {"me", "logout", "register", "bootstrap", "verify", "login"}
           /\ m.token \in Tokens \cup {Null} /\ m.actor \in Users \cup {Null}
           /\ m.target \in Users \cup {Null} /\ m.one \in Tokens \cup {Null}
           /\ m.change \in Change /\ m.row \in User /\ m.was \in Status
           /\ m.list \subseteq Tokens
           /\ m.row.role \in Roles /\ m.row.status \in Status /\ m.row.token \in BOOLEAN
  BY DEF Memory, User

\* What an idle request holds.
LEMMA NothingType == Nothing \in Memory /\ NoUser \in User
  BY DEF Nothing, Memory, NoUser, User, NoChange, Change, Roles, Status

\* The steps of the authentication, before the handler.
AtDoor == {"get", "fresh", "session", "owner", "save"}

\* What a request holds at a step: whose token it came with, the account that it
\* works on, and that this account exists once it was found.
Shape(r) ==
    LET m == rmem[r]
    IN  /\ m.actor # Null => users[m.actor].status # "absent"
        /\ rpc[r] \in AtDoor =>
              m.actor # Null /\ m.op \in AdminOps \cup {"me", "logout"}
        /\ rpc[r] \in AtDoor \cup {"drop", "revokeToken", "store"} =>
              m.token # Null /\ sessions[m.token].user # Null
        /\ m.op = "revokeOne" => m.one # Null /\ sessions[m.one].user # Null
        /\ m.op \notin {"me", "logout", "revokeOne"} => m.target # Null
        /\ m.op \in {"staff", "register", "bootstrap"} => m.row.status # "absent"
        /\ rpc[r] \in {"drop", "revokeToken"} => m.op = "logout"
        /\ rpc[r] = "findOne" => m.op = "revokeOne"
        /\ rpc[r] \in {"list", "revoke"} => m.op \in {"revokeAll", "update"}
        /\ rpc[r] = "delete" => m.op \in {"revokeOne", "revokeAll", "update"}
        /\ rpc[r] \in {"find", "current", "count", "write"} => m.op = "update"
        /\ rpc[r] \in {"current", "count", "write"} =>
              m.row.status # "absent" /\ users[m.target].status # "absent"
        /\ rpc[r] \in {"admins", "lookup", "insert"} =>
              m.op \in {"staff", "register", "bootstrap"}
        /\ rpc[r] \in {"verify", "mark"} => m.op = "verify"
        /\ rpc[r] \in {"login", "create", "store"} => m.op = "login"
        /\ rpc[r] = "create" => users[m.target].status # "absent"

TypeInv == AccountsTypeOK /\ \A r \in Requests : Shape(r)

\* A step of one request leaves what the others hold alone.
Mine(r) ==
    \A s \in Requests \ {r} : rpc'[s] = rpc[s] /\ rmem'[s] = rmem[s]

\* Accounts and sessions that are there stay there, and so do the users of sessions.
Stay ==
    /\ \A u \in Users : users[u].status # "absent" => users'[u].status # "absent"
    /\ \A t \in Tokens : sessions[t].user # Null => sessions'[t].user = sessions[t].user

\* What an account is to a request that its steps do not touch.
LEMMA ShapeKept ==
    ASSUME TypeInv, Stay, NEW s \in Requests, rpc'[s] = rpc[s], rmem'[s] = rmem[s]
    PROVE  Shape(s)'
<1>1. Shape(s) /\ rmem[s] \in Memory
  BY DEF TypeInv, AccountsTypeOK
<1>2. /\ rmem[s].token \in Tokens \cup {Null} /\ rmem[s].actor \in Users \cup {Null}
      /\ rmem[s].target \in Users \cup {Null} /\ rmem[s].one \in Tokens \cup {Null}
      /\ rmem[s].op \in AdminOps \cup {"me", "logout", "register", "bootstrap", "verify", "login"}
  BY <1>1, MemoryFields
<1>3. /\ rmem[s].actor # Null => users'[rmem[s].actor].status # "absent"
      /\ rmem[s].token # Null /\ sessions[rmem[s].token].user # Null
            => sessions'[rmem[s].token].user # Null
      /\ rmem[s].one # Null /\ sessions[rmem[s].one].user # Null
            => sessions'[rmem[s].one].user # Null
      /\ rmem[s].target # Null /\ users[rmem[s].target].status # "absent"
            => users'[rmem[s].target].status # "absent"
  BY <1>1, <1>2 DEF Shape, Stay
<1>4. QED
  BY <1>1, <1>2, <1>3 DEF Shape, AdminOps

\* The types of what a step of a request may change in memory.
Control ==
    /\ rpc' \in [Requests -> RPC] /\ rmem' \in [Requests -> Memory]
    /\ alone' \cup crossed' \cup live' \subseteq Running'

\* A request ends.
LEMMA OverTypes ==
    ASSUME TypeInv, NEW r \in Requests, Over(r)
    PROVE  /\ Control /\ Mine(r) /\ Shape(r)'
           /\ rpc'[r] = "idle" /\ rmem'[r] = Nothing
           /\ alone' = alone \ {r} /\ crossed' = crossed \ {r} /\ live' = live \ {r}
<1>1. /\ rpc' = [rpc EXCEPT ![r] = "idle"] /\ rmem' = [rmem EXCEPT ![r] = Nothing]
      /\ alone' = alone \ {r} /\ crossed' = crossed \ {r} /\ live' = live \ {r}
  BY DEF Over, Go
<1>2. /\ rpc' \in [Requests -> RPC] /\ rmem' \in [Requests -> Memory] /\ Mine(r)
      /\ rpc'[r] = "idle" /\ rmem'[r] = Nothing
  BY <1>1, NothingType DEF TypeInv, AccountsTypeOK, RPC, Mine
<1>3. alone' \cup crossed' \cup live' \subseteq Running'
  BY <1>1, <1>2 DEF TypeInv, AccountsTypeOK, Running, Mine
<1>4. Shape(r)'
  BY <1>2 DEF Shape, Nothing, AtDoor, AdminOps
<1>5. QED
  BY <1>1, <1>2, <1>3, <1>4 DEF Control

\* A request goes on.
LEMMA GoTypes ==
    ASSUME TypeInv, NEW r \in Requests, NEW step \in RPC \ {"idle"}, Go(r, step)
    PROVE  /\ rpc' \in [Requests -> RPC] /\ rpc'[r] = step
           /\ \A s \in Requests \ {r} : rpc'[s] = rpc[s]
           /\ Running' = Running \cup {r}
<1>1. rpc' = [rpc EXCEPT ![r] = step] /\ rpc \in [Requests -> RPC]
  BY DEF Go, TypeInv, AccountsTypeOK
<1>2. QED
  BY <1>1 DEF Running

\* What a step of one request has to show for the types.
LEMMA TypeKept ==
    ASSUME TypeInv, NEW r \in Requests, Control, Mine(r), Stay, Shape(r)',
           users' \in [Users -> User], sessions' \in [Tokens -> Session],
           cache' \cup held' \subseteq Tokens \ SessionsOf(Null)',
           \A t \in Tokens : sessions[t].user = Null /\ sessions'[t].user # Null
                                => users[sessions'[t].user].status # "absent"
    PROVE  TypeInv'
<1>1. \A s \in Requests : Shape(s)'
  BY ShapeKept DEF Mine
<1>2. ASSUME NEW t \in Tokens \ SessionsOf(Null)'
      PROVE  users'[sessions'[t].user].status # "absent"
  <2>1. sessions'[t].user \in Users
    BY <1>2 DEF SessionsOf, Session
  <2>2. users[sessions'[t].user].status # "absent"
    BY <1>2, <2>1 DEF SessionsOf, Stay, TypeInv, AccountsTypeOK
  <2>3. QED
    BY <2>1, <2>2 DEF Stay
<1>3. QED
  BY <1>1, <1>2 DEF TypeInv, AccountsTypeOK, Control

\* A step that only changes what its request holds, and takes tokens in or out of
\* Redis, has less to show.
LEMMA MemoryKept ==
    ASSUME TypeInv, NEW r \in Requests, Control, Mine(r), Shape(r)', UNCHANGED tables,
           cache' \subseteq Tokens \ SessionsOf(Null)
    PROVE  TypeInv'
<1>1. /\ users' = users /\ sessions' = sessions /\ held' = held
      /\ SessionsOf(Null)' = SessionsOf(Null)
  BY DEF tables, SessionsOf
<1>2. Stay
  BY <1>1 DEF Stay
<1>3. QED
  BY <1>1, <1>2, TypeKept DEF TypeInv, AccountsTypeOK

\* The calls, and what a request begins with.
Begins(r) ==
    \/ BeginMe(r)       \/ BeginLogout(r)   \/ BeginRevoke(r) \/ BeginUpdate(r)
    \/ BeginStaff(r)    \/ BeginRegister(r) \/ BeginBootstrap(r)
    \/ BeginVerify(r)   \/ BeginLogin(r)

AtStart == {"get", "lookup", "admins", "verify", "login"}

\* What the beginning of a call changes.
LEMMA BeginTypes ==
    ASSUME TypeInv, NEW r \in Requests, NEW step \in AtStart, NEW call \in Memory,
           Begin(r, step, call)
    PROVE  /\ Control /\ Mine(r) /\ UNCHANGED <<tables, cache, crossed>>
           /\ rpc[r] = "idle" /\ rpc'[r] = step /\ rmem'[r] = call
           /\ alone' = IF Running = {} THEN {r} ELSE {}
           /\ live' = live \cup {s \in {r} : call.actor # Null
                                               /\ users[call.actor].status = "active"}
           /\ Running' = Running \cup {r}
<1>1. /\ rpc' = [rpc EXCEPT ![r] = step] /\ rmem' = [rmem EXCEPT ![r] = call]
      /\ rpc[r] = "idle" /\ UNCHANGED <<tables, cache, crossed>>
      /\ alone' = IF Running = {} THEN {r} ELSE {}
      /\ live' = live \cup {s \in {r} : call.actor # Null
                                          /\ users[call.actor].status = "active"}
  BY DEF Begin, Go
<1>2. /\ rpc' \in [Requests -> RPC] /\ rmem' \in [Requests -> Memory] /\ Mine(r)
      /\ rpc'[r] = step /\ rmem'[r] = call
  BY <1>1 DEF TypeInv, AccountsTypeOK, RPC, AtStart, Mine
<1>3. Running' = Running \cup {r}
  BY <1>1, <1>2 DEF Running, TypeInv, AccountsTypeOK, AtStart, Mine
<1>4. alone' \cup crossed' \cup live' \subseteq Running'
  BY <1>1, <1>3 DEF TypeInv, AccountsTypeOK
<1>5. QED
  BY <1>1, <1>2, <1>3, <1>4 DEF Control

\* What a call that begins holds.
CallShape(step, call) ==
    /\ call \in Memory
    /\ call.actor # Null => users[call.actor].status # "absent"
    /\ step = "get" =>
          /\ call.actor # Null /\ call.op \in AdminOps \cup {"me", "logout"}
          /\ call.token # Null /\ sessions[call.token].user # Null
    /\ step # "get" => call.actor = Null
    /\ call.op = "revokeOne" => call.one # Null /\ sessions[call.one].user # Null
    /\ call.op \notin {"me", "logout", "revokeOne"} => call.target # Null
    /\ call.op \in {"staff", "register", "bootstrap"} => call.row.status # "absent"
    /\ step \in {"admins", "lookup"} => call.op \in {"register", "bootstrap"}
    /\ step = "verify" => call.op = "verify"
    /\ step = "login" => call.op = "login"

\* A call with a token.
LEMMA TokenCall ==
    ASSUME TypeInv, NEW r \in Requests, NEW t \in Tokens, NEW call \in Memory,
           BeginCall(r, t, call),
           call.op \in AdminOps \cup {"me", "logout"},
           call.op = "revokeOne" => call.one # Null /\ sessions[call.one].user # Null,
           call.op \notin {"me", "logout", "revokeOne"} => call.target # Null,
           call.op = "staff" => call.row.status # "absent"
    PROVE  \E new \in Memory : CallShape("get", new) /\ Begin(r, "get", new)
<1> DEFINE new == [call EXCEPT !.token = t, !.actor = sessions[t].user]
<1>1. t \in held /\ Begin(r, "get", new)
  BY DEF BeginCall
<1>2. /\ sessions[t].user \in Users /\ users[sessions[t].user].status # "absent"
  BY <1>1 DEF TypeInv, AccountsTypeOK, SessionsOf, Session
<1>3. /\ new \in Memory /\ new.actor = sessions[t].user /\ new.token = t
      /\ new.op = call.op /\ new.one = call.one /\ new.target = call.target
      /\ new.row = call.row
  BY <1>2 DEF Memory
<1>4. sessions[t].user # Null /\ t # Null
  BY <1>2, AccountsAssumption
<1>5. CallShape("get", new)
  <2> HIDE DEF new
  <2>1. QED
    BY <1>2, <1>3, <1>4 DEF CallShape, AdminOps
<1>6. QED
  BY <1>1, <1>3, <1>5

\* Every call begins with a memory of that shape.
LEMMA BeginsCall ==
    ASSUME TypeInv, NEW r \in Requests, Begins(r)
    PROVE  \E step \in AtStart, call \in Memory : CallShape(step, call) /\ Begin(r, step, call)
<1>n. /\ Nothing \in Memory /\ Nothing.op = "me" /\ Nothing.actor = Null
      /\ Nothing.row \in User
  BY NothingType DEF Nothing
<1>u. \A u \in Users : u # Null
  BY AccountsAssumption
<1>1. CASE BeginMe(r)
  BY <1>1, <1>n, TokenCall DEF BeginMe, AtStart, AdminOps
<1>2. CASE BeginLogout(r)
  <2>1. PICK t \in Tokens : BeginCall(r, t, [Nothing EXCEPT !.op = "logout"])
    BY <1>2 DEF BeginLogout
  <2>2. /\ [Nothing EXCEPT !.op = "logout"] \in Memory
        /\ [Nothing EXCEPT !.op = "logout"].op = "logout"
    BY <1>n DEF Memory
  <2>3. QED
    BY <2>1, <2>2, TokenCall DEF AtStart, AdminOps
<1>3. CASE BeginRevoke(r)
  <2>1. ASSUME NEW t \in Tokens, NEW o \in Tokens, sessions[o].user # Null,
               BeginCall(r, t, [Nothing EXCEPT !.op = "revokeOne", !.one = o])
        PROVE  \E call \in Memory : CallShape("get", call) /\ Begin(r, "get", call)
    <3> DEFINE call == [Nothing EXCEPT !.op = "revokeOne", !.one = o]
    <3>1. call \in Memory /\ call.op = "revokeOne" /\ call.one = o
      BY <1>n DEF Memory, AdminOps
    <3>2. o # Null
      BY AccountsAssumption
    <3> HIDE DEF call
    <3>3. QED
      BY <2>1, <3>1, <3>2, TokenCall DEF AdminOps, call
  <2>2. ASSUME NEW t \in Tokens, NEW u \in Users,
               BeginCall(r, t, [Nothing EXCEPT !.op = "revokeAll", !.target = u])
        PROVE  \E call \in Memory : CallShape("get", call) /\ Begin(r, "get", call)
    <3> DEFINE call == [Nothing EXCEPT !.op = "revokeAll", !.target = u]
    <3>1. call \in Memory /\ call.op = "revokeAll" /\ call.target = u
      BY <1>n DEF Memory, AdminOps
    <3>2. QED
      BY <2>2, <3>1, <1>u, TokenCall DEF AdminOps
  <2>3. QED
    BY <1>3, <2>1, <2>2 DEF BeginRevoke, AtStart
<1>4. CASE BeginUpdate(r)
  <2>1. PICK t \in Tokens, u \in Users, change \in Changes :
            BeginCall(r, t, [Nothing EXCEPT !.op = "update", !.target = u, !.change = change])
    BY <1>4 DEF BeginUpdate
  <2> DEFINE call == [Nothing EXCEPT !.op = "update", !.target = u, !.change = change]
  <2>2. call \in Memory /\ call.op = "update" /\ call.target = u
    BY <1>n, AccountsAssumption DEF Memory, AdminOps
  <2>3. QED
    BY <2>1, <2>2, <1>u, TokenCall DEF AdminOps, AtStart
<1>5. CASE BeginStaff(r)
  <2>1. PICK t \in Tokens, u \in Users, role \in Roles :
            BeginCall(r, t, [Nothing EXCEPT !.op = "staff", !.target = u,
                                            !.row.role = role, !.row.status = "active"])
    BY <1>5 DEF BeginStaff
  <2> DEFINE call == [Nothing EXCEPT !.op = "staff", !.target = u,
                                     !.row.role = role, !.row.status = "active"]
  <2>2. /\ call \in Memory /\ call.op = "staff" /\ call.target = u
        /\ call.row.status = "active"
    BY <1>n DEF Memory, AdminOps, User, Status
  <2>3. QED
    BY <2>1, <2>2, <1>u, TokenCall DEF AdminOps, AtStart
<1>6. CASE BeginRegister(r)
  <2>1. PICK u \in Users :
            Begin(r, "lookup", [Nothing EXCEPT !.op = "register", !.target = u,
                                    !.row.status = "pending", !.row.token = TRUE])
    BY <1>6 DEF BeginRegister
  <2> DEFINE call == [Nothing EXCEPT !.op = "register", !.target = u,
                                     !.row.status = "pending", !.row.token = TRUE]
  <2>2. /\ call \in Memory /\ call.op = "register" /\ call.target = u
        /\ call.row.status = "pending" /\ call.actor = Null
    BY <1>n DEF Memory, User, Status
  <2>3. CallShape("lookup", call)
    <3> HIDE DEF call
    <3>1. QED
      BY <2>2, <1>u DEF CallShape
  <2>4. QED
    BY <2>1, <2>2, <2>3 DEF AtStart
<1>7. CASE BeginBootstrap(r)
  <2>1. PICK u \in Users :
            Begin(r, "admins", [Nothing EXCEPT !.op = "bootstrap", !.target = u,
                                    !.row.role = "admin", !.row.status = "active"])
    BY <1>7 DEF BeginBootstrap
  <2> DEFINE call == [Nothing EXCEPT !.op = "bootstrap", !.target = u,
                                     !.row.role = "admin", !.row.status = "active"]
  <2>2. /\ call \in Memory /\ call.op = "bootstrap" /\ call.target = u
        /\ call.row.status = "active" /\ call.actor = Null
    BY <1>n DEF Memory, User, Status, Roles
  <2>3. CallShape("admins", call)
    <3> HIDE DEF call
    <3>1. QED
      BY <2>2, <1>u DEF CallShape
  <2>4. QED
    BY <2>1, <2>2, <2>3 DEF AtStart
<1>8. CASE BeginVerify(r) \/ BeginLogin(r)
  <2>1. PICK u \in Users, op \in {"verify", "login"} :
            Begin(r, op, [Nothing EXCEPT !.op = op, !.target = u])
    BY <1>8 DEF BeginVerify, BeginLogin
  <2> DEFINE call == [Nothing EXCEPT !.op = op, !.target = u]
  <2>2. call \in Memory /\ call.op = op /\ call.target = u /\ call.actor = Null
    BY <1>n DEF Memory
  <2>3. CallShape(op, call)
    <3> HIDE DEF call
    <3>1. QED
      BY <2>2, <1>u DEF CallShape
  <2>4. QED
    BY <2>1, <2>2, <2>3 DEF AtStart
<1>9. QED
  BY <1>1, <1>2, <1>3, <1>4, <1>5, <1>6, <1>7, <1>8 DEF Begins

\* A call that begins keeps the types.
LEMMA BeginsTypes == ASSUME TypeInv, NEW r \in Requests, Begins(r) PROVE TypeInv'
<1>1. PICK step \in AtStart, call \in Memory : CallShape(step, call) /\ Begin(r, step, call)
  BY BeginsCall
<1>2. /\ Control /\ Mine(r) /\ UNCHANGED <<tables, cache, crossed>>
      /\ rpc'[r] = step /\ rmem'[r] = call
  BY <1>1, BeginTypes DEF CallShape
<1>3. Shape(r)'
  BY <1>1, <1>2 DEF Shape, CallShape, AtStart, AtDoor, AdminOps, tables
<1>4. QED
  BY <1>2, <1>3, MemoryKept DEF TypeInv, AccountsTypeOK

\* A step that changes the control of its request only.
LEMMA MovesTypes ==
    ASSUME TypeInv, NEW r \in Requests, rpc[r] # "idle",
           NEW step \in RPC \ {"idle"}, Go(r, step), UNCHANGED tables,
           rmem' \in [Requests -> Memory],
           \A s \in Requests \ {r} : rmem'[s] = rmem[s],
           alone' \subseteq alone, crossed' \subseteq Running, live' \subseteq Running,
           cache' \subseteq Tokens \ SessionsOf(Null), Shape(r)'
    PROVE  TypeInv'
<1>1. /\ rpc' \in [Requests -> RPC] /\ rpc'[r] = step
      /\ \A s \in Requests \ {r} : rpc'[s] = rpc[s]
      /\ Running' = Running \cup {r}
  BY GoTypes
<1>2. Control /\ Mine(r)
  BY <1>1 DEF Control, Mine, TypeInv, AccountsTypeOK
<1>3. QED
  BY <1>2, MemoryKept

\* A request that ends keeps the types when it changes no table.
LEMMA OverKept ==
    ASSUME TypeInv, NEW r \in Requests, Over(r), UNCHANGED <<tables, cache>>
    PROVE  TypeInv'
  BY OverTypes, MemoryKept DEF TypeInv, AccountsTypeOK

\* The authentication and the calls that only ask for a user.
LEMMA DoorTypes ==
    ASSUME TypeInv, NEW r \in Requests,
           Get(r) \/ FindFresh(r) \/ FindSession(r) \/ FindOwner(r) \/ Save(r) \/ Me(r) \/ Answer(r)
    PROVE  TypeInv'
<1>t. /\ Shape(r) /\ rmem \in [Requests -> Memory] /\ rmem[r] \in Memory
      /\ alone \subseteq Running /\ crossed \subseteq Running /\ live \subseteq Running
      /\ cache \subseteq Tokens \ SessionsOf(Null) /\ rpc \in [Requests -> RPC]
  BY DEF TypeInv, AccountsTypeOK
<1>f. /\ rmem[r].token \in Tokens \cup {Null} /\ rmem[r].actor \in Users \cup {Null}
      /\ rmem[r].op \in AdminOps \cup {"me", "logout", "register", "bootstrap", "verify", "login"}
  BY <1>t, MemoryFields
<1>h. rpc[r] \in AtDoor =>
        /\ Handler(rmem[r].op) \in {"me", "drop", "findOne", "list", "find", "lookup"}
        /\ Handler(rmem[r].op) = "drop" => rmem[r].op = "logout"
        /\ Handler(rmem[r].op) = "findOne" => rmem[r].op = "revokeOne"
        /\ Handler(rmem[r].op) = "list" => rmem[r].op = "revokeAll"
        /\ Handler(rmem[r].op) = "find" => rmem[r].op = "update"
        /\ Handler(rmem[r].op) = "lookup" => rmem[r].op = "staff"
  BY <1>t DEF Shape, Handler, AdminOps
<1>s. ASSUME NEW step \in RPC \ {"idle"}, Go(r, step), UNCHANGED <<tables, rmem>>,
             \/ step \in AtDoor /\ rpc[r] \in AtDoor
             \/ step = Handler(rmem[r].op) /\ rpc[r] \in AtDoor
      PROVE  Shape(r)'
  <2>1. rpc'[r] = step /\ rmem'[r] = rmem[r]
    BY <1>s, GoTypes
  <2>2. CASE step \in AtDoor /\ rpc[r] \in AtDoor
    BY <1>s, <1>t, <2>1, <2>2 DEF Shape, AtDoor, tables, AdminOps
  <2>3. CASE step = Handler(rmem[r].op) /\ rpc[r] \in AtDoor
    BY <1>s, <1>t, <1>h, <2>1, <2>3 DEF Shape, AtDoor, tables, AdminOps
  <2>4. QED
    BY <1>s, <2>2, <2>3
<1>1. CASE Get(r)
  <2>1. PICK step \in {"fresh", "session"} : Go(r, step)
    BY <1>1 DEF Get
  <2>2. Shape(r)' /\ step \in RPC \ {"idle"}
    BY <1>1, <2>1, <1>s DEF Get, AtDoor, RPC
  <2>3. QED
    BY <1>1, <1>t, <2>1, <2>2, MovesTypes DEF Get
<1>2. CASE FindFresh(r)
  <2>1. CASE Over(r)
    BY <1>2, <2>1, OverKept DEF FindFresh
  <2>2. CASE ~Over(r)
    <3>1. /\ Go(r, Handler(rmem[r].op)) /\ UNCHANGED <<tables, cache, rmem, history>>
          /\ rpc[r] \in AtDoor /\ rpc[r] # "idle"
      BY <1>2, <2>2 DEF FindFresh, AtDoor
    <3>2. Handler(rmem[r].op) \in RPC \ {"idle"}
      BY <1>h, <3>1 DEF RPC
    <3>3. QED
      BY <3>1, <3>2, <1>s, <1>t, MovesTypes DEF history
  <2>3. QED
    BY <2>1, <2>2
<1>3. CASE FindSession(r)
  <2>1. CASE Over(r)
    BY <1>3, <2>1, OverKept DEF FindSession
  <2>2. CASE ~Over(r)
    <3>1. /\ Go(r, "owner") /\ UNCHANGED <<tables, cache, rmem, history>>
          /\ rpc[r] \in AtDoor /\ rpc[r] # "idle" /\ "owner" \in AtDoor
      BY <1>3, <2>2 DEF FindSession, AtDoor
    <3>2. "owner" \in RPC \ {"idle"}
      BY DEF RPC
    <3>3. QED
      BY <3>1, <3>2, <1>s, <1>t, MovesTypes DEF history
  <2>3. QED
    BY <2>1, <2>2
<1>4. CASE FindOwner(r)
  <2>1. CASE Over(r)
    BY <1>4, <2>1, OverKept DEF FindOwner
  <2>2. CASE ~Over(r)
    <3>1. /\ Go(r, "save") /\ UNCHANGED <<tables, cache, history>> /\ rpc[r] = "owner"
          /\ rmem' = IF MayCall(r) THEN rmem ELSE [rmem EXCEPT ![r].op = "me"]
      BY <1>4, <2>2 DEF FindOwner
    <3>2. "save" \in RPC \ {"idle"} /\ rpc'[r] = "save"
      BY <3>1, GoTypes DEF RPC
    <3>3. /\ rmem' \in [Requests -> Memory] /\ \A s \in Requests \ {r} : rmem'[s] = rmem[s]
          /\ rmem'[r].op \in {rmem[r].op, "me"}
          /\ rmem'[r].token = rmem[r].token /\ rmem'[r].actor = rmem[r].actor
          /\ rmem'[r].one = rmem[r].one /\ rmem'[r].target = rmem[r].target
          /\ rmem'[r].row = rmem[r].row
      BY <1>t, <3>1 DEF Memory
    <3>4. Shape(r)'
      BY <1>t, <1>f, <3>1, <3>2, <3>3 DEF Shape, AtDoor, tables, AdminOps
    <3>5. QED
      BY <3>1, <3>2, <3>3, <3>4, <1>t, MovesTypes DEF history
  <2>3. QED
    BY <2>1, <2>2
<1>5. CASE Save(r)
  <2>1. /\ Go(r, Handler(rmem[r].op)) /\ UNCHANGED <<tables, rmem, crossed, live>>
        /\ rpc[r] \in AtDoor /\ rpc[r] # "idle" /\ alone' \subseteq alone
        /\ cache' \subseteq cache \cup {rmem[r].token}
    BY <1>5 DEF Save, AtDoor, Redis
  <2>2. Handler(rmem[r].op) \in RPC \ {"idle"}
    BY <1>h, <2>1 DEF RPC
  <2>3. rmem[r].token \in Tokens \ SessionsOf(Null)
    BY <1>t, <1>f, <2>1 DEF Shape, SessionsOf
  <2>4. QED
    BY <2>1, <2>2, <2>3, <1>s, <1>t, MovesTypes
<1>6. CASE Me(r) \/ Answer(r)
  BY <1>6, OverKept DEF Me, Answer
<1>7. QED
  BY <1>1, <1>2, <1>3, <1>4, <1>5, <1>6

\* The statement that revokes sessions leaves them their users.
LEMMA RevokedTypes ==
    ASSUME TypeInv, NEW set, Revoked(set), UNCHANGED <<users, held, cache>>
    PROVE  /\ Stay /\ sessions' \in [Tokens -> Session] /\ users' \in [Users -> User]
           /\ \A t \in Tokens : /\ sessions'[t].user = sessions[t].user
                                /\ sessions'[t].revoked <=> sessions[t].revoked \/ t \in set
           /\ \A u \in Users \cup {Null} : SessionsOf(u)' = SessionsOf(u)
           /\ cache' \cup held' \subseteq Tokens \ SessionsOf(Null)'
<1>1. sessions \in [Tokens -> Session] /\ users \in [Users -> User]
      /\ cache \cup held \subseteq Tokens \ SessionsOf(Null)
  BY DEF TypeInv, AccountsTypeOK
<1>2. ASSUME NEW t \in Tokens
      PROVE  /\ sessions'[t] \in Session /\ sessions'[t].user = sessions[t].user
             /\ sessions'[t].revoked <=> sessions[t].revoked \/ t \in set
  <2>1. sessions[t].user \in Users \cup {Null} /\ sessions[t].revoked \in BOOLEAN
    BY <1>1 DEF Session
  <2> DEFINE now == sessions[t].revoked \/ t \in set
  <2>2. now \in BOOLEAN
    BY <2>1
  <2>3. sessions'[t] = [sessions[t] EXCEPT !.revoked = now]
    BY DEF Revoked
  <2> HIDE DEF now
  <2>4. /\ sessions'[t] \in Session /\ sessions'[t].user = sessions[t].user
        /\ sessions'[t].revoked = now
    BY <1>1, <2>1, <2>2, <2>3 DEF Session
  <2>5. QED
    BY <2>4 DEF now
<1>3. sessions' \in [Tokens -> Session]
  BY <1>2 DEF Revoked
<1>4. \A u \in Users \cup {Null} : SessionsOf(u)' = SessionsOf(u)
  BY <1>2 DEF SessionsOf
<1>5. QED
  BY <1>1, <1>2, <1>3, <1>4 DEF Stay

\* A statement that revokes sessions, and what is still to be deleted from Redis.
Revokes(r, set, step, list) ==
    /\ Revoked(set) /\ Go(r, step) /\ UNCHANGED <<users, held, cache, history>>
    /\ list \subseteq Tokens
    /\ rmem' = [rmem EXCEPT ![r].list = list]
    /\ \/ rpc[r] = "revokeToken" /\ step = "done"
       \/ rpc[r] \in {"findOne", "revoke"} /\ step = "delete"

\* The three statements that do so.
LEMMA RevokesStep ==
    ASSUME TypeInv, NEW r \in Requests
    PROVE  /\ RevokeToken(r) =>
                 Revokes(r, {rmem[r].token}, "done", rmem[r].list) /\ rmem[r].op = "logout"
           /\ RevokeSession(r) =>
                 /\ Revokes(r, {rmem[r].one}, "delete", {rmem[r].one})
                 /\ rmem[r].op = "revokeOne" /\ rmem[r].one \in Tokens
           /\ RevokeSessionsByUser(r) =>
                 /\ Revokes(r, SessionsOf(rmem[r].target), "delete", rmem[r].list)
                 /\ rmem[r].op \in {"revokeAll", "update"}
<1>t. Shape(r) /\ rmem \in [Requests -> Memory] /\ rmem[r] \in Memory
  BY DEF TypeInv, AccountsTypeOK
<1>f. rmem[r].one \in Tokens \cup {Null} /\ rmem[r].list \subseteq Tokens
  BY <1>t, MemoryFields
<1>m. rmem = [rmem EXCEPT ![r].list = rmem[r].list]
  BY <1>t DEF Memory
<1>1. ASSUME RevokeToken(r)
      PROVE  Revokes(r, {rmem[r].token}, "done", rmem[r].list) /\ rmem[r].op = "logout"
  BY <1>1, <1>t, <1>f, <1>m DEF RevokeToken, Revokes, Shape
<1>2. ASSUME RevokeSession(r)
      PROVE  /\ Revokes(r, {rmem[r].one}, "delete", {rmem[r].one})
             /\ rmem[r].op = "revokeOne" /\ rmem[r].one \in Tokens
  BY <1>2, <1>t, <1>f DEF RevokeSession, Revokes, Shape
<1>3. ASSUME RevokeSessionsByUser(r)
      PROVE  /\ Revokes(r, SessionsOf(rmem[r].target), "delete", rmem[r].list)
             /\ rmem[r].op \in {"revokeAll", "update"}
  BY <1>3, <1>t, <1>f, <1>m DEF RevokeSessionsByUser, Revokes, Shape
<1>4. QED
  BY <1>1, <1>2, <1>3

\* What it does.
LEMMA RevokesEffect ==
    ASSUME TypeInv, NEW r \in Requests, NEW set, NEW step, NEW list,
           Revokes(r, set, step, list)
    PROVE  /\ TypeInv' /\ Mine(r) /\ UNCHANGED <<users, held, cache, history>>
           /\ rpc'[r] = step /\ Running' = Running \cup {r}
           /\ rmem'[r].op = rmem[r].op /\ rmem'[r].row = rmem[r].row
           /\ rmem'[r].was = rmem[r].was
           /\ rmem'[r].token = rmem[r].token /\ rmem'[r].actor = rmem[r].actor
           /\ rmem'[r].one = rmem[r].one /\ rmem'[r].target = rmem[r].target
           /\ rmem'[r].list = list
           /\ \A t \in Tokens : sessions'[t].revoked <=> sessions[t].revoked \/ t \in set
           /\ \A u \in Users \cup {Null} : SessionsOf(u)' = SessionsOf(u)
<1>t. /\ Shape(r) /\ rmem \in [Requests -> Memory] /\ rmem[r] \in Memory
      /\ alone \cup crossed \cup live \subseteq Running
  BY DEF TypeInv, AccountsTypeOK
<1>f. /\ rmem[r].actor \in Users \cup {Null} /\ rmem[r].one \in Tokens \cup {Null}
      /\ rmem[r].token \in Tokens \cup {Null}
      /\ rmem[r].op \in AdminOps \cup {"me", "logout", "register", "bootstrap", "verify", "login"}
  BY <1>t, MemoryFields
<1>1. /\ Revoked(set) /\ Go(r, step) /\ UNCHANGED <<users, held, cache, history>>
      /\ list \subseteq Tokens
      /\ rmem' = [rmem EXCEPT ![r].list = list]
      /\ step \in {"done", "delete"}
      /\ rpc[r] \in {"revokeToken", "findOne", "revoke"}
      /\ step = "delete" => rpc[r] \in {"findOne", "revoke"}
  BY DEF Revokes
<1>2. /\ Stay /\ sessions' \in [Tokens -> Session] /\ users' \in [Users -> User]
      /\ cache' \cup held' \subseteq Tokens \ SessionsOf(Null)'
      /\ \A t \in Tokens : /\ sessions'[t].user = sessions[t].user
                           /\ sessions'[t].revoked <=> sessions[t].revoked \/ t \in set
      /\ \A u \in Users \cup {Null} : SessionsOf(u)' = SessionsOf(u)
  BY <1>1, RevokedTypes
<1>3. /\ rpc' \in [Requests -> RPC] /\ rpc'[r] = step
      /\ \A s \in Requests \ {r} : rpc'[s] = rpc[s]
      /\ Running' = Running \cup {r}
  <2>1. step \in RPC \ {"idle"}
    BY <1>1 DEF RPC
  <2>2. QED
    BY <1>1, <2>1, GoTypes
<1>4. /\ rmem' \in [Requests -> Memory] /\ \A s \in Requests \ {r} : rmem'[s] = rmem[s]
      /\ rmem'[r].op = rmem[r].op /\ rmem'[r].row = rmem[r].row
      /\ rmem'[r].was = rmem[r].was
      /\ rmem'[r].token = rmem[r].token /\ rmem'[r].actor = rmem[r].actor
      /\ rmem'[r].one = rmem[r].one /\ rmem'[r].target = rmem[r].target
      /\ rmem'[r].list = list
  BY <1>t, <1>1 DEF Memory
<1>5. Control /\ Mine(r)
  BY <1>t, <1>1, <1>3, <1>4 DEF Control, Mine, history
<1>6. Shape(r)'
  BY <1>t, <1>f, <1>1, <1>2, <1>3, <1>4 DEF Shape, AtDoor, AdminOps, Stay
<1>7. TypeInv'
  BY <1>2, <1>5, <1>6, TypeKept
<1>8. QED
  BY <1>1, <1>2, <1>3, <1>4, <1>5, <1>7

\* The rest of the revocations: the token or the list, in Redis.
LEMMA DropTypes ==
    ASSUME TypeInv, NEW r \in Requests, Drop(r) \/ ListSessions(r) \/ Delete(r)
    PROVE  /\ TypeInv' /\ Mine(r) /\ UNCHANGED tables /\ cache' \subseteq cache
           /\ crossed' = crossed /\ live' = live /\ alone' \subseteq alone
           /\ rmem'[r].op = rmem[r].op /\ rmem'[r].row = rmem[r].row
           /\ rmem'[r].was = rmem[r].was
           /\ rmem'[r].token = rmem[r].token /\ rmem'[r].actor = rmem[r].actor
           /\ rmem'[r].one = rmem[r].one /\ rmem'[r].target = rmem[r].target
           /\ rpc[r] # "idle" /\ Running' = Running \cup {r}
           /\ Drop(r) => rpc'[r] = "revokeToken"
           /\ ListSessions(r) => rpc'[r] = "revoke" /\ rmem'[r].list = Listed(rmem[r].target)
           /\ Delete(r) => rpc'[r] \in {"delete", "done"}
<1>t. /\ Shape(r) /\ rmem \in [Requests -> Memory] /\ rmem[r] \in Memory
      /\ alone \subseteq Running /\ crossed \subseteq Running /\ live \subseteq Running
      /\ rpc \in [Requests -> RPC] /\ cache \subseteq Tokens \ SessionsOf(Null)
  BY DEF TypeInv, AccountsTypeOK
<1>1. PICK step \in RPC \ {"idle"}, list \in SUBSET Tokens :
          /\ Go(r, step) /\ UNCHANGED <<tables, crossed, live>>
          /\ rmem' = [rmem EXCEPT ![r].list = list]
          /\ cache' \subseteq cache /\ alone' \subseteq alone
          /\ \/ Drop(r) /\ rpc[r] = "drop" /\ step = "revokeToken"
             \/ /\ ListSessions(r) /\ rpc[r] = "list" /\ step = "revoke"
                /\ list = Listed(rmem[r].target)
             \/ Delete(r) /\ rpc[r] = "delete" /\ step \in {"delete", "done"}
  <2>m. /\ rmem = [rmem EXCEPT ![r].list = rmem[r].list]
        /\ rmem[r].list \in SUBSET Tokens
        /\ rpc = [rpc EXCEPT ![r] = rpc[r]]
    BY <1>t, MemoryFields DEF Memory
  <2>s. {"revokeToken", "revoke", "delete", "done"} \subseteq RPC \ {"idle"}
    BY DEF RPC
  <2>1. CASE Drop(r)
    BY <2>1, <2>m, <2>s DEF Drop, Redis
  <2>2. CASE ListSessions(r)
    BY <2>2, <2>s DEF ListSessions, Listed, SessionsOf, history, tables
  <2>3. CASE Delete(r)
    <3>1. ASSUME NEW t \in rmem[r].list, Redis(r, cache \ {t}),
                 rmem' = [rmem EXCEPT ![r].list = rmem[r].list \ {t}], UNCHANGED rpc
          PROVE  /\ Go(r, "delete") /\ cache' \subseteq cache /\ alone' \subseteq alone
                 /\ rmem[r].list \ {t} \in SUBSET Tokens
      BY <2>3, <3>1, <2>m DEF Delete, Go, Redis
    <3>2. /\ UNCHANGED <<tables, crossed, live>> /\ rpc[r] = "delete"
      BY <2>3 DEF Delete
    <3>3. CASE \E t \in rmem[r].list : /\ Redis(r, cache \ {t}) /\ UNCHANGED rpc
                                       /\ rmem' = [rmem EXCEPT ![r].list = @ \ {t}]
      <4>1. PICK t \in rmem[r].list : /\ Redis(r, cache \ {t}) /\ UNCHANGED rpc
                                      /\ rmem' = [rmem EXCEPT ![r].list = @ \ {t}]
        BY <3>3
      <4> DEFINE rest == rmem[r].list \ {t}
      <4>2. /\ Go(r, "delete") /\ cache' \subseteq cache /\ alone' \subseteq alone
            /\ rest \in SUBSET Tokens /\ rmem' = [rmem EXCEPT ![r].list = rest]
        BY <3>1, <4>1
      <4> HIDE DEF rest
      <4>3. QED
        BY <2>3, <3>2, <4>2, <2>s
    <3>4. CASE Go(r, "done") /\ UNCHANGED <<cache, rmem, alone>>
      BY <2>3, <3>2, <3>4, <2>m, <2>s
    <3>5. QED
      BY <2>3, <3>3, <3>4 DEF Delete
  <2>4. QED
    BY <2>1, <2>2, <2>3
<1>2. /\ rpc' \in [Requests -> RPC] /\ rpc'[r] = step
      /\ \A s \in Requests \ {r} : rpc'[s] = rpc[s]
      /\ Running' = Running \cup {r}
  BY <1>1, GoTypes
<1>3. /\ rmem' \in [Requests -> Memory] /\ \A s \in Requests \ {r} : rmem'[s] = rmem[s]
      /\ rmem'[r].op = rmem[r].op /\ rmem'[r].row = rmem[r].row
      /\ rmem'[r].was = rmem[r].was
      /\ rmem'[r].token = rmem[r].token /\ rmem'[r].actor = rmem[r].actor
      /\ rmem'[r].one = rmem[r].one /\ rmem'[r].target = rmem[r].target
      /\ rmem'[r].list = list
  BY <1>t, <1>1 DEF Memory
<1>4. rpc[r] # "idle"
  BY <1>1
<1>5. Shape(r)'
  BY <1>t, <1>1, <1>2, <1>3 DEF Shape, AtDoor, AdminOps, tables
<1>6. TypeInv'
  BY <1>t, <1>1, <1>3, <1>4, <1>5, MovesTypes
<1>7. /\ Drop(r) => rpc'[r] = "revokeToken"
      /\ ListSessions(r) => rpc'[r] = "revoke" /\ rmem'[r].list = Listed(rmem[r].target)
      /\ Delete(r) => rpc'[r] \in {"delete", "done"}
  BY <1>1, <1>2, <1>3 DEF Drop, ListSessions, Delete
<1>8. QED
  BY <1>1, <1>2, <1>3, <1>4, <1>6, <1>7 DEF Mine

\* Every call that names a user has one.
LEMMA TargetIs ==
    ASSUME TypeInv, NEW r \in Requests, rmem[r].op \notin {"me", "logout", "revokeOne"}
    PROVE  rmem[r].target \in Users
<1>1. rmem[r].target \in Users \cup {Null} /\ rmem[r].target # Null
  BY MemoryFields DEF TypeInv, AccountsTypeOK, Shape
<1>2. QED
  BY <1>1

\* A statement that writes one row of users.
LEMMA UsersWritten ==
    ASSUME TypeInv, NEW u \in Users, NEW row \in User, row.status # "absent",
           users' = [users EXCEPT ![u] = row]
    PROVE  /\ users' \in [Users -> User] /\ users'[u] = row
           /\ \A v \in Users \ {u} : users'[v] = users[v]
           /\ \A v \in Users : users[v].status # "absent" => users'[v].status # "absent"
  BY DEF TypeInv, AccountsTypeOK

\* What a statement that writes a user keeps.
LEMMA WriteKept ==
    ASSUME TypeInv, NEW r \in Requests, rpc[r] # "idle",
           NEW step \in RPC \ {"idle"}, Go(r, step),
           NEW u \in Users, NEW row \in User, row.status # "absent",
           users' = [users EXCEPT ![u] = row],
           UNCHANGED <<sessions, held, cache, rmem, alone>>,
           crossed' \subseteq Running, live' \subseteq Running, Shape(r)'
    PROVE  TypeInv'
<1>1. /\ rpc' \in [Requests -> RPC] /\ rpc'[r] = step
      /\ \A s \in Requests \ {r} : rpc'[s] = rpc[s]
      /\ Running' = Running \cup {r}
  BY GoTypes
<1>2. Control /\ Mine(r)
  BY <1>1 DEF Control, Mine, TypeInv, AccountsTypeOK
<1>3. users' \in [Users -> User] /\ Stay
  BY UsersWritten DEF Stay
<1>4. /\ sessions' \in [Tokens -> Session] /\ SessionsOf(Null)' = SessionsOf(Null)
      /\ cache' \cup held' \subseteq Tokens \ SessionsOf(Null)
  BY DEF TypeInv, AccountsTypeOK, SessionsOf
<1>5. QED
  BY <1>2, <1>3, <1>4, TypeKept

\* The row that UpdateUser writes.
Written(r) == [users[rmem[r].target] EXCEPT !.role = rmem[r].row.role,
                                            !.status = rmem[r].row.status]

\* The last statement of an update: the row as it was read, with the change.
LEMMA UpdateUserEffect ==
    ASSUME TypeInv, NEW r \in Requests, UpdateUser(r)
    PROVE  /\ TypeInv' /\ Mine(r) /\ rmem' = rmem
           /\ rpc'[r] = (IF EndsSessions(r) THEN "list" ELSE "done")
           /\ rmem[r].target \in Users /\ users'[rmem[r].target] = Written(r)
           /\ users'[rmem[r].target].role = rmem[r].row.role
           /\ users'[rmem[r].target].status = rmem[r].row.status
           /\ \A v \in Users \ {rmem[r].target} : users'[v] = users[v]
<1> DEFINE m == rmem[r]
           step == IF EndsSessions(r) THEN "list" ELSE "done"
<1>t. /\ Shape(r) /\ rmem[r] \in Memory /\ users \in [Users -> User]
      /\ crossed \subseteq Running /\ live \subseteq Running
  BY DEF TypeInv, AccountsTypeOK
<1>1. rpc[r] = "write" /\ m.op = "update" /\ m.row.status # "absent"
  BY <1>t DEF UpdateUser, Shape
<1>2. m.target \in Users /\ m.row.role \in Roles /\ m.row.status \in Status
  BY <1>1, <1>t, TargetIs, MemoryFields
<1>3. /\ Written(r) \in User /\ Written(r).status = m.row.status
      /\ Written(r).role = m.row.role
  BY <1>t, <1>2 DEF Written, User
<1>4. users' = [users EXCEPT ![m.target] = Written(r)]
  BY <1>t, <1>2 DEF UpdateUser, Written
<1>5. /\ Go(r, step) /\ UNCHANGED <<sessions, held, cache, rmem, alone, crossed>>
      /\ live' \subseteq Running
  BY <1>t DEF UpdateUser, StillLive
<1>6. step \in RPC \ {"idle"}
  BY DEF RPC
<1>7. /\ users' \in [Users -> User] /\ users'[m.target] = Written(r)
      /\ \A v \in Users \ {m.target} : users'[v] = users[v]
      /\ \A v \in Users : users[v].status # "absent" => users'[v].status # "absent"
  BY <1>1, <1>2, <1>3, <1>4, UsersWritten
<1>8. rpc'[r] = step /\ \A s \in Requests \ {r} : rpc'[s] = rpc[s]
  BY <1>5, <1>6, GoTypes
<1>9. Shape(r)'
  <2>1. rmem[r].actor \in Users \cup {Null}
    BY <1>t, MemoryFields
  <2>2. step \in {"list", "done"}
    OBVIOUS
  <2> HIDE DEF step
  <2>3. QED
    BY <1>t, <1>1, <1>5, <1>7, <1>8, <2>1, <2>2 DEF Shape, AtDoor
<1>10. TypeInv'
  <2> HIDE DEF step
  <2>1. QED
    BY <1>1, <1>2, <1>3, <1>4, <1>5, <1>6, <1>9, <1>t, WriteKept
<1>11. QED
  BY <1>2, <1>3, <1>5, <1>7, <1>8, <1>10 DEF Mine

\* The rest of UpdateUser: what is read of the user and of the administrators.
LEMMA FindUserEffect ==
    ASSUME TypeInv, NEW r \in Requests, FindUser(r)
    PROVE  /\ TypeInv' /\ Mine(r) /\ UNCHANGED <<tables, cache>> /\ rpc[r] = "find"
           /\ rmem[r].target \in Users
           /\ \/ Over(r)
              \/ /\ rpc'[r] \in {"write", "current"}
                 /\ rpc'[r] = "write" => IsActiveAdmin(rmem'[r].row)
                 /\ rmem'[r].op = rmem[r].op /\ rmem'[r].actor = rmem[r].actor
                 /\ rmem'[r].target = rmem[r].target
                 /\ crossed' = crossed \cup (IF Updates = {} THEN {} ELSE Updates \cup {r})
                 /\ UNCHANGED <<alone, live>>
<1> DEFINE m    == rmem[r]
           next == Changed(users[m.target], m.change)
           step == IF IsActiveAdmin(next) THEN "write" ELSE "current"
<1>t. /\ Shape(r) /\ rmem \in [Requests -> Memory] /\ m \in Memory /\ users \in [Users -> User]
      /\ alone \subseteq Running /\ crossed \subseteq Running /\ live \subseteq Running
      /\ cache \subseteq Tokens \ SessionsOf(Null) /\ rpc \in [Requests -> RPC]
  BY DEF TypeInv, AccountsTypeOK
<1>1. /\ rpc[r] = "find" /\ m.op = "update" /\ m.target \in Users
      /\ UNCHANGED <<tables, cache>>
  BY <1>t, TargetIs DEF FindUser, Shape
<1>2. CASE Over(r)
  BY <1>1, <1>2, OverKept, OverTypes
<1>3. CASE ~Over(r)
  <2>1. /\ Findable(m.target) /\ Go(r, step)
        /\ rmem' = [rmem EXCEPT ![r].row = next, ![r].was = users[m.target].status,
                                ![r].change = NoChange]
        /\ crossed' = crossed \cup (IF Updates = {} THEN {} ELSE Updates \cup {r})
        /\ UNCHANGED <<alone, live>>
    BY <1>3 DEF FindUser
  <2>2. next \in User /\ next.status # "absent"
    <3>1. /\ users[m.target] \in User /\ users[m.target].status # "absent"
          /\ m.change \in Change
      BY <1>t, <1>1, <2>1, MemoryFields DEF Findable
    <3>2. /\ m.change.role \in Roles \cup {Null}
          /\ m.change.status \in (Status \ {"absent"}) \cup {Null}
      BY <3>1 DEF Change
    <3> DEFINE role   == IF m.change.role = Null THEN users[m.target].role ELSE m.change.role
               status == IF m.change.status = Null THEN users[m.target].status
                                                   ELSE m.change.status
    <3>3. role \in Roles /\ status \in Status \ {"absent"}
      BY <3>1, <3>2 DEF User
    <3>4. next = [users[m.target] EXCEPT !.role = role, !.status = status]
      BY DEF Changed
    <3> HIDE DEF role, status, next
    <3>5. QED
      BY <3>1, <3>3, <3>4 DEF User
  <2>3. NoChange \in Change /\ users[m.target].status \in Status
    BY <1>t, <1>1 DEF NoChange, Change, User
  <2>4. step \in {"write", "current"} /\ step \in RPC \ {"idle"}
        /\ (step = "write" => IsActiveAdmin(next))
    BY DEF RPC
  <2> HIDE DEF next, step
  <2>5. /\ rmem' \in [Requests -> Memory] /\ \A s \in Requests \ {r} : rmem'[s] = rmem[s]
        /\ rmem'[r].op = m.op /\ rmem'[r].token = m.token /\ rmem'[r].actor = m.actor
        /\ rmem'[r].one = m.one /\ rmem'[r].target = m.target /\ rmem'[r].row = next
    BY <1>t, <2>1, <2>2, <2>3 DEF Memory
  <2>6. rpc'[r] = step /\ \A s \in Requests \ {r} : rpc'[s] = rpc[s]
    BY <2>1, <2>4, GoTypes
  <2>7. Shape(r)'
    BY <1>t, <1>1, <2>1, <2>2, <2>4, <2>5, <2>6 DEF Shape, AtDoor, tables, Findable
  <2>8. Updates \subseteq Running /\ r \in Running
    BY <1>1 DEF Updates, Running
  <2>9. TypeInv'
    BY <1>t, <1>1, <2>1, <2>4, <2>5, <2>7, <2>8, MovesTypes
  <2>10. QED
    BY <1>1, <2>1, <2>4, <2>5, <2>6, <2>9 DEF Mine
<1>4. QED
  BY <1>2, <1>3

\* Statements that only read, and either go on or refuse.
Reads(r, from, to) ==
    /\ rpc[r] = from /\ UNCHANGED <<tables, cache>>
    /\ Over(r) \/ (Go(r, to) /\ UNCHANGED <<rmem, history>>)

\* They keep the types.
LEMMA ReadsEffect ==
    ASSUME TypeInv, NEW r \in Requests, NEW from, NEW to, Reads(r, from, to),
           to # "create" \/ users[rmem[r].target].status # "absent",
           <<from, to>> \in {<<"current", "count">>, <<"current", "write">>,
                             <<"count", "write">>, <<"admins", "insert">>,
                             <<"lookup", "insert">>, <<"verify", "mark">>,
                             <<"login", "create">>}
    PROVE  TypeInv' /\ Mine(r) /\ (Over(r) \/ (rpc'[r] = to /\ UNCHANGED <<rmem, history>>))
<1>t. /\ Shape(r) /\ rmem \in [Requests -> Memory]
      /\ alone \subseteq Running /\ crossed \subseteq Running /\ live \subseteq Running
      /\ cache \subseteq Tokens \ SessionsOf(Null)
  BY DEF TypeInv, AccountsTypeOK
<1>1. CASE Over(r)
  BY <1>1, OverKept, OverTypes DEF Reads
<1>2. CASE Go(r, to) /\ UNCHANGED <<rmem, history>>
  <2>1. to \in {"count", "write", "insert", "mark", "create"} /\ to \in RPC \ {"idle"}
    BY DEF RPC
  <2>2. rpc'[r] = to /\ \A s \in Requests \ {r} : rpc'[s] = rpc[s]
    BY <1>2, <2>1, GoTypes
  <2>3. rpc[r] = from /\ UNCHANGED <<tables, cache, rmem, history>>
    BY <1>2 DEF Reads
  <2>4. Shape(r)'
    BY <1>t, <2>1, <2>2, <2>3 DEF Shape, AtDoor, tables
  <2>5. TypeInv'
    <3>1. rpc[r] # "idle"
      BY <2>3
    <3>2. QED
      BY <1>2, <1>t, <2>1, <2>3, <2>4, <3>1, MovesTypes DEF history
  <2>6. QED
    BY <1>2, <2>2, <2>3, <2>5 DEF Mine
<1>3. QED
  BY <1>1, <1>2 DEF Reads

ReadStep(r) == \/ FindCurrent(r) \/ CountActiveAdmins(r) \/ CountAdmins(r) \/ FindEmail(r)
               \/ FindPending(r) \/ FindLogin(r)

\* The statements that do so.
LEMMA ReadStepEffect ==
    ASSUME TypeInv, NEW r \in Requests, ReadStep(r)
    PROVE  /\ TypeInv' /\ Mine(r) /\ UNCHANGED <<tables, cache>>
           /\ \/ Over(r)
              \/ /\ rpc'[r] \in {"count", "write", "insert", "mark", "create"}
                 /\ UNCHANGED <<rmem, history>>
                 /\ rpc'[r] \in {"count", "write"} => rpc[r] \in {"current", "count"}
<1>t. Shape(r)
  BY DEF TypeInv
<1>1. CASE FindCurrent(r)
  <2>1. Reads(r, "current", "count") \/ Reads(r, "current", "write")
    BY <1>1 DEF FindCurrent, Reads
  <2>2. QED
    BY <1>1, <2>1, ReadsEffect DEF FindCurrent
<1>2. CASE CountActiveAdmins(r)
  <2>1. Reads(r, "count", "write")
    BY <1>2 DEF CountActiveAdmins, Reads
  <2>2. QED
    BY <1>2, <2>1, ReadsEffect DEF CountActiveAdmins
<1>3. CASE CountAdmins(r)
  <2>1. Reads(r, "admins", "insert")
    BY <1>3 DEF CountAdmins, Reads
  <2>2. QED
    BY <1>3, <2>1, ReadsEffect DEF CountAdmins
<1>4. CASE FindEmail(r)
  <2>1. Reads(r, "lookup", "insert")
    BY <1>4 DEF FindEmail, Reads
  <2>2. QED
    BY <1>4, <2>1, ReadsEffect DEF FindEmail
<1>5. CASE FindPending(r)
  <2>1. Reads(r, "verify", "mark")
    BY <1>5 DEF FindPending, Reads
  <2>2. QED
    BY <1>5, <2>1, ReadsEffect DEF FindPending
<1>6. CASE FindLogin(r)
  <2>1. CASE MayLogin(rmem[r].target)
    <3>1. Reads(r, "login", "create") /\ users[rmem[r].target].status # "absent"
      BY <1>6, <2>1 DEF FindLogin, Reads, MayLogin
    <3>2. QED
      BY <1>6, <3>1, ReadsEffect DEF FindLogin
  <2>2. CASE ~MayLogin(rmem[r].target)
    BY <1>6, <2>2, OverKept, OverTypes DEF FindLogin
  <2>3. QED
    BY <2>1, <2>2
<1>7. QED
  BY <1>1, <1>2, <1>3, <1>4, <1>5, <1>6 DEF ReadStep

\* An account is created, or its address was taken meanwhile.
LEMMA CreateUserEffect ==
    ASSUME TypeInv, NEW r \in Requests, CreateUser(r)
    PROVE  /\ TypeInv' /\ Mine(r) /\ UNCHANGED <<sessions, held, cache>>
           /\ rpc[r] = "insert" /\ rmem[r].op \in {"staff", "register", "bootstrap"}
           /\ \/ Over(r) /\ UNCHANGED users
              \/ /\ rpc'[r] = "done" /\ UNCHANGED <<rmem, history>>
                 /\ rmem[r].target \in Users /\ users[rmem[r].target].status = "absent"
                 /\ \A v \in Users \ {rmem[r].target} : users'[v] = users[v]
<1>t. /\ Shape(r) /\ rmem[r] \in Memory
      /\ alone \subseteq Running /\ crossed \subseteq Running /\ live \subseteq Running
  BY DEF TypeInv, AccountsTypeOK
<1>1. /\ rpc[r] = "insert" /\ rmem[r].op \in {"staff", "register", "bootstrap"}
      /\ UNCHANGED <<sessions, held, cache>> /\ rmem[r].row.status # "absent"
  BY <1>t DEF CreateUser, Shape
<1>2. CASE Over(r) /\ UNCHANGED users
  BY <1>1, <1>2, OverKept, OverTypes DEF tables
<1>3. CASE ~(Over(r) /\ UNCHANGED users)
  <2>1. /\ users[rmem[r].target].status = "absent"
        /\ users' = [users EXCEPT ![rmem[r].target] = rmem[r].row]
        /\ Go(r, "done") /\ UNCHANGED <<rmem, history>>
    BY <1>3 DEF CreateUser
  <2>2. rmem[r].target \in Users /\ rmem[r].row \in User /\ "done" \in RPC \ {"idle"}
    BY <1>t, <1>1, TargetIs, MemoryFields DEF RPC
  <2>3. /\ \A v \in Users \ {rmem[r].target} : users'[v] = users[v]
        /\ \A v \in Users : users[v].status # "absent" => users'[v].status # "absent"
    BY <1>1, <2>1, <2>2, UsersWritten
  <2>4. rpc'[r] = "done" /\ \A s \in Requests \ {r} : rpc'[s] = rpc[s]
    BY <2>1, <2>2, GoTypes
  <2>5. Shape(r)'
    <3>1. rmem[r].actor \in Users \cup {Null}
      BY <1>t, MemoryFields
    <3>2. QED
      BY <1>t, <1>1, <2>1, <2>3, <2>4, <3>1 DEF Shape, AtDoor
  <2>6. TypeInv'
    <3>1. rpc[r] # "idle" /\ alone' = alone /\ crossed' \subseteq Running
          /\ live' \subseteq Running /\ rmem' = rmem
      BY <1>1, <1>t, <2>1 DEF history
    <3>2. QED
      BY <1>1, <2>1, <2>2, <2>5, <3>1, WriteKept
  <2>7. QED
    BY <1>1, <2>1, <2>2, <2>3, <2>4, <2>6 DEF Mine
<1>4. QED
  BY <1>2, <1>3

\* The verification makes an account active, whatever it is by then.
LEMMA MarkEffect ==
    ASSUME TypeInv, NEW r \in Requests, MarkEmailVerified(r)
    PROVE  /\ TypeInv' /\ Mine(r) /\ UNCHANGED <<sessions, held, cache, rmem, alone>>
           /\ rpc[r] = "mark" /\ rpc'[r] = "done" /\ rmem[r].op = "verify"
           /\ rmem[r].target \in Users
           /\ users'[rmem[r].target].status = "active"
           /\ users'[rmem[r].target].role = users[rmem[r].target].role
           /\ \A v \in Users \ {rmem[r].target} : users'[v] = users[v]
<1> DEFINE u   == rmem[r].target
           row == [users[u] EXCEPT !.status = "active", !.token = FALSE]
<1>t. /\ Shape(r) /\ rmem[r] \in Memory /\ users \in [Users -> User]
      /\ alone \subseteq Running /\ crossed \subseteq Running /\ live \subseteq Running
  BY DEF TypeInv, AccountsTypeOK
<1>1. /\ rpc[r] = "mark" /\ rmem[r].op = "verify" /\ u \in Users
      /\ Go(r, "done") /\ "done" \in RPC \ {"idle"}
      /\ UNCHANGED <<sessions, held, cache, rmem, alone>>
  BY <1>t, TargetIs DEF MarkEmailVerified, Shape, RPC
<1>2. row \in User /\ row.status = "active" /\ row.role = users[u].role
  BY <1>t, <1>1 DEF User, Status
<1>3. users' = [users EXCEPT ![u] = row]
  BY <1>t, <1>1 DEF MarkEmailVerified
<1> HIDE DEF row
<1>4. /\ users' \in [Users -> User] /\ users'[u] = row
      /\ \A v \in Users \ {u} : users'[v] = users[v]
      /\ \A v \in Users : users[v].status # "absent" => users'[v].status # "absent"
  BY <1>1, <1>2, <1>3, UsersWritten
<1>5. crossed' \subseteq Running /\ live' \subseteq Running
  BY <1>t DEF MarkEmailVerified, StillLive, Updates, Running
<1>6. rpc'[r] = "done" /\ \A s \in Requests \ {r} : rpc'[s] = rpc[s]
  BY <1>1, GoTypes
<1>7. Shape(r)'
  <2>1. rmem[r].actor \in Users \cup {Null}
    BY <1>t, MemoryFields
  <2>2. QED
    BY <1>t, <1>1, <1>4, <1>6, <2>1 DEF Shape, AtDoor
<1>8. TypeInv'
  BY <1>1, <1>2, <1>3, <1>5, <1>7, WriteKept
<1>9. QED
  BY <1>1, <1>2, <1>4, <1>6, <1>8 DEF Mine

\* A login creates a session of a user who is there, and answers its token.
LEMMA LoginEffect ==
    ASSUME TypeInv, NEW r \in Requests, CreateSession(r) \/ StoreLogin(r)
    PROVE  /\ TypeInv' /\ Mine(r) /\ UNCHANGED users /\ rmem[r].op = "login"
           /\ rpc[r] \in {"create", "store"}
           /\ \/ Over(r)
              \/ rpc'[r] = "store" /\ rmem'[r].op = "login" /\ rmem'[r].actor = rmem[r].actor
                 /\ UNCHANGED <<history>>
<1>t. /\ Shape(r) /\ rmem \in [Requests -> Memory] /\ rmem[r] \in Memory
      /\ alone \subseteq Running /\ crossed \subseteq Running /\ live \subseteq Running
      /\ sessions \in [Tokens -> Session] /\ users \in [Users -> User]
      /\ cache \cup held \subseteq Tokens \ SessionsOf(Null)
  BY DEF TypeInv, AccountsTypeOK
<1>1. CASE CreateSession(r)
  <2>1. PICK t \in SessionsOf(Null) :
            /\ sessions' = [sessions EXCEPT ![t].user = rmem[r].target]
            /\ rmem' = [rmem EXCEPT ![r].token = t]
    BY <1>1 DEF CreateSession
  <2>2. /\ rpc[r] = "create" /\ Go(r, "store") /\ UNCHANGED <<users, held, cache, history>>
        /\ rmem[r].op = "login" /\ users[rmem[r].target].status # "absent"
        /\ "store" \in RPC \ {"idle"}
    BY <1>t, <1>1 DEF CreateSession, Shape, RPC
  <2>3. rmem[r].target \in Users /\ t \in Tokens /\ sessions[t].user = Null
        /\ rmem[r].target # Null /\ t # Null
    BY <2>2, TargetIs, AccountsAssumption DEF SessionsOf
  <2>4. /\ sessions' \in [Tokens -> Session] /\ sessions'[t].user = rmem[r].target
        /\ \A x \in Tokens \ {t} : sessions'[x] = sessions[x]
    BY <1>t, <2>1, <2>3 DEF Session
  <2>5. /\ rmem' \in [Requests -> Memory] /\ \A s \in Requests \ {r} : rmem'[s] = rmem[s]
        /\ rmem'[r].op = "login" /\ rmem'[r].token = t /\ rmem'[r].actor = rmem[r].actor
        /\ rmem'[r].one = rmem[r].one /\ rmem'[r].target = rmem[r].target
        /\ rmem'[r].row = rmem[r].row
    BY <1>t, <2>1, <2>2, <2>3 DEF Memory
  <2>6. /\ rpc' \in [Requests -> RPC] /\ rpc'[r] = "store"
        /\ \A s \in Requests \ {r} : rpc'[s] = rpc[s]
    BY <2>2, GoTypes
  <2>7. Running' = Running \cup {r}
    BY <2>2, GoTypes
  <2>8. Control /\ Mine(r)
    BY <1>t, <2>2, <2>5, <2>6, <2>7 DEF Control, Mine, history
  <2>9. Shape(r)'
    BY <1>t, <2>2, <2>3, <2>4, <2>5, <2>6 DEF Shape, AtDoor
  <2>10. Stay
    BY <2>2, <2>3, <2>4 DEF Stay
  <2>11. cache' \cup held' \subseteq Tokens \ SessionsOf(Null)'
    BY <1>t, <2>2, <2>3, <2>4 DEF SessionsOf
  <2>12. \A x \in Tokens : sessions[x].user = Null /\ sessions'[x].user # Null
                              => users[sessions'[x].user].status # "absent"
    BY <2>2, <2>4
  <2>13. users' \in [Users -> User]
    BY <1>t, <2>2
  <2>14. TypeInv'
    BY <2>4, <2>8, <2>9, <2>10, <2>11, <2>12, <2>13, TypeKept
  <2>15. QED
    BY <2>2, <2>5, <2>6, <2>8, <2>14
<1>2. CASE StoreLogin(r)
  <2>1. /\ Over(r) /\ UNCHANGED <<users, sessions>> /\ rpc[r] = "store"
        /\ cache' = cache \cup {rmem[r].token} /\ held' = held \cup {rmem[r].token}
        /\ rmem[r].op = "login"
    BY <1>2, <1>t DEF StoreLogin, Shape
  <2>2. rmem[r].token \in Tokens \ SessionsOf(Null)
    BY <1>t, <2>1, MemoryFields DEF Shape, SessionsOf
  <2>3. Control /\ Mine(r) /\ Shape(r)'
    BY <2>1, OverTypes
  <2>4. Stay /\ SessionsOf(Null)' = SessionsOf(Null)
    BY <2>1 DEF Stay, SessionsOf
  <2>5. TypeInv'
    BY <1>t, <2>1, <2>2, <2>3, <2>4, TypeKept
  <2>6. QED
    BY <2>1, <2>3, <2>5
<1>3. QED
  BY <1>1, <1>2

\* Nobody has an account, and nothing runs.
LEMMA TypeInit == Init => TypeInv
<1> SUFFICES ASSUME Init PROVE TypeInv
  OBVIOUS
<1>1. users \in [Users -> User] /\ rmem \in [Requests -> Memory] /\ rpc \in [Requests -> RPC]
  BY NothingType DEF Init, RPC
<1>2. sessions \in [Tokens -> Session] /\ SessionsOf(Null) = Tokens
  BY DEF Init, Session, SessionsOf
<1>3. ASSUME NEW r \in Requests PROVE Shape(r)
  BY DEF Init, Shape, Nothing, AtDoor, AdminOps
<1>4. QED
  BY <1>1, <1>2, <1>3 DEF TypeInv, AccountsTypeOK, Init

DoorStep(r) == \/ Get(r) \/ FindFresh(r) \/ FindSession(r) \/ FindOwner(r) \/ Save(r)
               \/ Me(r) \/ Answer(r)

RevokeStep(r) == RevokeToken(r) \/ RevokeSession(r) \/ RevokeSessionsByUser(r)

\* Every step keeps the types.
LEMMA TypeNext == TypeInv /\ [Next]_avars => TypeInv'
<1> SUFFICES ASSUME TypeInv, [Next]_avars PROVE TypeInv'
  OBVIOUS
<1>1. CASE UNCHANGED avars
  <2>1. UNCHANGED <<users, sessions, cache, held, rpc, rmem, alone, crossed, live>>
    BY <1>1 DEF avars, tables, history
  <2>2. SessionsOf(Null)' = SessionsOf(Null) /\ Running' = Running
    BY <2>1 DEF SessionsOf, Running
  <2>3. AccountsTypeOK'
    BY <2>1, <2>2 DEF TypeInv, AccountsTypeOK
  <2>4. \A r \in Requests : Shape(r)'
    BY <2>1 DEF TypeInv, Shape
  <2>5. QED
    BY <2>3, <2>4 DEF TypeInv
<1>2. ASSUME NEW r \in Requests, Begins(r) PROVE TypeInv'
  BY <1>2, BeginsTypes
<1>3. ASSUME NEW r \in Requests, RequestStep(r) PROVE TypeInv'
  <2>1. CASE DoorStep(r)
    BY <2>1, DoorTypes DEF DoorStep
  <2>2. CASE RevokeStep(r)
    <3>1. \E set, step, list : Revokes(r, set, step, list)
      BY <2>2, RevokesStep DEF RevokeStep
    <3>2. QED
      BY <3>1, RevokesEffect
  <2>3. CASE Drop(r) \/ ListSessions(r) \/ Delete(r)
    BY <2>3, DropTypes
  <2>4. CASE FindUser(r)
    BY <2>4, FindUserEffect
  <2>5. CASE UpdateUser(r)
    BY <2>5, UpdateUserEffect
  <2>6. CASE ReadStep(r)
    BY <2>6, ReadStepEffect
  <2>7. CASE CreateUser(r) \/ MarkEmailVerified(r)
    BY <2>7, CreateUserEffect, MarkEffect
  <2>8. CASE CreateSession(r) \/ StoreLogin(r)
    BY <2>8, LoginEffect
  <2>9. QED
    BY <1>3, <2>1, <2>2, <2>3, <2>4, <2>5, <2>6, <2>7, <2>8
       DEF RequestStep, DoorStep, RevokeStep, ReadStep
<1>4. ASSUME NEW r \in Requests, Abort(r) PROVE TypeInv'
  BY <1>4, OverKept DEF Abort
<1>5. ASSUME NEW t \in Tokens, Evict(t) PROVE TypeInv'
  <2>1. UNCHANGED <<users, sessions, held, rpc, rmem, alone, crossed, live>>
        /\ cache' \subseteq cache
    BY <1>5 DEF Evict, tables, history
  <2>2. SessionsOf(Null)' = SessionsOf(Null) /\ Running' = Running
    BY <2>1 DEF SessionsOf, Running
  <2>3. AccountsTypeOK' /\ \A r \in Requests : Shape(r)'
    BY <2>1, <2>2 DEF TypeInv, AccountsTypeOK, Shape
  <2>4. QED
    BY <2>3 DEF TypeInv
<1>6. QED
  BY <1>1, <1>2, <1>3, <1>4, <1>5 DEF Next, Begins

\* Types, and that a session always has a user whose account is there, for any
\* number of users, of sessions and of requests at once.
THEOREM AccountsTypes == Spec => []AccountsTypeOK
<1>1. TypeInv => AccountsTypeOK
  BY DEF TypeInv
<1>2. QED
  BY <1>1, TypeInit, TypeNext, PTL DEF Spec

-----------------------------------------------------------------------------
(* Who is served *)

Asking == {"get", "fresh", "session", "owner"}

\* What the authentication leads to.
LEMMA DoorEffect ==
    ASSUME TypeInv, NEW r \in Requests, DoorStep(r)
    PROVE  /\ Mine(r) /\ UNCHANGED tables /\ rpc[r] # "idle"
           /\ \/ Over(r) /\ UNCHANGED cache
              \/ /\ rpc'[r] \in Asking \cup {"save", "me", "drop", "findOne", "list", "find",
                                          "lookup"}
                 /\ rpc[r] \in AtDoor
                 /\ crossed' = crossed /\ live' = live /\ alone' \subseteq alone
                 /\ rmem'[r].actor = rmem[r].actor
                 /\ rpc[r] \in Asking /\ rpc'[r] \notin Asking =>
                       users[rmem[r].actor].status = "active"
<1>t. Shape(r) /\ rmem \in [Requests -> Memory] /\ rpc \in [Requests -> RPC]
  BY DEF TypeInv, AccountsTypeOK
<1>h. rpc[r] \in AtDoor =>
        Handler(rmem[r].op) \in {"me", "drop", "findOne", "list", "find", "lookup"}
  BY <1>t DEF Shape, Handler, AdminOps
<1>g. ASSUME NEW step \in Asking \cup {"save", "me", "drop", "findOne", "list", "find", "lookup"},
             Go(r, step)
      PROVE  rpc'[r] = step /\ \A s \in Requests \ {r} : rpc'[s] = rpc[s]
  <2>1. step \in RPC \ {"idle"}
    BY DEF RPC, Asking
  <2>2. QED
    BY <1>g, <2>1, GoTypes
<1>o. ASSUME Over(r), UNCHANGED <<tables, cache>>, rpc[r] # "idle"
      PROVE  Mine(r) /\ UNCHANGED <<tables, cache>>
  BY <1>o, OverTypes
<1>1. CASE Get(r)
  <2>1. PICK step \in {"fresh", "session"} : Go(r, step)
    BY <1>1 DEF Get
  <2>2. rpc'[r] = step /\ \A s \in Requests \ {r} : rpc'[s] = rpc[s]
    BY <1>g, <2>1 DEF Asking
  <2>3. QED
    BY <1>1, <2>2 DEF Get, Mine, AtDoor, Asking
<1>2. CASE FindFresh(r)
  <2>1. CASE Over(r)
    BY <1>2, <1>o, <2>1 DEF FindFresh
  <2>2. CASE ~Over(r)
    <3>1. /\ Go(r, Handler(rmem[r].op)) /\ UNCHANGED <<tables, cache, rmem, history>>
          /\ rpc[r] = "fresh" /\ users[rmem[r].actor].status = "active"
      BY <1>2, <2>2 DEF FindFresh, IsActive
    <3>2. Handler(rmem[r].op) \in {"me", "drop", "findOne", "list", "find", "lookup"}
      BY <1>h, <3>1 DEF AtDoor
    <3>3. rpc'[r] = Handler(rmem[r].op) /\ \A s \in Requests \ {r} : rpc'[s] = rpc[s]
      BY <1>g, <3>1, <3>2
    <3>4. QED
      BY <3>1, <3>2, <3>3 DEF Mine, AtDoor, history
  <2>3. QED
    BY <2>1, <2>2
<1>3. CASE FindSession(r)
  <2>1. CASE Over(r)
    BY <1>3, <1>o, <2>1 DEF FindSession
  <2>2. CASE ~Over(r)
    <3>1. /\ Go(r, "owner") /\ UNCHANGED <<tables, cache, rmem, history>> /\ rpc[r] = "session"
      BY <1>3, <2>2 DEF FindSession
    <3>2. rpc'[r] = "owner" /\ \A s \in Requests \ {r} : rpc'[s] = rpc[s]
      BY <1>g, <3>1 DEF Asking
    <3>3. QED
      BY <3>1, <3>2 DEF Mine, AtDoor, Asking, history
  <2>3. QED
    BY <2>1, <2>2
<1>4. CASE FindOwner(r)
  <2>1. CASE Over(r)
    BY <1>4, <1>o, <2>1 DEF FindOwner
  <2>2. CASE ~Over(r)
    <3>1. /\ Go(r, "save") /\ UNCHANGED <<tables, cache, history>> /\ rpc[r] = "owner"
          /\ rmem' = IF MayCall(r) THEN rmem ELSE [rmem EXCEPT ![r].op = "me"]
          /\ users[rmem[r].actor].status = "active"
      BY <1>4, <2>2 DEF FindOwner, IsActive
    <3>2. /\ rmem'[r].actor = rmem[r].actor
          /\ \A s \in Requests \ {r} : rmem'[s] = rmem[s]
      BY <1>t, <3>1 DEF Memory
    <3>3. rpc'[r] = "save" /\ \A s \in Requests \ {r} : rpc'[s] = rpc[s]
      BY <1>g, <3>1
    <3>4. QED
      BY <3>1, <3>2, <3>3 DEF Mine, AtDoor, history
  <2>3. QED
    BY <2>1, <2>2
<1>5. CASE Save(r)
  <2>1. /\ Go(r, Handler(rmem[r].op)) /\ UNCHANGED <<tables, rmem, crossed, live>>
        /\ rpc[r] = "save" /\ alone' \subseteq alone
    BY <1>5 DEF Save, Redis
  <2>2. Handler(rmem[r].op) \in {"me", "drop", "findOne", "list", "find", "lookup"}
    BY <1>h, <2>1 DEF AtDoor
  <2>3. rpc'[r] = Handler(rmem[r].op) /\ \A s \in Requests \ {r} : rpc'[s] = rpc[s]
    BY <1>g, <2>1, <2>2
  <2>4. QED
    BY <2>1, <2>2, <2>3 DEF Mine, AtDoor, Asking
<1>6. CASE Me(r) \/ Answer(r)
  BY <1>6, <1>o DEF Me, Answer
<1>7. QED
  BY <1>1, <1>2, <1>3, <1>4, <1>5, <1>6 DEF DoorStep

\* A request whose user is active is in the history, from its first step on.
LiveShape(r) ==
    rpc[r] # "idle" /\ rmem[r].actor # Null =>
        /\ users[rmem[r].actor].status = "active" => r \in live
        /\ rpc[r] \notin Asking => r \in live

LiveInv == \A r \in Requests : LiveShape(r)

\* The requests that make no user active have little to show.
LEMMA LiveKept ==
    ASSUME LiveInv, NEW r \in Requests, Mine(r), UNCHANGED users,
           \A s \in live : s \in live' \/ s = r,
           \/ rpc'[r] = "idle"
           \/ /\ live' = live /\ rpc[r] # "idle"
              /\ rmem'[r].actor = rmem[r].actor
              /\ \/ rpc'[r] \in Asking
                 \/ rpc[r] \notin Asking
                 \/ users[rmem[r].actor].status = "active"
    PROVE  LiveInv'
  BY DEF LiveInv, LiveShape, Mine

\* A step that makes a user active enters all of the requests of the user.
LEMMA LiveWritten ==
    ASSUME TypeInv, LiveInv, NEW r \in Requests, Mine(r), rmem' = rmem, rpc[r] \notin Asking,
           rpc[r] # "idle",
           \/ StillLive
           \/ live' = live /\ \A u \in Users : users[u].status # "absent" => users'[u] = users[u]
    PROVE  LiveInv'
<1> SUFFICES ASSUME NEW s \in Requests, rpc'[s] # "idle", rmem[s].actor # Null
             PROVE  LiveShape(s)'
  BY DEF LiveInv, LiveShape
<1>1. rpc[s] # "idle" /\ (rpc'[s] = rpc[s] \/ s = r)
  BY DEF Mine
<1>2. rmem[s].actor \in Users /\ users[rmem[s].actor].status # "absent"
  BY MemoryFields DEF TypeInv, AccountsTypeOK, Shape
<1>3. CASE StillLive
  BY <1>1, <1>2, <1>3 DEF StillLive, LiveInv, LiveShape, Running
<1>4. CASE live' = live /\ \A u \in Users : users[u].status # "absent" => users'[u] = users[u]
  BY <1>1, <1>2, <1>4 DEF LiveInv, LiveShape
<1>5. QED
  BY <1>3, <1>4

\* Every step keeps it.
LEMMA LiveNext == TypeInv /\ LiveInv /\ [Next]_avars => LiveInv'
<1> SUFFICES ASSUME TypeInv, LiveInv, [Next]_avars PROVE LiveInv'
  OBVIOUS
<1>o. ASSUME NEW r \in Requests, Over(r), UNCHANGED users PROVE LiveInv'
  BY <1>o, OverTypes, LiveKept
<1>1. CASE UNCHANGED <<users, rpc, rmem, live>>
  BY <1>1 DEF LiveInv, LiveShape
<1>2. ASSUME NEW r \in Requests, Begins(r) PROVE LiveInv'
  <2>1. PICK step \in AtStart, call \in Memory : CallShape(step, call) /\ Begin(r, step, call)
    BY <1>2, BeginsCall
  <2>2. /\ Mine(r) /\ UNCHANGED users /\ rpc'[r] = step /\ rmem'[r] = call
        /\ live' = live \cup {s \in {r} : call.actor # Null
                                            /\ users[call.actor].status = "active"}
    BY <2>1, BeginTypes DEF CallShape, tables
  <2>3. step # "get" => call.actor = Null
    BY <2>1 DEF CallShape
  <2>4. QED
    BY <2>2, <2>3 DEF LiveInv, LiveShape, Mine, Asking
<1>3. ASSUME NEW r \in Requests, RequestStep(r) PROVE LiveInv'
  <2>1. CASE DoorStep(r)
    BY <2>1, <1>o, DoorEffect, LiveKept DEF tables
  <2>2. CASE RevokeStep(r)
    <3>1. PICK set, step, list : Revokes(r, set, step, list)
      BY <2>2, RevokesStep DEF RevokeStep
    <3>2. rpc[r] \notin Asking \cup {"idle"}
      BY <3>1 DEF Revokes, Asking
    <3>3. Mine(r) /\ UNCHANGED <<users, history>> /\ rmem'[r].actor = rmem[r].actor
      BY <3>1, RevokesEffect
    <3>4. QED
      BY <3>2, <3>3, LiveKept DEF history
  <2>3. CASE Drop(r) \/ ListSessions(r) \/ Delete(r)
    <3>1. rpc[r] \notin Asking \cup {"idle"}
      BY <2>3 DEF Drop, ListSessions, Delete, Asking
    <3>2. QED
      BY <2>3, <3>1, DropTypes, LiveKept DEF tables
  <2>4. CASE FindUser(r)
    <3>1. rpc[r] \notin Asking \cup {"idle"}
      BY <2>4 DEF FindUser, Asking
    <3>2. QED
      BY <2>4, <3>1, <1>o, FindUserEffect, LiveKept DEF tables
  <2>5. CASE UpdateUser(r)
    BY <2>5, UpdateUserEffect, LiveWritten DEF UpdateUser, Asking
  <2>6. CASE ReadStep(r)
    <3>1. rpc[r] \notin Asking \cup {"idle"}
      BY <2>6 DEF ReadStep, FindCurrent, CountActiveAdmins, CountAdmins, FindEmail,
         FindPending, FindLogin, Asking
    <3>2. QED
      BY <2>6, <3>1, <1>o, ReadStepEffect, LiveKept DEF tables, history
  <2>7. CASE CreateUser(r)
    <3>1. CASE Over(r) /\ UNCHANGED users
      BY <3>1, <1>o
    <3>2. CASE ~(Over(r) /\ UNCHANGED users)
      <4>1. /\ Mine(r) /\ rpc[r] = "insert" /\ UNCHANGED <<rmem, history>>
            /\ \A u \in Users : users[u].status # "absent" => users'[u] = users[u]
        BY <2>7, <3>2, CreateUserEffect
      <4>2. QED
        BY <4>1, LiveWritten DEF history, Asking
    <3>3. QED
      BY <3>1, <3>2
  <2>8. CASE MarkEmailVerified(r)
    BY <2>8, MarkEffect, LiveWritten DEF MarkEmailVerified, Asking
  <2>9. CASE CreateSession(r) \/ StoreLogin(r)
    <3>1. rpc[r] \notin Asking \cup {"idle"}
      BY <2>9 DEF CreateSession, StoreLogin, Asking
    <3>2. QED
      BY <2>9, <3>1, <1>o, LoginEffect, LiveKept DEF history
  <2>10. QED
    BY <1>3, <2>1, <2>2, <2>3, <2>4, <2>5, <2>6, <2>7, <2>8, <2>9
       DEF RequestStep, DoorStep, RevokeStep, ReadStep
<1>4. ASSUME NEW r \in Requests, Abort(r) PROVE LiveInv'
  BY <1>4, <1>o DEF Abort, tables
<1>5. QED
  BY <1>1, <1>2, <1>3, <1>4 DEF Next, Begins, Evict, avars, tables, history

\* A user who was suspended or deleted before a call began is not served by it,
\* for any number of users, sessions and requests at once.
THEOREM OnlyActiveAreServed == Spec => []OnlyActiveServed
<1>1. Init => LiveInv
  BY DEF Init, LiveInv, LiveShape
<1>2. TypeInv /\ LiveInv => OnlyActiveServed
  BY DEF LiveInv, LiveShape, OnlyActiveServed, Running, Asking
<1>3. QED
  BY <1>1, <1>2, TypeInit, TypeNext, LiveNext, PTL DEF Spec

-----------------------------------------------------------------------------
(* Who remains *)

\* What the update of a request writes leaves an active administrator, if there is one.
SafeWrite(r) ==
    \/ IsActiveAdmin(rmem[r].row)
    \/ rmem[r].target \notin ActiveAdmins
    \/ ActiveAdmins \ {rmem[r].target} # {}

\* An update that has met no other is the only one, and what it has read of the
\* administrators is still so.
CrossInv ==
    \A r \in Updates \ crossed :
        Updates = {r} /\ (rpc[r] = "write" => SafeWrite(r))

AdminStep ==
    ActiveAdmins # {} /\ ActiveAdmins' = {} =>
        \E r \in crossed : rpc[r] = "write" /\ rpc'[r] # "write"

\* A step that is not of an update and writes no user.
LEMMA CrossKept ==
    ASSUME CrossInv, NEW r \in Requests, Mine(r), UNCHANGED users,
           \A s \in crossed : s \in crossed' \/ s = r,
           rpc'[r] \notin {"current", "count", "write"}
    PROVE  CrossInv' /\ AdminStep
<1>1. Updates' = Updates \ {r} /\ ActiveAdmins' = ActiveAdmins
  BY DEF Updates, ActiveAdmins, Mine
<1>2. ASSUME NEW s \in (Updates \ crossed)'
      PROVE  Updates' = {s} /\ (rpc'[s] = "write" => SafeWrite(s)')
  <2>1. s \in Updates \ crossed /\ s # r /\ rpc'[s] = rpc[s] /\ rmem'[s] = rmem[s]
    BY <1>1, <1>2 DEF Mine, Updates
  <2>2. Updates = {s} /\ (rpc[s] = "write" => SafeWrite(s))
    BY <2>1 DEF CrossInv
  <2>3. Updates' = {s}
    BY <1>1, <2>1, <2>2
  <2>4. QED
    BY <1>1, <2>1, <2>2, <2>3 DEF SafeWrite
<1>3. CrossInv'
  BY <1>2 DEF CrossInv
<1>4. QED
  BY <1>1, <1>3 DEF AdminStep

\* A statement that only adds active users, and none that an update which has met
\* nobody is to write.
LEMMA CrossAdded ==
    ASSUME CrossInv, NEW r \in Requests, Mine(r), rmem' = rmem, NEW u \in Users,
           \A v \in Users \ {u} : users'[v] = users[v],
           u \in ActiveAdmins => u \in ActiveAdmins',
           crossed \subseteq crossed', r \notin Updates,
           rpc'[r] \notin {"current", "count", "write"},
           \A s \in Updates \ crossed' : rmem[s].target # u
    PROVE  CrossInv' /\ AdminStep
<1>1. Updates' = Updates
  BY DEF Updates, Mine
<1>2. ActiveAdmins \subseteq ActiveAdmins' /\ ActiveAdmins' \subseteq ActiveAdmins \cup {u}
  BY DEF ActiveAdmins
<1>3. ASSUME NEW s \in (Updates \ crossed)'
      PROVE  Updates' = {s} /\ (rpc'[s] = "write" => SafeWrite(s)')
  <2>0. s \in Updates /\ s \notin crossed' /\ s \in Requests
    BY <1>1, <1>3 DEF Updates
  <2>1. s \in Updates \ crossed /\ rpc'[s] = rpc[s] /\ rmem'[s] = rmem[s]
        /\ rmem[s].target # u
    BY <2>0 DEF Mine
  <2>2. Updates = {s} /\ (rpc[s] = "write" => SafeWrite(s))
    BY <2>1 DEF CrossInv
  <2>3. QED
    BY <1>1, <1>2, <2>1, <2>2 DEF SafeWrite
<1>4. QED
  BY <1>2, <1>3 DEF CrossInv, AdminStep

\* A user with no other administrator counts one at most.
LEMMA OneAdmin ==
    ASSUME NEW u \in Users, Cardinality(ActiveAdmins) > 1
    PROVE  ActiveAdmins \ {u} # {}
<1> SUFFICES ASSUME ActiveAdmins \subseteq {u} PROVE FALSE
  OBVIOUS
<1>1. IsFiniteSet({u}) /\ Cardinality({u}) = 1
  BY FS_Singleton
<1>2. Cardinality(ActiveAdmins) <= Cardinality({u}) /\ IsFiniteSet(ActiveAdmins)
  BY <1>1, FS_Subset
<1>3. Cardinality(ActiveAdmins) \in Nat
  BY <1>2, FS_CardinalityType
<1>4. QED
  BY <1>1, <1>2, <1>3

\* Every step keeps it, and no step of an update that met nobody takes the last
\* administrator.
LEMMA CrossNext == TypeInv /\ CrossInv /\ [Next]_avars => CrossInv' /\ AdminStep
<1> SUFFICES ASSUME TypeInv, CrossInv, [Next]_avars PROVE CrossInv' /\ AdminStep
  OBVIOUS
<1>o. ASSUME NEW r \in Requests, Over(r), UNCHANGED users PROVE CrossInv' /\ AdminStep
  BY <1>o, OverTypes, CrossKept
<1>1. CASE UNCHANGED <<users, rpc, rmem, crossed>>
  BY <1>1 DEF CrossInv, AdminStep, Updates, SafeWrite, ActiveAdmins
<1>2. ASSUME NEW r \in Requests, Begins(r) PROVE CrossInv' /\ AdminStep
  <2>1. PICK step \in AtStart, call \in Memory : CallShape(step, call) /\ Begin(r, step, call)
    BY <1>2, BeginsCall
  <2>2. /\ Mine(r) /\ UNCHANGED <<users, crossed>> /\ rpc'[r] = step
    BY <2>1, BeginTypes DEF CallShape, tables
  <2>3. QED
    BY <2>2, CrossKept DEF AtStart
<1>3. ASSUME NEW r \in Requests, RequestStep(r) PROVE CrossInv' /\ AdminStep
  <2>t. TypeInv' /\ rpc \in [Requests -> RPC]
    BY TypeNext DEF TypeInv, AccountsTypeOK
  <2>1. CASE DoorStep(r)
    BY <2>1, <1>o, DoorEffect, CrossKept DEF tables, Asking
  <2>2. CASE RevokeStep(r)
    <3>1. PICK set, step, list : Revokes(r, set, step, list)
      BY <2>2, RevokesStep DEF RevokeStep
    <3>2. Mine(r) /\ UNCHANGED <<users, history>> /\ rpc'[r] = step
      BY <3>1, RevokesEffect
    <3>3. step \in {"done", "delete"}
      BY <3>1 DEF Revokes
    <3>4. QED
      BY <3>2, <3>3, CrossKept DEF history
  <2>3. CASE Drop(r) \/ ListSessions(r) \/ Delete(r)
    BY <2>3, DropTypes, CrossKept DEF tables
  <2>4. CASE FindUser(r)
    <3>1. CASE Over(r)
      BY <2>4, <3>1, <1>o, FindUserEffect DEF tables
    <3>2. CASE ~Over(r)
      <4>1. /\ Mine(r) /\ UNCHANGED users /\ rpc[r] = "find"
            /\ rpc'[r] \in {"write", "current"}
            /\ rpc'[r] = "write" => IsActiveAdmin(rmem'[r].row)
            /\ crossed' = crossed \cup (IF Updates = {} THEN {} ELSE Updates \cup {r})
        BY <2>4, <3>2, FindUserEffect DEF tables
      <4>2. Updates' = Updates \cup {r} /\ r \notin Updates /\ ActiveAdmins' = ActiveAdmins
        BY <4>1 DEF Updates, Mine, ActiveAdmins
      <4>3. CASE Updates = {}
        BY <4>1, <4>2, <4>3 DEF CrossInv, SafeWrite, AdminStep
      <4>4. CASE Updates # {}
        BY <4>1, <4>2, <4>4 DEF CrossInv, AdminStep
      <4>5. QED
        BY <4>3, <4>4
    <3>3. QED
      BY <3>1, <3>2
  <2>5. CASE UpdateUser(r)
    <3> DEFINE u == rmem[r].target
    <3>1. /\ Mine(r) /\ rmem' = rmem /\ rpc[r] = "write" /\ crossed' = crossed
          /\ rpc'[r] \in {"list", "done"} /\ u \in Users
          /\ users'[u].role = rmem[r].row.role /\ users'[u].status = rmem[r].row.status
          /\ \A v \in Users \ {u} : users'[v] = users[v]
      BY <2>5, UpdateUserEffect DEF UpdateUser
    <3>2. r \in Updates /\ Updates' = Updates \ {r}
      BY <3>1 DEF Updates, Mine
    <3>3. CrossInv'
      BY <3>1, <3>2 DEF CrossInv
    <3>4. CASE r \in crossed
      BY <3>1, <3>3, <3>4 DEF AdminStep
    <3>5. CASE r \notin crossed
      <4>1. SafeWrite(r)
        BY <3>1, <3>2, <3>5 DEF CrossInv
      <4>2. ActiveAdmins \ {u} \subseteq ActiveAdmins'
        BY <3>1 DEF ActiveAdmins
      <4>3. IsActiveAdmin(rmem[r].row) => u \in ActiveAdmins'
        BY <3>1 DEF IsActiveAdmin, ActiveAdmins
      <4>4. QED
        BY <3>3, <4>1, <4>2, <4>3 DEF SafeWrite, AdminStep
    <3>6. QED
      BY <3>4, <3>5
  <2>6. CASE ReadStep(r)
    <3>1. CASE Over(r) \/ rpc'[r] \notin {"count", "write"}
      <4>1. CASE Over(r)
        BY <2>6, <4>1, <1>o, ReadStepEffect DEF tables
      <4>2. CASE ~Over(r) /\ rpc'[r] \notin {"count", "write"}
        BY <2>6, <4>2, ReadStepEffect, CrossKept DEF tables, history
      <4>3. QED
        BY <3>1, <4>1, <4>2
    <3>2. CASE ~Over(r) /\ rpc'[r] \in {"count", "write"}
      <4>1. /\ Mine(r) /\ UNCHANGED <<users, rmem, crossed>>
            /\ rpc[r] \in {"current", "count"}
        BY <2>6, <3>2, ReadStepEffect DEF tables, history
      <4>2. Updates' = Updates /\ ActiveAdmins' = ActiveAdmins
        BY <3>2, <4>1 DEF Updates, Mine, ActiveAdmins
      <4>3. rpc'[r] = "write" => SafeWrite(r)
        <5>1. CASE FindCurrent(r) /\ rpc'[r] = "write"
          <6>1. Go(r, IF rmem[r].target \in ActiveAdmins THEN "count" ELSE "write")
            BY <3>2, <5>1 DEF FindCurrent
          <6>2. rmem[r].target \notin ActiveAdmins
            BY <5>1, <6>1, <2>t DEF Go
          <6>3. QED
            BY <6>2 DEF SafeWrite
        <5>2. CASE CountActiveAdmins(r)
          <6>1. Cardinality(ActiveAdmins) > 1
            BY <3>2, <5>2 DEF CountActiveAdmins, AnotherRemains
          <6>2. rmem[r].target \in Users
            BY <5>2, TargetIs DEF CountActiveAdmins, TypeInv, Shape
          <6>3. QED
            BY <6>1, <6>2, OneAdmin DEF SafeWrite
        <5>3. QED
          BY <2>6, <4>1, <5>1, <5>2
             DEF ReadStep, CountAdmins, FindEmail, FindPending, FindLogin
      <4>4. ASSUME NEW s \in (Updates \ crossed)'
            PROVE  Updates' = {s} /\ (rpc'[s] = "write" => SafeWrite(s)')
        <5>0. s \in Updates /\ s \notin crossed /\ s \in Requests
          BY <4>1, <4>2, <4>4 DEF Updates
        <5>1. s \in Updates \ crossed /\ (s = r \/ rpc'[s] = rpc[s])
          BY <4>1, <5>0 DEF Mine
        <5>2. Updates = {s} /\ (rpc[s] = "write" => SafeWrite(s))
          BY <5>1 DEF CrossInv
        <5>3. QED
          BY <4>1, <4>2, <4>3, <5>1, <5>2 DEF SafeWrite
      <4>5. QED
        BY <4>2, <4>4 DEF CrossInv, AdminStep
    <3>3. QED
      BY <3>1, <3>2
  <2>7. CASE CreateUser(r)
    <3>1. CASE Over(r) /\ UNCHANGED users
      BY <3>1, <1>o
    <3>2. CASE ~(Over(r) /\ UNCHANGED users)
      <4> DEFINE u == rmem[r].target
      <4>1. /\ Mine(r) /\ rpc[r] = "insert" /\ rpc'[r] = "done" /\ UNCHANGED <<rmem, history>>
            /\ u \in Users /\ users[u].status = "absent"
            /\ \A v \in Users \ {u} : users'[v] = users[v]
        BY <2>7, <3>2, CreateUserEffect
      <4>2. u \notin ActiveAdmins /\ r \notin Updates
        BY <4>1 DEF ActiveAdmins, Updates
      <4>3. \A s \in Updates : rmem[s].target # u
        BY <4>1 DEF Updates, TypeInv, Shape
      <4>4. QED
        BY <4>1, <4>2, <4>3, CrossAdded DEF history
    <3>3. QED
      BY <3>1, <3>2
  <2>8. CASE MarkEmailVerified(r)
    <3> DEFINE u == rmem[r].target
    <3>1. /\ Mine(r) /\ rmem' = rmem /\ rpc[r] = "mark" /\ rpc'[r] = "done" /\ u \in Users
          /\ users'[u].status = "active" /\ users'[u].role = users[u].role
          /\ \A v \in Users \ {u} : users'[v] = users[v]
          /\ crossed' = crossed \cup {s \in Updates : rmem[s].target = u}
      BY <2>8, MarkEffect DEF MarkEmailVerified
    <3>2. u \in ActiveAdmins => u \in ActiveAdmins'
      BY <3>1 DEF ActiveAdmins
    <3>3. r \notin Updates /\ \A s \in Updates \ crossed' : rmem[s].target # u
      BY <3>1 DEF Updates
    <3>4. QED
      BY <3>1, <3>2, <3>3, CrossAdded
  <2>9. CASE CreateSession(r) \/ StoreLogin(r)
    BY <2>9, <1>o, LoginEffect, CrossKept DEF history
  <2>10. QED
    BY <1>3, <2>1, <2>2, <2>3, <2>4, <2>5, <2>6, <2>7, <2>8, <2>9
       DEF RequestStep, DoorStep, RevokeStep, ReadStep
<1>4. ASSUME NEW r \in Requests, Abort(r) PROVE CrossInv' /\ AdminStep
  BY <1>4, <1>o DEF Abort, tables
<1>5. QED
  BY <1>1, <1>2, <1>3, <1>4 DEF Next, Begins, Evict, avars, tables, history

\* The last active administrator only goes when updates cross, for any number of
\* users and of requests at once.
THEOREM AnAdminRemains == Spec => AdminRemains
<1>1. Init => CrossInv
  BY DEF Init, CrossInv, Updates
<1>2. TypeInv /\ CrossInv /\ [Next]_avars =>
          [ActiveAdmins # {} /\ ActiveAdmins' = {} =>
              \E r \in crossed : rpc[r] = "write" /\ rpc'[r] # "write"]_avars
  BY CrossNext DEF AdminStep
<1>3. QED
  BY <1>1, <1>2, TypeInit, TypeNext, CrossNext, PTL DEF Spec, AdminRemains

-----------------------------------------------------------------------------
(* What a revocation that runs alone ends *)

\* How far a revocation is: the sessions that it is to end are revoked, and those
\* that Redis may still have a copy of are in the list.
AloneShape(r) ==
    /\ rpc[r] = "revokeToken" => rmem[r].token \notin cache
    /\ rpc[r] = "revoke" => SessionsOf(rmem[r].target) \subseteq rmem[r].list
    /\ rpc[r] = "delete" =>
          \A t \in ToEnd(r) : sessions[t].revoked /\ (t \in cache => t \in rmem[r].list)
    /\ rpc[r] = "done" => \A t \in ToEnd(r) : sessions[t].revoked /\ t \notin cache

AloneInv == \A r \in alone : Running = {r} /\ AloneShape(r)

\* What a step of a running request has to show.
LEMMA AloneKept ==
    ASSUME TypeInv, TypeInv', AloneInv, NEW r \in Requests, Mine(r), rpc[r] # "idle",
           alone' \subseteq alone, r \in alone' => AloneShape(r)'
    PROVE  AloneInv'
<1> SUFFICES ASSUME NEW s \in alone' PROVE Running' = {s} /\ AloneShape(s)'
  BY DEF AloneInv
<1>1. Running = {s} /\ r \in Running
  BY DEF AloneInv, Running
<1>2. s = r /\ s \in Running'
  BY <1>1 DEF TypeInv, AccountsTypeOK
<1>3. \A q \in Requests : q # r => rpc'[q] = "idle"
  BY <1>1, <1>2 DEF Mine, Running
<1>4. QED
  BY <1>2, <1>3 DEF Running

\* Every step keeps it.
LEMMA AloneNext == TypeInv /\ AloneInv /\ [Next]_avars => AloneInv'
<1> SUFFICES ASSUME TypeInv, AloneInv, [Next]_avars PROVE AloneInv'
  OBVIOUS
<1>t. TypeInv' /\ rpc \in [Requests -> RPC] /\ \A r \in Requests : rmem[r] \in Memory
  BY TypeNext DEF TypeInv, AccountsTypeOK
<1>o. ASSUME NEW r \in Requests, Over(r), rpc[r] # "idle" PROVE AloneInv'
  <2>1. Mine(r) /\ alone' = alone \ {r}
    BY <1>o, OverTypes
  <2>2. QED
    BY <1>o, <1>t, <2>1, AloneKept
<1>1. CASE UNCHANGED avars
  BY <1>1 DEF avars, tables, history, AloneInv, AloneShape, ToEnd, EndsSessions, SessionsOf, Running
<1>2. ASSUME NEW r \in Requests, Begins(r) PROVE AloneInv'
  <2>1. PICK step \in AtStart, call \in Memory : CallShape(step, call) /\ Begin(r, step, call)
    BY <1>2, BeginsCall
  <2>2. /\ rpc'[r] = step /\ alone' = IF Running = {} THEN {r} ELSE {}
        /\ Running' = Running \cup {r}
    BY <2>1, BeginTypes DEF CallShape
  <2>3. QED
    BY <2>2 DEF AloneInv, AloneShape, AtStart
<1>3. ASSUME NEW r \in Requests, RequestStep(r) PROVE AloneInv'
  <2>f. Shape(r) /\ rmem[r].target \in Users \cup {Null}
    BY <1>t, MemoryFields DEF TypeInv
  <2>1. CASE DoorStep(r)
    <3>1. CASE Over(r)
      BY <2>1, <3>1, <1>o, DoorEffect
    <3>2. CASE ~Over(r)
      <4>1. /\ Mine(r) /\ rpc[r] # "idle" /\ alone' \subseteq alone
            /\ rpc'[r] \notin {"revokeToken", "revoke", "delete", "done"}
        BY <2>1, <3>2, DoorEffect DEF Asking
      <4>2. QED
        BY <1>t, <4>1, AloneKept DEF AloneShape
    <3>3. QED
      BY <3>1, <3>2
  <2>2. CASE RevokeToken(r)
    <3>1. Revokes(r, {rmem[r].token}, "done", rmem[r].list) /\ rmem[r].op = "logout"
          /\ rpc[r] = "revokeToken"
      BY <2>2, RevokesStep DEF RevokeToken
    <3>2. /\ Mine(r) /\ UNCHANGED <<cache, history>> /\ rpc'[r] = "done"
          /\ rmem'[r].op = "logout" /\ rmem'[r].token = rmem[r].token
          /\ \A t \in Tokens : sessions'[t].revoked <=> sessions[t].revoked \/ t \in {rmem[r].token}
      BY <3>1, RevokesEffect
    <3>3. rmem[r].token \in Tokens
      BY <1>t, <2>f, <3>1, MemoryFields DEF Shape
    <3>4. ToEnd(r)' = {rmem[r].token}
      BY <3>2 DEF ToEnd
    <3>5. r \in alone' => AloneShape(r)'
      BY <3>1, <3>2, <3>3, <3>4 DEF AloneShape, AloneInv, history
    <3>6. QED
      BY <1>t, <3>1, <3>2, <3>5, AloneKept DEF history
  <2>3. CASE RevokeSession(r)
    <3>1. /\ Revokes(r, {rmem[r].one}, "delete", {rmem[r].one}) /\ rmem[r].op = "revokeOne"
          /\ rmem[r].one \in Tokens /\ rpc[r] = "findOne"
      BY <2>3, RevokesStep DEF RevokeSession
    <3>2. /\ Mine(r) /\ UNCHANGED <<cache, history>> /\ rpc'[r] = "delete"
          /\ rmem'[r].op = "revokeOne" /\ rmem'[r].one = rmem[r].one
          /\ rmem'[r].list = {rmem[r].one}
          /\ \A t \in Tokens : sessions'[t].revoked <=> sessions[t].revoked \/ t \in {rmem[r].one}
      BY <3>1, RevokesEffect
    <3>3. ToEnd(r)' = {rmem[r].one}
      BY <3>2 DEF ToEnd
    <3>4. QED
      BY <1>t, <3>1, <3>2, <3>3, AloneKept DEF AloneShape, history
  <2>4. CASE RevokeSessionsByUser(r)
    <3>1. /\ Revokes(r, SessionsOf(rmem[r].target), "delete", rmem[r].list)
          /\ rmem[r].op \in {"revokeAll", "update"} /\ rpc[r] = "revoke"
      BY <2>4, RevokesStep DEF RevokeSessionsByUser
    <3>2. /\ Mine(r) /\ UNCHANGED <<cache, history>> /\ rpc'[r] = "delete"
          /\ rmem'[r].op = rmem[r].op /\ rmem'[r].target = rmem[r].target
          /\ rmem'[r].list = rmem[r].list
          /\ \A t \in Tokens : sessions'[t].revoked <=>
                                  sessions[t].revoked \/ t \in SessionsOf(rmem[r].target)
          /\ \A u \in Users \cup {Null} : SessionsOf(u)' = SessionsOf(u)
      BY <3>1, RevokesEffect
    <3>3. ToEnd(r)' \subseteq SessionsOf(rmem[r].target)
      <4>1. SessionsOf(rmem[r].target)' = SessionsOf(rmem[r].target)
        BY <2>f, <3>2
      <4>2. QED
        BY <3>1, <3>2, <4>1 DEF ToEnd
    <3>4. r \in alone => SessionsOf(rmem[r].target) \subseteq rmem[r].list
      BY <3>1 DEF AloneInv, AloneShape
    <3>5. \A t \in SessionsOf(rmem[r].target) : t \in Tokens
      BY DEF SessionsOf
    <3>6. QED
      BY <1>t, <3>1, <3>2, <3>3, <3>4, <3>5, AloneKept DEF AloneShape, history
  <2>5. CASE Drop(r)
    <3>1. /\ Mine(r) /\ rpc[r] # "idle" /\ rpc'[r] = "revokeToken"
          /\ rmem'[r].token = rmem[r].token /\ alone' \subseteq alone
      BY <2>5, DropTypes
    <3>2. r \in alone' => rmem[r].token \notin cache'
      BY <2>5 DEF Drop, Redis
    <3>3. QED
      BY <1>t, <3>1, <3>2, AloneKept DEF AloneShape
  <2>6. CASE ListSessions(r)
    <3>1. /\ Mine(r) /\ rpc[r] # "idle" /\ rpc'[r] = "revoke" /\ UNCHANGED tables
          /\ rmem'[r].target = rmem[r].target /\ alone' \subseteq alone
          /\ rmem'[r].list = SessionsOf(rmem[r].target)
      BY <2>6, DropTypes DEF Listed
    <3>2. SessionsOf(rmem[r].target)' = SessionsOf(rmem[r].target)
      BY <3>1 DEF SessionsOf, tables
    <3>3. QED
      BY <1>t, <3>1, <3>2, AloneKept DEF AloneShape
  <2>7. CASE Delete(r)
    <3>1. /\ Mine(r) /\ rpc[r] = "delete" /\ rpc'[r] \in {"delete", "done"}
          /\ sessions' = sessions /\ cache' \subseteq cache /\ alone' \subseteq alone
          /\ rmem'[r].op = rmem[r].op /\ rmem'[r].row = rmem[r].row
          /\ rmem'[r].was = rmem[r].was /\ rmem'[r].token = rmem[r].token
          /\ rmem'[r].one = rmem[r].one /\ rmem'[r].target = rmem[r].target
      BY <2>7, DropTypes DEF Delete, tables
    <3>2. ToEnd(r)' = ToEnd(r)
      BY <3>1 DEF ToEnd, EndsSessions, SessionsOf
    <3>3. r \in alone =>
              \A t \in ToEnd(r) : sessions[t].revoked /\ (t \in cache => t \in rmem[r].list)
      BY <3>1 DEF AloneInv, AloneShape
    <3>4. ASSUME r \in alone', NEW t \in ToEnd(r), t \in cache'
          PROVE  rpc'[r] = "delete" /\ t \in rmem'[r].list
      <4>1. t \in rmem[r].list /\ t \in cache
        BY <3>1, <3>3, <3>4
      <4>2. PICK x \in rmem[r].list : /\ Redis(r, cache \ {x}) /\ UNCHANGED rpc
                                      /\ rmem' = [rmem EXCEPT ![r].list = @ \ {x}]
        BY <2>7, <4>1 DEF Delete
      <4>3. cache' = cache \ {x}
        BY <3>4, <4>2 DEF Redis
      <4>4. rmem'[r].list = rmem[r].list \ {x}
        BY <4>2, <1>t DEF TypeInv, AccountsTypeOK, Memory
      <4>5. QED
        BY <3>1, <3>4, <4>1, <4>2, <4>3, <4>4
    <3>5. r \in alone' => AloneShape(r)'
      BY <3>1, <3>2, <3>3, <3>4 DEF AloneShape
    <3>6. QED
      BY <1>t, <3>1, <3>5, AloneKept
  <2>8. CASE FindUser(r)
    BY <2>8, <1>t, <1>o, FindUserEffect, AloneKept DEF AloneShape
  <2>9. CASE UpdateUser(r)
    <3>1. /\ Mine(r) /\ rmem' = rmem /\ rpc[r] = "write" /\ alone' = alone
          /\ rpc'[r] = (IF EndsSessions(r) THEN "list" ELSE "done")
          /\ rmem[r].op = "update"
      BY <2>9, <2>f, UpdateUserEffect DEF UpdateUser, Shape
    <3>2. rpc'[r] = "done" => ToEnd(r)' = {}
      BY <3>1 DEF ToEnd, EndsSessions
    <3>3. QED
      BY <1>t, <3>1, <3>2, AloneKept DEF AloneShape
  <2>10. CASE ReadStep(r)
    <3>1. rpc[r] # "idle"
      BY <2>10 DEF ReadStep, FindCurrent, CountActiveAdmins, CountAdmins, FindEmail,
         FindPending, FindLogin
    <3>2. QED
      BY <2>10, <3>1, <1>t, <1>o, ReadStepEffect, AloneKept DEF AloneShape, history
  <2>11. CASE CreateUser(r)
    <3>1. CASE Over(r)
      BY <2>11, <3>1, <1>o, CreateUserEffect
    <3>2. CASE ~Over(r)
      <4>1. /\ Mine(r) /\ rpc[r] # "idle" /\ rpc'[r] = "done" /\ UNCHANGED <<rmem, alone>>
            /\ rmem[r].op \in {"staff", "register", "bootstrap"}
        BY <2>11, <3>2, CreateUserEffect DEF history
      <4>2. ToEnd(r)' = {}
        BY <4>1 DEF ToEnd
      <4>3. QED
        BY <1>t, <4>1, <4>2, AloneKept DEF AloneShape
    <3>3. QED
      BY <3>1, <3>2
  <2>12. CASE MarkEmailVerified(r)
    <3>1. /\ Mine(r) /\ rpc[r] # "idle" /\ rpc'[r] = "done" /\ UNCHANGED <<rmem, alone>>
          /\ rmem[r].op = "verify"
      BY <2>12, MarkEffect
    <3>2. ToEnd(r)' = {}
      BY <3>1 DEF ToEnd
    <3>3. QED
      BY <1>t, <3>1, <3>2, AloneKept DEF AloneShape
  <2>13. CASE CreateSession(r) \/ StoreLogin(r)
    BY <2>13, <1>t, <1>o, LoginEffect, AloneKept DEF AloneShape, history
  <2>14. QED
    BY <1>3, <2>1, <2>2, <2>3, <2>4, <2>5, <2>6, <2>7, <2>8, <2>9, <2>10, <2>11, <2>12, <2>13
       DEF RequestStep, DoorStep, ReadStep
<1>4. ASSUME NEW r \in Requests, Abort(r) PROVE AloneInv'
  BY <1>4, <1>o DEF Abort
<1>5. ASSUME NEW t \in Tokens, Evict(t) PROVE AloneInv'
  <2>1. UNCHANGED <<sessions, rpc, rmem, alone>> /\ cache' \subseteq cache
    BY <1>5 DEF Evict, tables, history
  <2>2. \A r \in Requests : ToEnd(r)' = ToEnd(r) /\ Running' = Running
    BY <2>1 DEF ToEnd, EndsSessions, SessionsOf, Running
  <2>3. alone \subseteq Requests
    BY DEF TypeInv, AccountsTypeOK, Running
  <2>4. QED
    BY <2>1, <2>2, <2>3 DEF AloneInv, AloneShape, SessionsOf
<1>6. QED
  BY <1>1, <1>2, <1>3, <1>4, <1>5 DEF Next, Begins

\* A revocation that runs alone and without a failure ends its sessions in both
\* stores, whatever happened before it, for any number of sessions.
THEOREM RevocationsAreComplete == Spec => []RevocationIsComplete
<1>1. Init => AloneInv
  BY DEF Init, AloneInv
<1>2. AloneInv => RevocationIsComplete
  BY DEF AloneInv, AloneShape, RevocationIsComplete
<1>3. QED
  BY <1>1, <1>2, TypeInit, TypeNext, AloneNext, PTL DEF Spec
=============================================================================
