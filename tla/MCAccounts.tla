----------------------------- MODULE MCAccounts -----------------------------
(* Instances of Accounts for TLC. *)
EXTENDS Accounts, TLC

CONSTANTS r1, r2, a, b, t1, t2

NoField == [role |-> Null, status |-> Null]

\* An update names one field; one that names none writes what it read, as those do.
OneField ==
    {[NoField EXCEPT !.role = "other"]} \cup
    {[NoField EXCEPT !.status = status] : status \in {"active", "suspended", "deleted"}}

\* The calls that are shown at the same time are an update or a verification and
\* another one of these or an endpoint that only asks for a user, when each user
\* has at most one session, good in both stores, and is not suspended: what is said of
\* revocations, of logins and of new accounts is said of calls that run alone.
\* A session that no login answered is left out: nobody has its token.
FewOverlaps ==
    /\ \A t \in Tokens \ SessionsOf(Null) :
          t \in held \/ \E r \in Running : rmem[r].op = "login" /\ rmem[r].token = t
    /\ Cardinality(Running) > 1 =>
        /\ \A r \in Running : /\ rmem[r].op \in {"update", "verify", "me"}
                              /\ rpc[r] \notin {"revoke", "delete"}
        /\ \E r \in Running : rmem[r].op # "me"
        /\ \A r \in Running : rmem[r].change.status # "suspended"
        /\ \A u \in Users : users[u].status # "suspended"
        /\ \A u \in Users : Cardinality(SessionsOf(u)) < 2
        /\ \A t \in Tokens \ SessionsOf(Null) : t \in held \cap cache /\ ~sessions[t].revoked

Symmetry == Permutations(Requests) \cup Permutations(Users) \cup Permutations(Tokens)
=============================================================================
