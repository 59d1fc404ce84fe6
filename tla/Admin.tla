-------------------------------- MODULE Admin --------------------------------
(* The admin API: the access policy of rbac/rbac.go, changed while protect of  *)
(* ops/api.go admits requests by it.                                           *)
(* A request takes the policy's lock twice, for the credential and for the     *)
(* permission, and verifies the password with no lock held.                    *)
EXTENDS Naturals, FiniteSets

CONSTANTS
  People,     \* user names
  Roles,
  Passwords,
  NoPassword, \* a user without a credential, and a user there is not
  Visits      \* requests of the protected route

ASSUME AdminAssumption == NoPassword \notin Passwords

\* Permissions are "*", all of a namespace, or an action of a namespace.
Anything == [ns |-> "*", action |-> "*"]
Permissions == {Anything} \cup [ns : {"admin", "keys"}, action : {"*", "read"}]
Wanted == [ns |-> "admin", action |-> "read"]

permMatch(granted, requested) ==
  \/ granted \in {Anything, requested}
  \/ granted.ns # "*" /\ granted.action = "*" /\ granted.ns = requested.ns

VARIABLES
  perms,    \* p.roles: the permissions of a role
  people,   \* p.users: known, cred and roles of each
  visit,    \* a request: "idle", "read", "verify", "can", and its status 200, 401 or 403
  who,      \* its user and password
  cred,     \* the credential Authenticate took under the lock
  was       \* what held at some moment of a request: "valid", "invalid", "may", "maynot"

policyVars == <<perms, people>>
visitVars == <<visit, who, cred>>
adminVars == <<policyVars, visitVars, was>>

Nobody == [known |-> FALSE, cred |-> NoPassword, roles |-> {}]
NoVisit == [user |-> CHOOSE u \in People : TRUE, pass |-> NoPassword]
Ended == {"200", "401", "403"}

\* NewPolicy.
AdminInit ==
  /\ perms = [r \in Roles |-> {}]
  /\ people = [u \in People |-> Nobody]
  /\ visit = [v \in Visits |-> "idle"]
  /\ who = [v \in Visits |-> NoVisit]
  /\ cred = [v \in Visits |-> NoPassword]
  /\ was = [v \in Visits |-> {}]

\* Can, of any state of the policy.
Can(pe, pp, u, perm) ==
  pp[u].known /\ \E r \in pp[u].roles : \E g \in pe[r] : permMatch(g, perm)

\* What a request in progress could have seen of a state of the policy.
Facts(pe, pp, w) ==
  {IF w.pass # NoPassword /\ pp[w.user].cred = w.pass THEN "valid" ELSE "invalid",
   IF Can(pe, pp, w.user, Wanted) THEN "may" ELSE "maynot"}

Watch == was' = [v \in Visits |-> IF visit[v] \in Ended \cup {"idle"} THEN was[v]
                                  ELSE was[v] \cup Facts(perms', people', who[v])]
-----------------------------------------------------------------------------
(* The policy. *)

AddRole(r, ps) ==
  /\ perms' = [perms EXCEPT ![r] = ps]
  /\ UNCHANGED <<people, visitVars>>
  /\ Watch

\* AddUser keeps the credential of a user that is there.
AddUser(u, rs) ==
  /\ people' = [people EXCEPT ![u] = [known |-> TRUE, cred |-> @.cred, roles |-> rs]]
  /\ UNCHANGED <<perms, visitVars>>
  /\ Watch

\* Grant and Revoke of a role; an unknown user is an error.
Grant(u, r) ==
  /\ people[u].known
  /\ \/ people' = [people EXCEPT ![u].roles = @ \cup {r}]
     \/ people' = [people EXCEPT ![u].roles = @ \ {r}]
  /\ UNCHANGED <<perms, visitVars>>
  /\ Watch

SetPassword(u, p) ==
  /\ people[u].known
  /\ people' = [people EXCEPT ![u].cred = p]
  /\ UNCHANGED <<perms, visitVars>>
  /\ Watch
-----------------------------------------------------------------------------
(* A request. *)

\* protect is entered; a request without credentials is refused at once.
Visit(v, u, p) ==
  /\ visit[v] = "idle"
  /\ visit' = [visit EXCEPT ![v] = IF p = NoPassword THEN "401" ELSE "read"]
  /\ who' = [who EXCEPT ![v] = [user |-> u, pass |-> p]]
  /\ was' = [was EXCEPT ![v] = Facts(perms, people, who'[v])]
  /\ UNCHANGED <<policyVars, cred>>

\* Authenticate under the lock ...
ReadCred(v) ==
  /\ visit[v] = "read"
  /\ cred' = [cred EXCEPT ![v] = people[who[v].user].cred]
  /\ visit' = [visit EXCEPT ![v] = "verify"]
  /\ UNCHANGED <<policyVars, who, was>>

\* Mutant: the password is compared with nothing but its presence.
VerifyAny(v) ==
  /\ visit[v] = "verify"
  /\ visit' = [visit EXCEPT ![v] = IF cred[v] # NoPassword THEN "can" ELSE "401"]
  /\ UNCHANGED <<policyVars, who, cred, was>>

\* ... and Verify after it.
Verify(v) ==
  /\ visit[v] = "verify"
  /\ visit' = [visit EXCEPT ![v] = IF cred[v] = who[v].pass THEN "can" ELSE "401"]
  /\ UNCHANGED <<policyVars, who, cred, was>>

\* Can, and the handler.
Admit(v) ==
  /\ visit[v] = "can"
  /\ visit' = [visit EXCEPT ![v] = IF Can(perms, people, who[v].user, Wanted) THEN "200" ELSE "403"]
  /\ UNCHANGED <<policyVars, who, cred, was>>
Request(v) == ReadCred(v) \/ Verify(v) \/ Admit(v)

AdminNext ==
  \/ \E r \in Roles : \/ \E ps \in {{}} \cup {{p} : p \in Permissions} : AddRole(r, ps)
                      \/ \E u \in People : Grant(u, r)
  \/ \E u \in People : \/ \E rs \in SUBSET Roles : AddUser(u, rs)
                       \/ \E p \in Passwords : SetPassword(u, p)
  \/ \E v \in Visits : \/ Request(v)
                       \/ \E u \in People, p \in Passwords \cup {NoPassword} : Visit(v, u, p)

AdminSpec == AdminInit /\ [][AdminNext]_adminVars
-----------------------------------------------------------------------------
(* Properties. *)

\* Every decision of protect was right at some moment of the request, however the
\* policy changed between the two looks at it: 200 only if the password was the
\* user's and the user had the permission, 401 only if the password was not, 403
\* only after a valid password of somebody without the permission.
DecisionsHeld == \A v \in Visits :
  /\ visit[v] = "200" => {"valid", "may"} \subseteq was[v]
  /\ visit[v] = "401" => "invalid" \in was[v]
  /\ visit[v] = "403" => {"valid", "maynot"} \subseteq was[v]
=============================================================================
