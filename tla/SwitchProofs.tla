---------------------------- MODULE SwitchProofs -----------------------------
(****************************************************************************)
(* Proofs about the parts of a switch, for any links, users, connections,  *)
(* keepers, makers and requests: the pool of links, the connector, the     *)
(* registrar and the admin API.                                            *)
(****************************************************************************)
EXTENDS Pool, Connector, Registrar, Admin, FiniteSetTheorems, TLAPS

USE Zenon

-----------------------------------------------------------------------------
(* The registrar.                                                          *)

\* A call is where its operation has a step.
RegistrarTyped ==
  /\ object \in Makers \cup {NoObject} /\ hosted \in Makers \cup {NoObject}
  /\ maker \in [Makers -> {"idle", "teardown", "deploy", "put", "remove", "ok", "failed"}]
  /\ api \in [Makers -> {"none", "switch", "register", "descriptor"}]
  /\ \A m \in Makers : /\ maker[m] = "idle" <=> api[m] = "none"
                       /\ maker[m] = "teardown" => api[m] = "descriptor"
                       /\ maker[m] = "remove" => api[m] = "switch"
                       /\ maker[m] = "put" => api[m] = "register"
  /\ hosted # NoObject => api[hosted] # "none"

\* A Switch that got past putUnique has the entry until its own remove.
SwitchOwns ==
  /\ \A m \in Makers : maker[m] \in {"deploy", "remove", "ok"} => object = m
  /\ hosted # NoObject => maker[hosted] = "ok"

\* The descriptor being applied has the entry, and by the time it is deployed the
\* one before it is off the host.
DescriptorOwns ==
  /\ \A m \in Makers : maker[m] \in {"teardown", "deploy"} => object = m
  /\ \A m \in Makers : maker[m] = "deploy" => hosted = NoObject
  /\ (\A m \in Makers : maker[m] \notin {"teardown", "deploy"}) => hosted \in {NoObject, object}

RegistrarInv ==
  /\ RegistrarTyped
  /\ Only("switch") => SwitchOwns
  /\ Only("descriptor") => DescriptorOwns

LEMMA RegistrarInvInit == ASSUME RegistrarInit PROVE RegistrarInv
<1>1. RegistrarTyped BY DEF RegistrarInit, RegistrarTyped
<1> QED BY <1>1 DEF RegistrarInv, RegistrarInit, SwitchOwns, DescriptorOwns

\* A call keeps its operation, so Only can only cease to hold.
LEMMA OnlyBefore ==
  ASSUME RegistrarTyped, RegistrarNext, NEW how, Only(how)'
  PROVE  Only(how)
<1> SUFFICES ASSUME NEW m \in Makers, api[m] # "none" PROVE api'[m] = api[m] BY DEF Only
<1> QED BY SMT DEF RegistrarNext, Switch, Register, Factory, teardown, Deploy, Put, remove, Undeploy,
               RegistrarTyped

LEMMA TypedNext == ASSUME RegistrarTyped, RegistrarNext PROVE RegistrarTyped'
<1> USE RegistrarAssumption DEF RegistrarTyped, At
<1>1. ASSUME NEW m \in Makers, Switch(m) PROVE RegistrarTyped' BY SMT, <1>1 DEF Switch
<1>2. ASSUME NEW m \in Makers, Register(m) PROVE RegistrarTyped' BY <1>2 DEF Register
<1>3. ASSUME NEW m \in Makers, Factory(m) PROVE RegistrarTyped' BY <1>3 DEF Factory
<1>4. ASSUME NEW m \in Makers, teardown(m) PROVE RegistrarTyped' BY SMT, <1>4 DEF teardown
<1>5. ASSUME NEW m \in Makers, Deploy(m) PROVE RegistrarTyped' BY SMT, <1>5 DEF Deploy
<1>6. ASSUME NEW m \in Makers, Put(m) PROVE RegistrarTyped' BY <1>6 DEF Put
<1>7. ASSUME NEW m \in Makers, remove(m) PROVE RegistrarTyped' BY <1>7 DEF remove
<1>8. ASSUME Undeploy PROVE RegistrarTyped' BY <1>8 DEF Undeploy
<1> QED BY <1>1, <1>2, <1>3, <1>4, <1>5, <1>6, <1>7, <1>8 DEF RegistrarNext

LEMMA SwitchNext ==
  ASSUME RegistrarTyped, SwitchOwns, RegistrarNext, Only("switch"), Only("switch")'
  PROVE  SwitchOwns'
<1> USE RegistrarAssumption DEF RegistrarTyped, SwitchOwns, At, Only
<1>1. ASSUME NEW m \in Makers, Switch(m) PROVE SwitchOwns' BY SMT, <1>1 DEF Switch
<1>2. ASSUME NEW m \in Makers, Register(m) \/ Factory(m) PROVE SwitchOwns'
  BY SMT, <1>2 DEF Register, Factory
<1>3. ASSUME NEW m \in Makers, teardown(m) \/ Put(m) PROVE SwitchOwns' BY <1>3 DEF teardown, Put
<1>4. ASSUME NEW m \in Makers, Deploy(m) PROVE SwitchOwns' BY SMT, <1>4 DEF Deploy
<1>5. ASSUME NEW m \in Makers, remove(m) PROVE SwitchOwns' BY SMT, <1>5 DEF remove
<1>6. ASSUME Undeploy PROVE SwitchOwns' BY <1>6 DEF Undeploy
<1> QED BY <1>1, <1>2, <1>3, <1>4, <1>5, <1>6 DEF RegistrarNext

LEMMA DescriptorNext ==
  ASSUME RegistrarTyped, DescriptorOwns, RegistrarNext, Only("descriptor"), Only("descriptor")'
  PROVE  DescriptorOwns'
<1> USE RegistrarAssumption DEF RegistrarTyped, DescriptorOwns, At, Only
<1>1. ASSUME NEW m \in Makers, Switch(m) \/ Register(m) PROVE DescriptorOwns'
  BY SMT, <1>1 DEF Switch, Register
<1>2. ASSUME NEW m \in Makers, Factory(m) PROVE DescriptorOwns' BY SMT, <1>2 DEF Factory
<1>3. ASSUME NEW m \in Makers, teardown(m) PROVE DescriptorOwns' BY <1>3 DEF teardown
<1>4. ASSUME NEW m \in Makers, Deploy(m) PROVE DescriptorOwns' BY <1>4 DEF Deploy
<1>5. ASSUME NEW m \in Makers, remove(m) \/ Put(m) PROVE DescriptorOwns' BY <1>5 DEF remove, Put
<1>6. ASSUME Undeploy PROVE DescriptorOwns' BY <1>6 DEF Undeploy
<1> QED BY <1>1, <1>2, <1>3, <1>4, <1>5, <1>6 DEF RegistrarNext

LEMMA RegistrarInvNext == ASSUME RegistrarInv, [RegistrarNext]_registrarVars PROVE RegistrarInv'
<1>1. CASE UNCHANGED registrarVars
  BY <1>1 DEF registrarVars, RegistrarInv, RegistrarTyped, SwitchOwns, DescriptorOwns, Only
<1>2. CASE RegistrarNext
  <2>1. RegistrarTyped' BY <1>2, TypedNext DEF RegistrarInv
  <2>2. ASSUME Only("switch")' PROVE SwitchOwns'
    BY <1>2, <2>2, OnlyBefore, SwitchNext DEF RegistrarInv
  <2>3. ASSUME Only("descriptor")' PROVE DescriptorOwns'
    BY <1>2, <2>3, OnlyBefore, DescriptorNext DEF RegistrarInv
  <2> QED BY <2>1, <2>2, <2>3 DEF RegistrarInv
<1> QED BY <1>1, <1>2

\* Where a name is used through Switch and Gateway alone, or through descriptors
\* alone, what the host runs under it is what To and Get return once the calls in
\* progress are over, and a Switch that succeeded keeps the name: for any number of
\* calls, in every order of their steps under the two locks.
THEOREM StaysReachable == RegistrarSpec => []Reachable
<1>1. RegistrarInit => RegistrarInv BY RegistrarInvInit
<1>2. RegistrarInv /\ [RegistrarNext]_registrarVars => RegistrarInv' BY RegistrarInvNext
<1>3. RegistrarInv => Reachable
  BY DEF RegistrarInv, RegistrarTyped, Reachable, SwitchOwns, DescriptorOwns
<1> QED BY <1>1, <1>2, <1>3, PTL DEF RegistrarSpec

-----------------------------------------------------------------------------
(* The admin API.                                                          *)

AdminTyped ==
  /\ visit \in [Visits -> {"idle", "read", "verify", "can"} \cup Ended]
  /\ DOMAIN who = Visits /\ DOMAIN cred = Visits /\ DOMAIN was = Visits

\* A request in progress came with a password.
Asking(v) == visit[v] \in {"read", "verify", "can"}

\* What the request has seen so far held at some moment of it, and what holds now
\* does.
Seen ==
  \A v \in Visits :
    /\ Asking(v) => who[v].pass # NoPassword /\ Facts(perms, people, who[v]) \subseteq was[v]
    /\ visit[v] = "verify" => (IF cred[v] = who[v].pass THEN "valid" ELSE "invalid") \in was[v]
    /\ visit[v] = "can" => "valid" \in was[v]

AdminInv == AdminTyped /\ Seen /\ DecisionsHeld

LEMMA AdminInvInit == ASSUME AdminInit PROVE AdminInv
BY DEF AdminInit, AdminInv, AdminTyped, Seen, Asking, DecisionsHeld, Ended

\* The policy changes: what a request saw it has seen.
LEMMA PolicyStep == ASSUME AdminInv, UNCHANGED visitVars, Watch PROVE AdminInv'
<1>1. visit' = visit /\ who' = who /\ cred' = cred BY DEF visitVars
<1>2. /\ DOMAIN was' = Visits
      /\ \A v \in Visits : was[v] \subseteq was'[v]
      /\ \A v \in Visits : Asking(v) => Facts(perms', people', who[v]) \subseteq was'[v]
  BY DEF Watch, Asking, Ended
<1>3. AdminTyped' BY <1>1, <1>2 DEF AdminInv, AdminTyped
<1>4. Seen' BY <1>1, <1>2 DEF AdminInv, Seen, Asking
<1>5. DecisionsHeld' BY <1>1, <1>2 DEF AdminInv, DecisionsHeld
<1> QED BY <1>3, <1>4, <1>5 DEF AdminInv

LEMMA VisitStep ==
  ASSUME AdminInv, NEW v \in Visits, NEW u \in People, NEW p \in Passwords \cup {NoPassword},
         Visit(v, u, p)
  PROVE  AdminInv'
<1> DEFINE w == [user |-> u, pass |-> p]
<1>1. /\ visit' = [visit EXCEPT ![v] = IF p = NoPassword THEN "401" ELSE "read"]
      /\ who' = [who EXCEPT ![v] = w] /\ was' = [was EXCEPT ![v] = Facts(perms, people, who'[v])]
      /\ UNCHANGED <<perms, people, cred>>
  BY DEF Visit, policyVars
<1>2. AdminTyped' BY <1>1 DEF AdminInv, AdminTyped, Ended
<1>3. /\ visit'[v] = (IF p = NoPassword THEN "401" ELSE "read")
      /\ who'[v] = w /\ was'[v] = Facts(perms, people, w)
  BY <1>1 DEF AdminInv, AdminTyped
<1>4. \A x \in Visits \ {v} : visit'[x] = visit[x] /\ who'[x] = who[x] /\ was'[x] = was[x]
  BY <1>1 DEF AdminInv, AdminTyped
<1>5. p = NoPassword => "invalid" \in was'[v] BY <1>3 DEF Facts
<1>6. Seen' BY SMT, <1>1, <1>3, <1>4 DEF AdminInv, Seen, Asking
<1>7. DecisionsHeld' BY <1>3, <1>4, <1>5 DEF AdminInv, DecisionsHeld
<1> QED BY <1>2, <1>6, <1>7 DEF AdminInv

LEMMA RequestStep == ASSUME AdminInv, NEW v \in Visits, Request(v) PROVE AdminInv'
<1>1. UNCHANGED <<perms, people, who, was>> BY DEF Request, ReadCred, Verify, Admit, policyVars
<1>2. \A x \in Visits \ {v} : visit'[x] = visit[x] /\ cred'[x] = cred[x]
  BY DEF Request, ReadCred, Verify, Admit, AdminInv, AdminTyped
<1>3. AdminTyped' BY <1>1 DEF Request, ReadCred, Verify, Admit, AdminInv, AdminTyped, Ended
<1>4. Asking(v) /\ who[v].pass # NoPassword /\ Facts(perms, people, who[v]) \subseteq was[v]
  BY DEF Request, ReadCred, Verify, Admit, AdminInv, Seen, Asking
<1>5. CASE ReadCred(v)
  <2>1. visit'[v] = "verify" /\ cred'[v] = people[who[v].user].cred
    BY <1>5 DEF ReadCred, AdminInv, AdminTyped
  <2>2. (IF cred'[v] = who[v].pass THEN "valid" ELSE "invalid") \in was[v] BY <1>4, <2>1 DEF Facts
  <2>3. Seen' BY <1>1, <1>2, <1>4, <2>1, <2>2 DEF AdminInv, Seen, Asking
  <2>4. DecisionsHeld' BY <1>1, <1>2, <2>1 DEF AdminInv, DecisionsHeld
  <2> QED BY <1>3, <2>3, <2>4 DEF AdminInv
<1>6. CASE Verify(v)
  <2>1. visit[v] = "verify" /\ visit'[v] = (IF cred[v] = who[v].pass THEN "can" ELSE "401") /\ cred' = cred
    BY <1>6 DEF Verify, AdminInv, AdminTyped
  <2>2. (IF cred[v] = who[v].pass THEN "valid" ELSE "invalid") \in was[v] BY <2>1 DEF AdminInv, Seen
  <2>3. Seen' BY <1>1, <1>2, <1>4, <2>1, <2>2 DEF AdminInv, Seen, Asking
  <2>4. DecisionsHeld' BY <1>1, <1>2, <2>1, <2>2 DEF AdminInv, DecisionsHeld
  <2> QED BY <1>3, <2>3, <2>4 DEF AdminInv
<1>7. CASE Admit(v)
  <2> DEFINE ok == Can(perms, people, who[v].user, Wanted)
  <2>1. visit[v] = "can" /\ visit'[v] = (IF ok THEN "200" ELSE "403") /\ cred' = cred
    BY <1>7 DEF Admit, AdminInv, AdminTyped
  <2>2. "valid" \in was[v] /\ (IF ok THEN "may" ELSE "maynot") \in was[v]
    BY <1>4, <2>1 DEF AdminInv, Seen, Facts
  <2>3. Seen' BY <1>1, <1>2, <2>1 DEF AdminInv, Seen, Asking
  <2>4. DecisionsHeld' BY <1>1, <1>2, <2>1, <2>2 DEF AdminInv, DecisionsHeld
  <2> QED BY <1>3, <2>3, <2>4 DEF AdminInv
<1> QED BY <1>5, <1>6, <1>7 DEF Request

LEMMA AdminInvNext == ASSUME AdminInv, [AdminNext]_adminVars PROVE AdminInv'
<1>1. CASE UNCHANGED adminVars
  BY <1>1 DEF adminVars, policyVars, visitVars, AdminInv, AdminTyped, Seen, Asking, DecisionsHeld
<1>2. CASE \E r \in Roles : \/ \E ps \in {{}} \cup {{p} : p \in Permissions} : AddRole(r, ps)
                            \/ \E u \in People : Grant(u, r)
  BY <1>2, PolicyStep DEF AddRole, Grant
<1>3. CASE \E u \in People : \/ \E rs \in SUBSET Roles : AddUser(u, rs)
                             \/ \E p \in Passwords : SetPassword(u, p)
  BY <1>3, PolicyStep DEF AddUser, SetPassword
<1>4. CASE \E v \in Visits : \/ Request(v)
                             \/ \E u \in People, p \in Passwords \cup {NoPassword} : Visit(v, u, p)
  BY <1>4, RequestStep, VisitStep
<1> QED BY <1>1, <1>2, <1>3, <1>4 DEF AdminNext

\* Every answer of protect was right at some moment of the request, for any policy,
\* any number of requests and any changes of the policy between Authenticate's look
\* at it and Can's.
THEOREM DecisionsStayHeld == AdminSpec => []DecisionsHeld
<1>1. AdminInit => AdminInv BY AdminInvInit
<1>2. AdminInv /\ [AdminNext]_adminVars => AdminInv' BY AdminInvNext
<1>3. AdminInv => DecisionsHeld BY DEF AdminInv
<1> QED BY <1>1, <1>2, <1>3, PTL DEF AdminSpec

-----------------------------------------------------------------------------
(* The connector.                                                          *)

ConnectorTyped ==
  /\ sup \in {"off", "top", "dial", "sleep", "signon", "serve", "unpublish", "close", "returned"}
  /\ cur \in Muxes \cup {NoMux} /\ ptr \in Muxes \cup {NoMux} /\ cancelled \in BOOLEAN
  /\ mux \in [Muxes -> {"open", "dead", "closed"}]
  /\ inflight \in BOOLEAN /\ echo \in [Muxes -> {0, 1}] /\ result \in {"none", "ok", "err"}

\* The supervisor holds a mux from the dial to the close, and no other.
Holding == cur # NoMux <=> sup \in {"signon", "serve", "unpublish", "close"}

\* serve has a keepalive running exactly while it waits for a result that is not
\* there yet; a mux that is not served yet has none.
Keeping ==
  /\ sup = "signon" => echo[cur] = 0
  /\ sup = "serve" => /\ echo[cur] = 1 <=> inflight /\ result = "none"
                      /\ ~inflight => result = "none"

ConnectorInv == ConnectorTyped /\ Holding /\ Keeping /\ Watched /\ NoneLeft

LEMMA ConnectorInvInit == ASSUME ConnectorInit PROVE ConnectorInv
<1>1. ConnectorTyped BY DEF ConnectorInit, ConnectorTyped
<1>2. Holding /\ Keeping /\ Watched /\ NoneLeft
  BY DEF ConnectorInit, Holding, Keeping, Watched, NoneLeft
<1> QED BY <1>1, <1>2 DEF ConnectorInv

\* The mux the supervisor holds is one.
LEMMA HeldMux ==
  ASSUME ConnectorInv, sup \in {"signon", "serve", "unpublish", "close"}
  PROVE  cur \in Muxes
BY DEF ConnectorInv, ConnectorTyped, Holding

\* The supervisor outside the select of serve.
LEMMA SuperviseStep == ASSUME ConnectorInv, Start \/ Supervise PROVE ConnectorInv'
<1> USE DEF ConnectorInv
<1>1. CASE Start \/ SupTop \/ DialFailed \/ Slept
  <2>1. UNCHANGED <<cur, ptr, cancelled, mux, inflight, echo, result>>
    BY <1>1 DEF Start, SupTop, DialFailed, Slept, keepalive
  <2>2. /\ sup \in {"off", "top", "dial", "sleep"}
        /\ sup' \in {"top", "dial", "sleep", "returned"}
    BY <1>1 DEF Start, SupTop, DialFailed, Slept
  <2>3. cur = NoMux /\ ptr = NoMux BY <2>2 DEF Holding, Watched
  <2>4. \A m \in Muxes : mux[m] \notin {"open", "dead"} BY <2>3, ConnectorAssumption DEF NoneLeft
  <2>5. ConnectorTyped' BY <2>1, <2>2 DEF ConnectorTyped
  <2> QED BY <2>1, <2>2, <2>3, <2>4, <2>5 DEF Holding, Keeping, Watched, NoneLeft
<1>2. CASE Dialed
  <2>1. PICK m \in Muxes : Reusable(m) /\ cur' = m /\ mux' = [mux EXCEPT ![m] = "open"]
    BY <1>2 DEF Dialed
  <2>2. sup = "dial" /\ sup' = "signon" /\ UNCHANGED <<ptr, cancelled, inflight, echo, result>>
    BY <1>2 DEF Dialed, keepalive
  <2>3. cur = NoMux /\ ptr = NoMux BY <2>2 DEF Holding, Watched
  <2>4. \A n \in Muxes : mux[n] \notin {"open", "dead"} BY <2>3, ConnectorAssumption DEF NoneLeft
  <2>5. ConnectorTyped' BY <2>1, <2>2 DEF ConnectorTyped
  <2>6. Holding' /\ Keeping' BY <2>1, <2>2, ConnectorAssumption DEF Holding, Keeping, Reusable
  <2>7. Watched' /\ NoneLeft' BY <2>1, <2>2, <2>3, <2>4 DEF Watched, NoneLeft, ConnectorTyped
  <2> QED BY <2>5, <2>6, <2>7
<1>3. CASE SignOnFails \/ CloseMux
  <2>1. /\ sup \in {"signon", "close"} /\ sup' \in {"returned", "sleep"} /\ cur' = NoMux
        /\ mux' = [mux EXCEPT ![cur] = "closed"]
        /\ UNCHANGED <<ptr, cancelled, inflight, echo, result>>
    BY <1>3 DEF SignOnFails, CloseMux, keepalive
  <2>2. cur \in Muxes BY <2>1, HeldMux
  <2>3. ConnectorTyped' BY <2>1, <2>2 DEF ConnectorTyped
  <2>4. Holding' /\ Keeping' /\ Watched' BY <2>1 DEF Holding, Keeping, Watched
  <2>5. NoneLeft' BY <2>1, <2>2 DEF NoneLeft, ConnectorTyped
  <2> QED BY <2>3, <2>4, <2>5
<1>4. CASE Publish
  <2>1. /\ sup = "signon" /\ sup' = "serve" /\ ptr' = cur /\ inflight' = FALSE /\ result' = "none"
        /\ UNCHANGED <<cur, cancelled, mux, echo>>
    BY <1>4 DEF Publish
  <2>2. ConnectorTyped' BY <2>1 DEF ConnectorTyped
  <2>3. Holding' /\ Keeping' /\ Watched' /\ NoneLeft'
    BY SMT, <2>1 DEF Holding, Keeping, Watched, NoneLeft
  <2> QED BY <2>2, <2>3
<1>5. CASE Unpublish
  <2>1. /\ sup = "unpublish" /\ sup' = "close" /\ ptr' = IF ptr = cur THEN NoMux ELSE ptr
        /\ UNCHANGED <<cur, cancelled, mux, inflight, echo, result>>
    BY <1>5 DEF Unpublish, keepalive
  <2>2. ConnectorTyped' BY <2>1 DEF ConnectorTyped
  <2>3. Holding' /\ Keeping' /\ Watched' /\ NoneLeft'
    BY <2>1 DEF Holding, Keeping, Watched, NoneLeft
  <2> QED BY <2>2, <2>3
<1> QED BY <1>1, <1>2, <1>3, <1>4, <1>5 DEF Supervise

\* The select of serve.
LEMMA ServeStep == ASSUME ConnectorInv, Tick \/ Result \/ ServeReturns PROVE ConnectorInv'
<1> USE DEF ConnectorInv
<1>1. sup = "serve" /\ UNCHANGED <<cur, ptr, cancelled, mux>> BY DEF Tick, Result, ServeReturns
<1>2. cur \in Muxes /\ echo[cur] \in {0, 1} BY <1>1, HeldMux DEF ConnectorTyped
<1>3. CASE Tick
  <2>1. /\ ~inflight /\ inflight' = TRUE /\ echo' = [echo EXCEPT ![cur] = @ + 1]
        /\ UNCHANGED <<sup, result>>
    BY <1>3 DEF Tick
  <2>2. echo[cur] = 0 /\ result = "none" BY <1>1, <1>2, <2>1 DEF Keeping
  <2>3. ConnectorTyped' BY SMT, <1>1, <1>2, <2>1, <2>2 DEF ConnectorTyped
  <2>4. Keeping' BY SMT, <1>1, <1>2, <2>1, <2>2 DEF Keeping, ConnectorTyped
  <2> QED BY <1>1, <2>1, <2>3, <2>4 DEF Holding, Watched, NoneLeft
<1>4. CASE Result
  <2>1. /\ inflight /\ result # "none" /\ inflight' = FALSE /\ result' = "none"
        /\ sup' \in {"unpublish", "serve"} /\ echo' = echo
    BY <1>4 DEF Result
  <2>2. ConnectorTyped' BY <1>1, <2>1 DEF ConnectorTyped
  <2>3. Keeping' BY <1>1, <2>1 DEF Keeping
  <2> QED BY <1>1, <2>1, <2>2, <2>3 DEF Holding, Watched, NoneLeft
<1>5. CASE ServeReturns
  <2>1. sup' = "unpublish" /\ UNCHANGED <<inflight, echo, result>> BY <1>5 DEF ServeReturns, keepalive
  <2>2. ConnectorTyped' BY <1>1, <2>1 DEF ConnectorTyped
  <2> QED BY <1>1, <2>1, <2>2 DEF Holding, Keeping, Watched, NoneLeft
<1> QED BY <1>3, <1>4, <1>5

\* A keepalive comes back, or a link breaks.
LEMMA MuxStep ==
  ASSUME ConnectorInv, NEW m \in Muxes, EchoAnswered(m) \/ EchoFails(m) \/ LinkDies(m)
  PROVE  ConnectorInv'
<1> USE DEF ConnectorInv
<1>1. UNCHANGED <<sup, cur, ptr, cancelled, inflight>>
  BY DEF EchoAnswered, EchoFails, Comes, LinkDies, keepalive
<1>2. CASE LinkDies(m)
  <2>1. /\ mux[m] = "open" /\ mux' = [mux EXCEPT ![m] = "dead"] /\ UNCHANGED <<echo, result>>
    BY <1>2 DEF LinkDies, keepalive
  <2>2. ConnectorTyped' BY <1>1, <2>1 DEF ConnectorTyped
  <2>3. NoneLeft' BY <1>1, <2>1 DEF NoneLeft, ConnectorTyped
  <2> QED BY <1>1, <2>1, <2>2, <2>3 DEF Holding, Keeping, Watched
<1>3. CASE EchoAnswered(m) \/ EchoFails(m)
  <2>1. PICK res \in {"ok", "err"} :
          /\ echo[m] > 0 /\ echo' = [echo EXCEPT ![m] = @ - 1] /\ mux' = mux
          /\ result' = IF sup = "serve" /\ cur = m THEN res ELSE result
    BY <1>3 DEF EchoAnswered, EchoFails, Comes
  <2>2. echo[m] = 1 BY SMT, <2>1 DEF ConnectorTyped
  <2>3. ConnectorTyped' BY SMT, <1>1, <2>1, <2>2 DEF ConnectorTyped
  <2>4. \A n \in Muxes : echo'[n] = IF n = m THEN 0 ELSE echo[n] BY SMT, <2>1, <2>2 DEF ConnectorTyped
  <2>5. Keeping'
    <3>1. CASE sup = "serve"
      <4>1. cur \in Muxes BY <3>1, HeldMux
      <4> QED BY SMT, <1>1, <2>1, <2>2, <2>4, <3>1, <4>1 DEF Keeping
    <3>2. CASE sup = "signon"
      <4>1. cur \in Muxes BY <3>2, HeldMux
      <4> QED BY <1>1, <2>4, <3>2, <4>1 DEF Keeping
    <3> QED BY <1>1, <3>1, <3>2 DEF Keeping
  <2> QED BY <1>1, <2>1, <2>3, <2>5 DEF Holding, Watched, NoneLeft
<1> QED BY <1>2, <1>3

\* Requests and Stops only look.
LEMMA ConnectorFrame ==
  ASSUME ConnectorInv, UNCHANGED <<sup, cur, ptr, mux, inflight, echo, result>>, cancelled' \in BOOLEAN
  PROVE  ConnectorInv'
BY DEF ConnectorInv, ConnectorTyped, Holding, Keeping, Watched, NoneLeft

LEMMA ConnectorInvNext == ASSUME ConnectorInv, [ConnectorNext]_connectorVars PROVE ConnectorInv'
<1>1. cancelled \in BOOLEAN BY DEF ConnectorInv, ConnectorTyped
<1>2. CASE UNCHANGED connectorVars BY <1>1, <1>2, ConnectorFrame DEF connectorVars
<1>3. CASE \E r \in Requests : Load(r) \/ RequestAnswered(r) \/ RequestFails(r)
  BY <1>1, <1>3, ConnectorFrame DEF Load, RequestAnswered, RequestFails, keepalive
<1>4. CASE \E x \in Stoppers : StopCancel(x) \/ StopWait(x)
  BY <1>1, <1>4, ConnectorFrame DEF StopCancel, StopWait, keepalive
<1> QED BY <1>2, <1>3, <1>4, SuperviseStep, ServeStep, MuxStep DEF ConnectorNext

\* A published mux is the one being served, no connection is left behind, and a
\* mux has at most one keepalive in flight, for any number of muxes, requests and
\* stops and however dials, sign-ons, keepalives and links fail.
THEOREM ConnectorStaysSound == ConnectorSpec => []ConnectorSound
<1>1. ConnectorInit => ConnectorInv BY ConnectorInvInit
<1>2. ConnectorInv /\ [ConnectorNext]_connectorVars => ConnectorInv' BY ConnectorInvNext
<1>3. ConnectorInv => ConnectorSound
  BY SMT DEF ConnectorInv, ConnectorTyped, ConnectorSound, OneKeepalive
<1> QED BY <1>1, <1>2, <1>3, PTL DEF ConnectorSpec

-----------------------------------------------------------------------------
(* The pool of links.                                                      *)

\* Goroutines that reconnect started and that have not ended: what p.wg counts.
Working == {r \in Reconnectors : rec[r] # "idle"}

PoolTyped ==
  /\ slots \in [Idx -> Links \cup {NoLink}] /\ next \in Idx
  /\ open \subseteq Links /\ done \in BOOLEAN
  /\ user \in [Users -> {"idle", "get", "discard", "schedule"}]
  /\ held \in [Users -> Links \cup {NoLink}] /\ emptied \in [Users -> Idx]
  /\ rec \in [Reconnectors -> {"idle", "check", "dial", "backoff", "install"}]
  /\ slotOf \in [Reconnectors -> Idx] /\ got \in [Reconnectors -> Links \cup {NoLink}]
  /\ closer \in [PoolClosers -> {"idle", "sweep", "wait", "returned"}]

WgCounts == IsFiniteSet(Working) /\ wg = Cardinality(Working)

\* Who works for a slot, or is about to start somebody who does, is alone.
Alone ==
  /\ \A r, t \in Reconnectors : rec[r] # "idle" /\ rec[t] # "idle" /\ slotOf[r] = slotOf[t] => r = t
  /\ \A u, v \in Users : user[u] = "schedule" /\ user[v] = "schedule" /\ emptied[u] = emptied[v] => u = v
  /\ \A r \in Reconnectors, u \in Users :
       rec[r] # "idle" /\ user[u] = "schedule" => slotOf[r] # emptied[u]

\* And the slot is empty meanwhile.
Vacant ==
  /\ \A r \in Reconnectors : rec[r] # "idle" => slots[slotOf[r]] = NoLink
  /\ \A u \in Users : user[u] = "schedule" => slots[emptied[u]] = NoLink

\* An open link is in a slot or on its way to one; the one a Discard closed is not
\* open, and neither is nil.
OpenLinks ==
  /\ \A l \in open : \/ \E i \in Idx : slots[i] = l
                     \/ \E r \in Reconnectors : rec[r] = "install" /\ got[r] = l
  /\ \A r \in Reconnectors : rec[r] = "install" => got[r] \in Links
  /\ \A u \in Users : user[u] = "discard" => held[u] \in Links /\ held[u] \notin open

\* What a Close has seen to.
Closing ==
  /\ \A c \in PoolClosers : closer[c] # "idle" => done
  /\ \A c \in PoolClosers : closer[c] \in {"wait", "returned"} => \A i \in Idx : slots[i] = NoLink
  /\ \A c \in PoolClosers : closer[c] = "returned" =>
       \A r \in Reconnectors : rec[r] \in {"idle", "check"}

PoolInv ==
  PoolTyped /\ WgCounts /\ Alone /\ Vacant /\ OpenLinks /\ Closing /\ NoSlotForgotten

-----------------------------------------------------------------------------
(* p.wg.                                                                   *)

LEMMA WorkerStarts ==
  ASSUME PoolTyped, WgCounts, NEW r \in Reconnectors, rec[r] = "idle",
         rec' = [rec EXCEPT ![r] = "check"], wg' = wg + 1
  PROVE  WgCounts'
<1>1. Working' = Working \cup {r} /\ r \notin Working BY DEF PoolTyped, Working
<1> QED BY <1>1, FS_AddElement DEF WgCounts

LEMMA WorkerEnds ==
  ASSUME PoolTyped, WgCounts, NEW r \in Reconnectors, rec[r] # "idle",
         rec' = [rec EXCEPT ![r] = "idle"], wg' = wg - 1
  PROVE  WgCounts'
<1>1. Working' = Working \ {r} /\ r \in Working BY DEF PoolTyped, Working
<1> QED BY <1>1, FS_RemoveElement DEF WgCounts

LEMMA WorkerMoves ==
  ASSUME PoolTyped, WgCounts, NEW r \in Reconnectors, rec[r] # "idle", NEW x, x # "idle",
         rec' = [rec EXCEPT ![r] = x], wg' = wg
  PROVE  WgCounts'
<1>1. Working' = Working BY DEF PoolTyped, Working
<1> QED BY <1>1 DEF WgCounts


LEMMA SlotOfRound == ASSUME NEW n \in Nat PROVE n % Size \in Idx
BY SMT, PoolAssumption DEF Idx

-----------------------------------------------------------------------------
(* Callers.                                                                *)

\* What a caller holds changes nothing for the slots and the goroutines.
LEMMA CallerKeeps ==
  ASSUME PoolInv, NEW u \in Users, NEW w \in {"idle", "get"}, user[u] # "schedule",
         user' = [user EXCEPT ![u] = w], held' \in [Users -> Links \cup {NoLink}],
         \A v \in Users : v # u => held'[v] = held[v], next' \in Idx,
         UNCHANGED <<slots, done, wg, open, emptied, rec, slotOf, got, closer>>
  PROVE  PoolInv'
<1> USE DEF PoolInv
<1>1. PoolTyped' BY DEF PoolTyped
<1>2. \A v \in Users : /\ user'[v] = "schedule" <=> user[v] = "schedule"
                       /\ user'[v] = "discard" => v # u /\ user[v] = "discard"
  BY DEF PoolTyped
<1>3. WgCounts' /\ Closing' BY DEF WgCounts, Working, Closing
<1>4. Alone' /\ Vacant' BY SMT, <1>2 DEF Alone, Vacant
<1>5. OpenLinks' BY SMT, <1>2 DEF OpenLinks
<1>6. NoSlotForgotten' BY <1>2 DEF NoSlotForgotten
<1> QED BY <1>1, <1>3, <1>4, <1>5, <1>6

LEMMA CallerStep ==
  ASSUME PoolInv, NEW u \in Users, GetCall(u) \/ GetPick(u) \/ Release(u)
  PROVE  PoolInv'
<1>1. UNCHANGED <<slots, done, wg, open, emptied, rec, slotOf, got, closer>>
  BY DEF GetCall, GetPick, Release, goroutines
<1>2. PoolTyped BY DEF PoolInv
<1>3. CASE GetCall(u)
  <2>1. user[u] = "idle" /\ user' = [user EXCEPT ![u] = "get"] /\ held' = held /\ next' = next
    BY <1>3 DEF GetCall
  <2> QED BY <1>1, <1>2, <2>1, CallerKeeps DEF PoolTyped
<1>4. CASE Release(u)
  <2>1. user[u] = "idle" /\ user' = user /\ held' = [held EXCEPT ![u] = NoLink] /\ next' = next
    BY <1>4 DEF Release
  <2>2. user' = [user EXCEPT ![u] = "idle"] BY <1>2, <2>1 DEF PoolTyped
  <2> QED BY <1>1, <1>2, <2>1, <2>2, CallerKeeps DEF PoolTyped
<1>5. CASE GetPick(u)
  <2>1. user[u] = "get" /\ user' = [user EXCEPT ![u] = "idle"] BY <1>5 DEF GetPick
  <2>2. /\ held' \in [Users -> Links \cup {NoLink}] /\ next' \in Idx
        /\ \A v \in Users : v # u => held'[v] = held[v]
    <3>1. CASE UNCHANGED <<next, held>> BY <1>2, <3>1 DEF PoolTyped
    <3>2. CASE ~UNCHANGED <<next, held>>
      <4>1. PICK i \in Idx : /\ held' = [held EXCEPT ![u] = slots[(next + i) % Size]]
                             /\ next' = (((next + i) % Size) + 1) % Size
        BY <1>5, <3>2 DEF GetPick
      <4>2. next + i \in Nat BY SMT, <1>2 DEF PoolTyped, Idx
      <4>3. (next + i) % Size \in Idx /\ ((next + i) % Size) + 1 \in Nat
        BY SMT, <4>2, SlotOfRound DEF Idx
      <4>4. next' \in Idx BY <4>1, <4>3, SlotOfRound
      <4>5. slots[(next + i) % Size] \in Links \cup {NoLink} BY <1>2, <4>3 DEF PoolTyped
      <4> QED BY <1>2, <4>1, <4>4, <4>5 DEF PoolTyped
    <3> QED BY <3>1, <3>2
  <2> QED BY <1>1, <2>1, <2>2, CallerKeeps
<1> QED BY <1>3, <1>4, <1>5

\* Discard's l.Close(): whatever is still in a slot is closed from now on.
LEMMA DiscardCloseStep == ASSUME PoolInv, NEW u \in Users, DiscardClose(u) PROVE PoolInv'
<1> USE DEF PoolInv
<1>1. /\ user[u] = "idle" /\ held[u] # NoLink /\ open' = open \ {held[u]}
      /\ user' = [user EXCEPT ![u] = "discard"]
      /\ UNCHANGED <<slots, next, done, wg, held, emptied, rec, slotOf, got, closer>>
  BY DEF DiscardClose, goroutines
<1>2. PoolTyped' BY <1>1 DEF PoolTyped
<1>3. \A v \in Users : /\ user'[v] = "schedule" <=> user[v] = "schedule"
                       /\ user'[v] = "discard" => v = u \/ user[v] = "discard"
  BY <1>1 DEF PoolTyped
<1>4. WgCounts' /\ Closing' BY <1>1 DEF WgCounts, Working, Closing
<1>5. Alone' /\ Vacant' BY SMTT(30), <1>1, <1>3 DEF Alone, Vacant
<1>6. OpenLinks' BY SMT, <1>1, <1>3 DEF PoolTyped, OpenLinks
<1>7. NoSlotForgotten' BY <1>1, <1>3 DEF NoSlotForgotten
<1> QED BY <1>2, <1>4, <1>5, <1>6, <1>7

\* Discard under p.mu: the slot has a link, so nobody works for it.
LEMMA DiscardSlotStep == ASSUME PoolInv, NEW u \in Users, DiscardSlot(u) PROVE PoolInv'
<1> USE DEF PoolInv
<1>1. /\ user[u] = "discard" /\ held[u] \in Links /\ held[u] \notin open
      /\ held' = [held EXCEPT ![u] = NoLink]
      /\ UNCHANGED <<next, done, wg, open, rec, slotOf, got, closer>>
  BY DEF DiscardSlot, goroutines, OpenLinks
<1>2. CASE user' = [user EXCEPT ![u] = "idle"] /\ UNCHANGED <<slots, emptied>>
  BY <1>1, <1>2, PoolAssumption, CallerKeeps DEF PoolTyped
<1>3. ASSUME NEW i \in Idx, slots[i] = held[u], slots' = [slots EXCEPT ![i] = NoLink],
             emptied' = [emptied EXCEPT ![u] = i], user' = [user EXCEPT ![u] = "schedule"]
      PROVE  PoolInv'
  <2>1. PoolTyped' BY <1>1, <1>3 DEF PoolTyped
  <2>2. \A v \in Users : /\ user'[v] = "schedule" <=> v = u \/ user[v] = "schedule"
                         /\ user'[v] = "discard" => v # u /\ user[v] = "discard"
                         /\ v # u => emptied'[v] = emptied[v] /\ held'[v] = held[v]
    BY <1>1, <1>3 DEF PoolTyped
  <2>3. emptied'[u] = i /\ \A j \in Idx : slots'[j] = IF j = i THEN NoLink ELSE slots[j]
    BY <1>3 DEF PoolTyped
  <2>4. /\ \A r \in Reconnectors : rec[r] # "idle" => slotOf[r] # i
        /\ \A v \in Users : user[v] = "schedule" => emptied[v] # i
    BY <1>1, <1>3, PoolAssumption DEF Vacant
  <2>5. WgCounts' BY <1>1 DEF WgCounts, Working
  <2>6. Closing' BY <1>1, <2>3 DEF Closing
  <2>7. Alone' BY SMTT(30), <1>1, <2>2, <2>3, <2>4 DEF Alone
  <2>8. Vacant' BY SMTT(30), <1>1, <2>2, <2>3 DEF Vacant, PoolTyped
  <2>9. OpenLinks' BY SMTT(30), <1>1, <1>3, <2>2, <2>3 DEF OpenLinks
  <2>10. NoSlotForgotten' BY SMT, <1>1, <2>2, <2>3 DEF NoSlotForgotten
  <2> QED BY <2>1, <2>5, <2>6, <2>7, <2>8, <2>9, <2>10
<1> QED BY <1>2, <1>3 DEF DiscardSlot

\* reconnect: the goroutine takes the slot over from the Discard.
LEMMA ReconnectStep == ASSUME PoolInv, NEW u \in Users, reconnect(u) PROVE PoolInv'
<1> USE DEF PoolInv
<1> DEFINE r == CHOOSE g \in Reconnectors : rec[g] = "idle"
<1>1. r \in Reconnectors /\ rec[r] = "idle" BY DEF reconnect
<1>2. /\ user[u] = "schedule" /\ user' = [user EXCEPT ![u] = "idle"]
      /\ emptied' = [emptied EXCEPT ![u] = 0] /\ wg' = wg + 1
      /\ rec' = [rec EXCEPT ![r] = "check"] /\ slotOf' = [slotOf EXCEPT ![r] = emptied[u]]
      /\ UNCHANGED <<slots, next, done, open, held, got, closer>>
  BY DEF reconnect
<1> HIDE DEF r
<1>3. 0 \in Idx BY SMT, PoolAssumption DEF Idx
<1>4. PoolTyped' BY <1>1, <1>2, <1>3 DEF PoolTyped
<1>5. \A v \in Users : /\ user'[v] = "schedule" <=> v # u /\ user[v] = "schedule"
                       /\ user'[v] = "discard" <=> user[v] = "discard"
                       /\ v # u => emptied'[v] = emptied[v]
  BY <1>2 DEF PoolTyped
<1>6. \A t \in Reconnectors : /\ rec'[t] = IF t = r THEN "check" ELSE rec[t]
                              /\ slotOf'[t] = IF t = r THEN emptied[u] ELSE slotOf[t]
  BY <1>1, <1>2 DEF PoolTyped
<1>7. WgCounts' BY <1>1, <1>2, WorkerStarts
<1>8. Alone' BY SMTT(30), <1>1, <1>2, <1>5, <1>6 DEF Alone
<1>9. Vacant' BY SMT, <1>2, <1>5, <1>6 DEF Vacant
<1>10. OpenLinks' BY SMT, <1>1, <1>2, <1>5, <1>6 DEF OpenLinks
<1>11. Closing' BY <1>2, <1>6 DEF Closing
<1>12. NoSlotForgotten'
  <2> SUFFICES ASSUME NEW i \in Idx, slots[i] = NoLink, ~done
               PROVE  \/ \E t \in Reconnectors : rec'[t] # "idle" /\ slotOf'[t] = i
                      \/ \E v \in Users : user'[v] = "schedule" /\ emptied'[v] = i
    BY <1>2 DEF NoSlotForgotten
  <2>1. CASE emptied[u] = i BY <1>1, <1>6, <2>1
  <2>2. CASE emptied[u] # i BY SMT, <1>1, <1>2, <1>5, <1>6, <2>2 DEF NoSlotForgotten
  <2> QED BY <2>1, <2>2
<1> QED BY <1>4, <1>7, <1>8, <1>9, <1>10, <1>11, <1>12

-----------------------------------------------------------------------------
(* The goroutines that reconnect.                                          *)

\* A goroutine goes on from x to y; it ends before it has dialled only when the
\* pool is closed, and dials only when it is not.
LEMMA WorkerKeeps ==
  ASSUME PoolInv, NEW r \in Reconnectors, NEW y \in {"idle", "check", "dial", "backoff"},
         rec[r] \notin {"idle", "install"}, rec' = [rec EXCEPT ![r] = y], WgCounts',
         y = "idle" => done, y \in {"dial", "backoff"} => ~done \/ rec[r] = "dial",
         UNCHANGED <<slots, next, done, open, user, held, emptied, slotOf, got, closer>>
  PROVE  PoolInv'
<1> USE DEF PoolInv
<1>1. PoolTyped' BY DEF PoolTyped
<1>2. \A t \in Reconnectors : rec'[t] = IF t = r THEN y ELSE rec[t] BY DEF PoolTyped
<1>3. Alone' BY SMT, <1>2 DEF Alone
<1>4. Vacant' BY <1>2 DEF Vacant
<1>5. OpenLinks'
  <2>1. \A t \in Reconnectors : rec'[t] = "install" <=> rec[t] = "install" BY <1>2
  <2> QED BY <2>1 DEF OpenLinks
<1>6. Closing'
  <2> SUFFICES ASSUME NEW c \in PoolClosers, closer[c] = "returned", NEW t \in Reconnectors
               PROVE  rec'[t] \in {"idle", "check"}
    BY DEF Closing
  <2>1. done /\ rec[t] \in {"idle", "check"} /\ rec[r] \in {"idle", "check"} BY DEF Closing
  <2> QED BY <1>2, <2>1
<1>7. NoSlotForgotten' BY SMT, <1>2 DEF NoSlotForgotten
<1> QED BY <1>1, <1>3, <1>4, <1>5, <1>6, <1>7

LEMMA WorkerStep ==
  ASSUME PoolInv, NEW r \in Reconnectors, RecCheck(r) \/ DialFails(r) \/ Backoff(r)
  PROVE  PoolInv'
<1>1. UNCHANGED <<slots, next, done, open, user, held, emptied, slotOf, got, closer>>
  BY DEF RecCheck, DialFails, Backoff, users
<1>2. PoolTyped /\ WgCounts BY DEF PoolInv
<1>3. CASE rec[r] \in {"check", "backoff"} /\ done /\ rec' = [rec EXCEPT ![r] = "idle"] /\ wg' = wg - 1
  <2>1. WgCounts' BY <1>2, <1>3, WorkerEnds
  <2> QED BY <1>1, <1>3, <2>1, WorkerKeeps
<1>4. CASE rec[r] = "check" /\ ~done /\ rec' = [rec EXCEPT ![r] = "dial"] /\ wg' = wg
  <2>1. WgCounts' BY <1>2, <1>4, WorkerMoves
  <2> QED BY <1>1, <1>4, <2>1, WorkerKeeps
<1>5. CASE rec[r] = "dial" /\ rec' = [rec EXCEPT ![r] = "backoff"] /\ wg' = wg
  <2>1. WgCounts' BY <1>2, <1>5, WorkerMoves
  <2> QED BY <1>1, <1>5, <2>1, WorkerKeeps
<1>6. CASE rec[r] = "backoff" /\ rec' = [rec EXCEPT ![r] = "check"] /\ wg' = wg
  <2>1. WgCounts' BY <1>2, <1>6, WorkerMoves
  <2> QED BY <1>1, <1>6, <2>1, WorkerKeeps
<1>7. CASE RecCheck(r) BY <1>2, <1>3, <1>4, <1>7 DEF RecCheck, PoolTyped
<1>8. CASE DialFails(r) BY <1>5, <1>8 DEF DialFails
<1>9. CASE Backoff(r) BY <1>3, <1>6, <1>9 DEF Backoff
<1> QED BY <1>7, <1>8, <1>9

\* The new link is nobody's yet.
LEMMA DialSucceedsStep == ASSUME PoolInv, NEW r \in Reconnectors, DialSucceeds(r) PROVE PoolInv'
<1> USE DEF PoolInv
<1>1. PICK l \in Links : Unused(l) /\ open' = open \cup {l} /\ got' = [got EXCEPT ![r] = l]
  BY DEF DialSucceeds
<1>2. /\ rec[r] = "dial" /\ rec' = [rec EXCEPT ![r] = "install"]
      /\ UNCHANGED <<slots, next, done, wg, user, held, emptied, slotOf, closer>>
  BY DEF DialSucceeds, users
<1>3. PoolTyped' BY <1>1, <1>2 DEF PoolTyped
<1>4. WgCounts' BY <1>2, WorkerMoves
<1>5. \A t \in Reconnectors : /\ rec'[t] = IF t = r THEN "install" ELSE rec[t]
                              /\ got'[t] = IF t = r THEN l ELSE got[t]
  BY <1>1, <1>2 DEF PoolTyped
<1>6. Alone' BY SMT, <1>2, <1>5 DEF Alone
<1>7. Vacant' BY <1>2, <1>5 DEF Vacant
<1>8. OpenLinks'
  <2>1. \A k \in open' : \/ \E i \in Idx : slots'[i] = k
                         \/ \E t \in Reconnectors : rec'[t] = "install" /\ got'[t] = k
    BY SMT, <1>1, <1>2, <1>5 DEF OpenLinks
  <2>2. \A t \in Reconnectors : rec'[t] = "install" => got'[t] \in Links BY <1>5 DEF OpenLinks
  <2>3. \A u \in Users : user'[u] = "discard" => held'[u] \in Links /\ held'[u] \notin open'
    BY <1>1, <1>2 DEF OpenLinks, Unused
  <2> QED BY <2>1, <2>2, <2>3 DEF OpenLinks
<1>9. Closing' BY <1>2, <1>5 DEF Closing
<1>10. NoSlotForgotten' BY SMT, <1>2, <1>5 DEF NoSlotForgotten
<1> QED BY <1>3, <1>4, <1>6, <1>7, <1>8, <1>9, <1>10

\* The goroutine fills its slot, which is empty and nobody else's, or closes the
\* link it dialled.
LEMMA InstallStep == ASSUME PoolInv, NEW r \in Reconnectors, Install(r) PROVE PoolInv'
<1> USE DEF PoolInv
<1>1. /\ rec[r] = "install" /\ rec' = [rec EXCEPT ![r] = "idle"] /\ wg' = wg - 1
      /\ got' = [got EXCEPT ![r] = NoLink]
      /\ UNCHANGED <<next, done, user, held, emptied, slotOf, closer>>
  BY DEF Install, users
<1>2. got[r] \in Links /\ slotOf[r] \in Idx BY <1>1 DEF OpenLinks, PoolTyped
<1>3. \A t \in Reconnectors : /\ rec'[t] = IF t = r THEN "idle" ELSE rec[t]
                              /\ t # r => got'[t] = got[t]
  BY <1>1 DEF PoolTyped
<1>4. WgCounts' BY <1>1, WorkerEnds
<1>5. Alone' BY SMT, <1>1, <1>3 DEF Alone
<1>6. CASE done
  <2>1. open' = open \ {got[r]} /\ slots' = slots BY <1>6 DEF Install
  <2>2. PoolTyped' BY <1>1, <2>1, PoolAssumption DEF PoolTyped
  <2>3. Vacant' BY <1>1, <1>3, <2>1 DEF Vacant
  <2>4. OpenLinks' BY SMT, <1>1, <1>3, <2>1 DEF OpenLinks
  <2>5. Closing' BY <1>1, <1>3, <2>1 DEF Closing
  <2>6. NoSlotForgotten' BY <1>1, <1>6 DEF NoSlotForgotten
  <2> QED BY <1>4, <1>5, <2>2, <2>3, <2>4, <2>5, <2>6
<1>7. CASE ~done
  <2>1. slots' = [slots EXCEPT ![slotOf[r]] = got[r]] /\ open' = open BY <1>7 DEF Install
  <2>2. PoolTyped' BY <1>1, <1>2, <2>1 DEF PoolTyped
  <2>3. \A i \in Idx : slots'[i] = IF i = slotOf[r] THEN got[r] ELSE slots[i]
    BY <2>1 DEF PoolTyped
  <2>4. \A t \in Reconnectors : rec'[t] # "idle" => slotOf[t] # slotOf[r] BY <1>1, <1>3 DEF Alone
  <2>5. \A u \in Users : user[u] = "schedule" => emptied[u] # slotOf[r] BY <1>1 DEF Alone
  <2>6. Vacant' BY SMT, <1>1, <1>3, <2>3, <2>4, <2>5 DEF Vacant, PoolTyped
  <2>7. slots[slotOf[r]] = NoLink BY <1>1 DEF Vacant
  <2>8. OpenLinks'
    <3>1. ASSUME NEW k \in open
          PROVE  \/ \E i \in Idx : slots'[i] = k
                 \/ \E t \in Reconnectors : rec'[t] = "install" /\ got'[t] = k
      <4>1. k \in Links /\ k # NoLink BY PoolAssumption DEF PoolTyped
      <4>2. CASE k = got[r] BY SMTT(30), <1>2, <2>3, <4>2
      <4>3. CASE k # got[r] BY SMTT(30), <1>3, <2>3, <2>7, <4>1, <4>3 DEF OpenLinks
      <4> QED BY <4>2, <4>3
    <3> QED BY SMT, <1>1, <1>3, <2>1, <3>1 DEF OpenLinks
  <2>9. Closing' BY SMTT(30), <1>1, <1>7 DEF Closing
  <2>10. NoSlotForgotten'
    <3>1. \A i \in Idx : slots'[i] = NoLink => i # slotOf[r] /\ slots[i] = NoLink
      BY <1>2, <2>3, PoolAssumption
    <3> QED BY SMT, <1>1, <1>3, <3>1 DEF NoSlotForgotten
  <2> QED BY <1>4, <1>5, <2>2, <2>6, <2>8, <2>9, <2>10
<1> QED BY <1>6, <1>7 DEF PoolTyped

-----------------------------------------------------------------------------
(* Close.                                                                  *)

LEMMA CloseDoneStep == ASSUME PoolInv, NEW c \in PoolClosers, CloseDone(c) PROVE PoolInv'
<1> USE DEF PoolInv
<1>1. /\ done' = TRUE /\ closer' = [closer EXCEPT ![c] = "sweep"]
      /\ UNCHANGED <<slots, next, wg, open, user, held, emptied, rec, slotOf, got>>
  BY DEF CloseDone, users, goroutines
<1>2. PoolTyped' BY ZenonT(30), <1>1 DEF PoolTyped
<1>3. WgCounts' /\ Alone' /\ Vacant' /\ OpenLinks'
  BY SMT, <1>1 DEF WgCounts, Working, Alone, Vacant, OpenLinks
<1>4. \A d \in PoolClosers : closer'[d] \in {"wait", "returned"} => closer'[d] = closer[d]
  BY <1>1 DEF PoolTyped
<1>5. Closing' BY <1>1, <1>4 DEF Closing
<1>6. NoSlotForgotten' BY <1>1 DEF NoSlotForgotten
<1> QED BY <1>2, <1>3, <1>5, <1>6

LEMMA CloseSlotsStep == ASSUME PoolInv, NEW c \in PoolClosers, CloseSlots(c) PROVE PoolInv'
<1> USE DEF PoolInv
<1>1. /\ closer[c] = "sweep" /\ closer' = [closer EXCEPT ![c] = "wait"]
      /\ open' = open \ {slots[i] : i \in Idx} /\ slots' = [i \in Idx |-> NoLink]
      /\ UNCHANGED <<next, done, wg, user, held, emptied, rec, slotOf, got>>
  BY DEF CloseSlots, users, goroutines
<1>2. done /\ \A i \in Idx : slots'[i] = NoLink BY <1>1 DEF Closing
<1>3. PoolTyped' BY <1>1 DEF PoolTyped
<1>4. WgCounts' /\ Alone' BY ZenonT(30), <1>1 DEF WgCounts, Working, Alone
<1>5. Vacant' BY SMTT(30), <1>1, <1>2 DEF Vacant, PoolTyped
<1>6. OpenLinks' BY SMT, <1>1 DEF OpenLinks
<1>7. \A d \in PoolClosers : closer'[d] = "returned" => closer[d] = "returned" BY <1>1 DEF PoolTyped
<1>8. Closing' BY <1>1, <1>2, <1>7 DEF Closing
<1>9. NoSlotForgotten' BY <1>1, <1>2 DEF NoSlotForgotten
<1> QED BY <1>3, <1>4, <1>5, <1>6, <1>8, <1>9

\* Close's Wait: no goroutine runs, and one that starts later finds p.done closed.
LEMMA CloseWaitStep == ASSUME PoolInv, NEW c \in PoolClosers, CloseWait(c) PROVE PoolInv'
<1> USE DEF PoolInv
<1>1. /\ closer[c] = "wait" /\ wg = 0 /\ closer' = [closer EXCEPT ![c] = "returned"]
      /\ UNCHANGED <<slots, next, done, wg, open, user, held, emptied, rec, slotOf, got>>
  BY DEF CloseWait, users, goroutines
<1>2. Working = {} BY <1>1, FS_EmptySet DEF WgCounts
<1>3. \A r \in Reconnectors : rec[r] = "idle" BY <1>2 DEF Working
<1>4. PoolTyped' BY ZenonT(30), <1>1 DEF PoolTyped
<1>5. WgCounts' /\ Alone' /\ Vacant' /\ OpenLinks'
  BY SMT, <1>1 DEF WgCounts, Working, Alone, Vacant, OpenLinks
<1>6. \A d \in PoolClosers : closer'[d] # closer[d] => d = c BY <1>1 DEF PoolTyped
<1>7. Closing' BY <1>1, <1>3, <1>6 DEF Closing
<1>8. NoSlotForgotten' BY <1>1 DEF NoSlotForgotten
<1> QED BY <1>4, <1>5, <1>7, <1>8

-----------------------------------------------------------------------------
(* NewPool.                                                                *)

LEMMA IdxSize == IsFiniteSet(Idx) /\ Cardinality(Idx) = Size
<1>1. 0 \in Int /\ Size - 1 \in Int /\ ~(0 > Size - 1) BY SMT, PoolAssumption
<1>2. IsFiniteSet(0 .. Size - 1) /\ Cardinality(0 .. Size - 1) = (Size - 1) - 0 + 1
  BY <1>1, FS_Interval
<1> QED BY SMT, <1>2, PoolAssumption DEF Idx

\* A goroutine for each slot that was not dialled.
LEMMA FirstWorkers ==
  ASSUME NEW r \in Numberings(Reconnectors), NEW up \in SUBSET Idx,
         NEW W, W = {r[i] : i \in Idx \ up}
  PROVE  IsFiniteSet(W) /\ Cardinality(W) = Size - Cardinality(up)
<1> DEFINE D == Idx \ up
           f == [i \in D |-> r[i]]
<1>1. IsFiniteSet(D) /\ Cardinality(D) = Cardinality(Idx) - Cardinality(Idx \cap up)
  BY IdxSize, FS_Difference
<1>2. Idx \cap up = up OBVIOUS
<1>3. f \in [D -> W] OBVIOUS
<1>4. \A i, j \in D : f[i] = f[j] => i = j BY DEF Numberings
<1>5. \A w \in W : \E i \in D : f[i] = w OBVIOUS
<1>6. f \in Bijection(D, W) BY <1>3, <1>4, <1>5 DEF Bijection, Injection, Surjection, IsInjective
<1>7. ExistsBijection(D, W) BY <1>6 DEF ExistsBijection
<1>8. IsFiniteSet(W) /\ Cardinality(W) = Cardinality(D) BY <1>1, <1>7, FS_Bijection
<1> QED BY <1>1, <1>2, <1>8, IdxSize

LEMMA PoolInvInit == ASSUME PoolInit PROVE PoolInv
<1> DEFINE l == Numbered(Links)
           r == Numbered(Reconnectors)
<1>1. l \in Numberings(Links) /\ r \in Numberings(Reconnectors) BY EnoughAssumption DEF Numbered
<1>2. PICK up \in SUBSET Idx :
        /\ slots = [i \in Idx |-> IF i \in up THEN l[i] ELSE NoLink]
        /\ open = {l[i] : i \in up}
        /\ wg = Size - Cardinality(up)
        /\ rec = [g \in Reconnectors |-> IF \E i \in Idx \ up : r[i] = g THEN "check" ELSE "idle"]
        /\ slotOf = [g \in Reconnectors |->
                       IF \E i \in Idx \ up : r[i] = g THEN CHOOSE i \in Idx : r[i] = g ELSE 0]
        /\ next = 0 /\ done = FALSE
        /\ user = [u \in Users |-> "idle"]
        /\ held = [u \in Users |-> NoLink]
        /\ emptied = [u \in Users |-> 0]
        /\ got = [g \in Reconnectors |-> NoLink]
        /\ closer = [c \in PoolClosers |-> "idle"]
  BY DEF PoolInit
<1> HIDE DEF l, r
<1>3. /\ l \in [Idx -> Links] /\ r \in [Idx -> Reconnectors]
      /\ \A i, j \in Idx : r[i] = r[j] => i = j
  BY <1>1 DEF Numberings
<1>4. 0 \in Idx BY SMT, PoolAssumption DEF Idx
<1>5. \A g \in Reconnectors : rec[g] # "idle" <=> \E i \in Idx \ up : r[i] = g BY <1>2
<1>6. \A g \in Reconnectors : rec[g] # "idle" =>
        slotOf[g] \in Idx \ up /\ r[slotOf[g]] = g
  BY <1>2, <1>3, <1>5
<1>7. \A i \in Idx \ up : rec[r[i]] # "idle" /\ slotOf[r[i]] = i BY SMT, <1>3, <1>5, <1>6
<1>8. PoolTyped
  <2>1. slots \in [Idx -> Links \cup {NoLink}] /\ open \subseteq Links BY <1>2, <1>3
  <2>2. slotOf \in [Reconnectors -> Idx] BY <1>2, <1>3, <1>4
  <2>3. rec \in [Reconnectors -> {"idle", "check", "dial", "backoff", "install"}] BY <1>2
  <2>4. next \in Idx /\ emptied \in [Users -> Idx] BY <1>2, <1>4
  <2>5. /\ done \in BOOLEAN /\ user \in [Users -> {"idle", "get", "discard", "schedule"}]
        /\ held \in [Users -> Links \cup {NoLink}] /\ got \in [Reconnectors -> Links \cup {NoLink}]
        /\ closer \in [PoolClosers -> {"idle", "sweep", "wait", "returned"}]
    BY <1>2
  <2> QED BY <2>1, <2>2, <2>3, <2>4, <2>5 DEF PoolTyped
<1>9. WgCounts
  <2>1. Working = {r[i] : i \in Idx \ up} BY SMTT(30), <1>3, <1>5 DEF Working
  <2> QED BY <1>1, <1>2, <2>1, FirstWorkers DEF WgCounts
<1>10. Alone BY SMT, <1>2, <1>6 DEF Alone
<1>11. Vacant BY <1>2, <1>6 DEF Vacant
<1>12. OpenLinks BY <1>2 DEF OpenLinks
<1>13. Closing BY <1>2 DEF Closing
<1>14. NoSlotForgotten
  <2>1. \A i \in Idx : slots[i] = NoLink => i \notin up BY SMTT(30), <1>2, <1>3, PoolAssumption
  <2> QED BY <1>3, <1>7, <2>1 DEF NoSlotForgotten
<1> QED BY <1>8, <1>9, <1>10, <1>11, <1>12, <1>13, <1>14 DEF PoolInv

LEMMA PoolInvNext == ASSUME PoolInv, [PoolNext]_poolVars PROVE PoolInv'
<1>1. CASE UNCHANGED poolVars
  BY SMT, <1>1 DEF poolVars, PoolInv, PoolTyped, WgCounts, Working, Alone, Vacant, OpenLinks, Closing,
              NoSlotForgotten
<1>2. CASE PoolNext
  BY <1>2, CallerStep, DiscardCloseStep, DiscardSlotStep, ReconnectStep, WorkerStep,
     DialSucceedsStep, InstallStep, CloseDoneStep, CloseSlotsStep, CloseWaitStep
     DEF PoolNext, PoolWork, PoolClose
<1> QED BY <1>1, <1>2

LEMMA PoolInvariant == PoolSpec => []PoolInv
<1>1. PoolInit => PoolInv BY PoolInvInit
<1>2. PoolInv /\ [PoolNext]_poolVars => PoolInv' BY PoolInvNext
<1> QED BY <1>1, <1>2, PTL DEF PoolSpec

LEMMA AtMostOne ==
  ASSUME NEW S, \A x, y \in S : x = y
  PROVE  Cardinality(S) = IF S = {} THEN 0 ELSE 1
<1>1. CASE S = {} BY <1>1, FS_EmptySet
<1>2. CASE S # {}
  <2>1. PICK x \in S : TRUE BY <1>2
  <2>2. S = {x} BY <2>1
  <2> QED BY <1>2, <2>2, FS_Singleton
<1> QED BY <1>1, <1>2

\* One goroutine at most works for a slot, which is empty meanwhile; an empty slot
\* of an open pool has one; and once a Close has returned no link is open. For any
\* size, links, callers, goroutines and calls of Close, under every interleaving of
\* Get, Discard, reconnect and Close.
THEOREM PoolStaysSound == PoolSpec => []PoolSound
<1>1. ASSUME PoolInv PROVE OnePerSlot
  <2> SUFFICES ASSUME NEW i \in Idx
               PROVE  LET working == {r \in Reconnectors : rec[r] # "idle" /\ slotOf[r] = i}
                          coming == {u \in Users : user[u] = "schedule" /\ emptied[u] = i}
                      IN  /\ Cardinality(working) + Cardinality(coming) <= 1
                          /\ working \cup coming # {} => slots[i] = NoLink
    BY DEF OnePerSlot
  <2> DEFINE working == {r \in Reconnectors : rec[r] # "idle" /\ slotOf[r] = i}
             coming == {u \in Users : user[u] = "schedule" /\ emptied[u] = i}
  <2>1. Cardinality(working) = IF working = {} THEN 0 ELSE 1
    BY <1>1, AtMostOne DEF PoolInv, Alone
  <2>2. Cardinality(coming) = IF coming = {} THEN 0 ELSE 1 BY <1>1, AtMostOne DEF PoolInv, Alone
  <2>3. working = {} \/ coming = {} BY <1>1 DEF PoolInv, Alone
  <2>4. working \cup coming # {} => slots[i] = NoLink BY <1>1 DEF PoolInv, Vacant
  <2>5. Cardinality(working) + Cardinality(coming) <= 1
    <3> HIDE DEF working, coming
    <3> QED BY SMT, <2>1, <2>2, <2>3
  <2> QED BY <2>4, <2>5
<1>2. ASSUME PoolInv PROVE ClosedForGood
  <2> SUFFICES ASSUME NEW c \in PoolClosers, closer[c] = "returned", NEW l \in open PROVE FALSE
    BY DEF ClosedForGood
  <2>1. l \in Links /\ \A i \in Idx : slots[i] = NoLink BY <1>1, <1>2 DEF PoolInv, PoolTyped, Closing
  <2>2. \A r \in Reconnectors : rec[r] # "install" BY <1>2 DEF PoolInv, Closing
  <2> QED BY <1>2, <2>1, <2>2, PoolAssumption DEF PoolInv, OpenLinks
<1>3. PoolInv => PoolSound BY <1>1, <1>2 DEF PoolInv, PoolSound
<1> QED BY <1>3, PoolInvariant, PTL
==============================================================================
