------------------------------ MODULE MCSwitch -------------------------------
(* A switch's outbound connections and what is said of them, each on its own:  *)
(* a behaviour is one of the pool of links, a connector, the registrar, the    *)
(* admin API, the metrics or the health checks. They share no state.           *)
EXTENDS Pool, Connector, Registrar, Admin, Ops

VARIABLE part

mcVars == <<part, poolVars, connectorVars, registrarVars, adminVars, opsVars>>

MCInit ==
  /\ part \in {"pool", "connector", "registrar", "admin", "metrics", "health"}
  /\ PoolInit /\ (part # "pool" => wg = 0)
  /\ ConnectorInit /\ RegistrarInit /\ AdminInit /\ OpsInit

InPool(A) == part = "pool" /\ A /\ UNCHANGED <<part, connectorVars, registrarVars, adminVars, opsVars>>
InConnector(A) == part = "connector" /\ A /\ UNCHANGED <<part, poolVars, registrarVars, adminVars, opsVars>>
InRegistrar(A) == part = "registrar" /\ A /\ UNCHANGED <<part, poolVars, connectorVars, adminVars, opsVars>>
InAdmin(A) == part = "admin" /\ A /\ UNCHANGED <<part, poolVars, connectorVars, registrarVars, opsVars>>
InOps(p, A) == part = p /\ A /\ UNCHANGED <<part, poolVars, connectorVars, registrarVars, adminVars>>

MCNext ==
  \/ InPool(PoolNext) \/ InConnector(ConnectorNext) \/ InRegistrar(RegistrarNext)
  \/ InAdmin(AdminNext) \/ InOps("metrics", MetricsNext) \/ InOps("health", HealthNext)

\* Goroutines that can run do, and a select takes every case that stays ready in
\* the end. A dial, or a sign-on, that is tried for ever succeeds some time. Nobody
\* has to call Get, Discard, Request, Stop or Close.
MCSpec ==
  /\ MCInit /\ [][MCNext]_mcVars
  /\ \A r \in Reconnectors : /\ WF_mcVars(InPool(PoolWork(r)))
                             /\ SF_mcVars(InPool(DialSucceeds(r)))
  /\ \A u \in Users : WF_mcVars(InPool(reconnect(u) \/ DiscardSlot(u)))
  /\ \A c \in PoolClosers : WF_mcVars(InPool(PoolClose(c)))
  /\ WF_mcVars(InConnector(Supervise))
  /\ SF_mcVars(InConnector(Dialed)) /\ SF_mcVars(InConnector(Publish))
  /\ WF_mcVars(InConnector(Tick)) /\ WF_mcVars(InConnector(Result))
  /\ WF_mcVars(InConnector(ServeReturns))
  /\ \A m \in Muxes : WF_mcVars(InConnector(EchoFails(m) \/ EchoAnswered(m)))
  /\ \A r \in Requests : WF_mcVars(InConnector(RequestFails(r) \/ RequestAnswered(r)))
  /\ \A x \in Stoppers : WF_mcVars(InConnector(StopWait(x)))
=============================================================================
