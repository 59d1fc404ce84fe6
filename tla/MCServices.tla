------------------------------ MODULE MCServices -----------------------------
(* The services beside the connections, each on its own: a behaviour is one of *)
(* a gateway on its listener, the tuple space, the configuration watcher or    *)
(* the SQL store. They share no state.                                         *)
EXTENDS Gateway, Space, Watcher, SqlStore

VARIABLE part

gwVars == <<listenerVars, gatewayVars>>
mcVars == <<part, gwVars, spaceVars, watcherVars, sqlVars>>

MCInit ==
  /\ part \in {"gateway", "space", "watcher", "sql"}
  /\ GatewayInit /\ SpaceInit /\ WatcherInit /\ SqlInit

InGateway(A) == part = "gateway" /\ A /\ UNCHANGED <<part, spaceVars, watcherVars, sqlVars>>
InListener(A) == InGateway(A /\ UNCHANGED gatewayVars)
InSpace(A) == part = "space" /\ A /\ UNCHANGED <<part, gwVars, watcherVars, sqlVars>>
InWatcher(A) == part = "watcher" /\ A /\ UNCHANGED <<part, gwVars, spaceVars, sqlVars>>
InSql(A) == part = "sql" /\ A /\ UNCHANGED <<part, gwVars, spaceVars, watcherVars>>

MCNext == InGateway(GatewayNext) \/ InSpace(SpaceNext) \/ InWatcher(WatcherNext) \/ InSql(SqlNext)

\* Goroutines that can run do, and an Accept on a closed socket returns; nobody has to
\* connect, send, hang up or close. The watcher's ticker fires again and again. The
\* database grants a lock in the order of the requests, so a statement that could
\* run again and again does: strong fairness.
MCSpec ==
  /\ MCInit /\ [][MCNext]_mcVars
  /\ WF_mcVars(InListener((~listening /\ AcceptFails) \/ track \/ Spawn))
  /\ \A c \in Conns : WF_mcVars(InListener(HandlerEnd(c)) \/ InGateway(ReceiveFails(c)))
  /\ \A f \in Frames : WF_mcVars(InGateway(HandleStep(f)))
  /\ \A x \in ListenerClosers : WF_mcVars(InListener(CloseStep(x)))
  /\ \A w \in Waiters : WF_mcVars(InSpace(Waiting(w)))
  /\ WF_mcVars(InWatcher(check))
  /\ \A r \in Reloaders : WF_mcVars(InWatcher(ReadFile(r) \/ Swap(r)))
  /\ \A c \in Clients : /\ SF_mcVars(InSql(Delete(c) \/ Update(c)))
                        /\ SF_mcVars(InSql(Insert(c)))
                        /\ WF_mcVars(InSql(Commit(c)))
=============================================================================
