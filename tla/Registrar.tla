------------------------------ MODULE Registrar ------------------------------
(* The container's name registrar beside the host it deploys to (teq/teq.go,   *)
(* teq/descriptor.go), for one name: names do not interact. The two maps are   *)
(* under two locks and every operation updates them one after the other:       *)
(* Switch and Gateway put first and deploy then, Register deploys first, and a *)
(* descriptor's factory puts its connector before the deployer deploys it.     *)
EXTENDS Naturals, FiniteSets

CONSTANTS
  Makers,   \* callers, each of one operation that makes one component
  NoObject

ASSUME RegistrarAssumption == NoObject \notin Makers

VARIABLES
  object,  \* q.objects[name]: the maker of the component, or NoObject
  hosted,  \* the component the host has under the name
  maker,   \* where a caller is
  api      \* the operation it called

registrarVars == <<object, hosted, maker, api>>

\* New.
RegistrarInit ==
  /\ object = NoObject
  /\ hosted = NoObject
  /\ maker = [m \in Makers |-> "idle"]
  /\ api = [m \in Makers |-> "none"]

At(m, s) == maker' = [maker EXCEPT ![m] = s]

\* Switch (or Gateway): putUnique.
Switch(m) ==
  /\ maker[m] = "idle"
  /\ api' = [api EXCEPT ![m] = "switch"]
  /\ IF object = NoObject THEN object' = m /\ At(m, "deploy")
                          ELSE UNCHANGED object /\ At(m, "failed")
  /\ UNCHANGED hosted

Register(m) ==
  /\ maker[m] = "idle"
  /\ api' = [api EXCEPT ![m] = "register"]
  /\ At(m, "deploy")
  /\ UNCHANGED <<object, hosted>>

\* connectorFactory, gatewayFactory: the new component replaces the entry while the
\* old one still runs. The deployer applies its descriptors one after the other.
Factory(m) ==
  /\ maker[m] = "idle"
  /\ \A o \in Makers : api[o] = "descriptor" => maker[o] \notin {"teardown", "deploy"}
  /\ api' = [api EXCEPT ![m] = "descriptor"]
  /\ object' = m
  /\ At(m, "teardown")
  /\ UNCHANGED hosted

\* Mutant: the old incarnation is left running.
teardownNot(m) ==
  /\ maker[m] = "teardown"
  /\ At(m, "deploy")
  /\ UNCHANGED <<object, hosted, api>>

\* The deployer's teardown of the descriptor's previous component, which may
\* report an error, and then the new one is not deployed.
teardown(m) ==
  /\ maker[m] = "teardown"
  /\ hosted' = IF hosted # NoObject /\ api[hosted] = "descriptor" THEN NoObject ELSE hosted
  /\ At(m, "deploy") \/ (hosted' # hosted /\ At(m, "failed"))
  /\ UNCHANGED <<object, api>>

\* host.Deploy refuses a name it has, and a component that does not start.
Deploy(m) ==
  /\ maker[m] = "deploy"
  /\ \/ /\ hosted = NoObject
        /\ hosted' = m
        /\ At(m, IF api[m] = "register" THEN "put" ELSE "ok")
     \/ /\ At(m, IF api[m] = "switch" THEN "remove" ELSE "failed")
        /\ UNCHANGED hosted
  /\ UNCHANGED <<object, api>>

\* Register's Put.
Put(m) ==
  /\ maker[m] = "put"
  /\ object' = m
  /\ At(m, "ok")
  /\ UNCHANGED <<hosted, api>>

\* Switch's remove: whoever has the name.
remove(m) ==
  /\ maker[m] = "remove"
  /\ object' = NoObject
  /\ At(m, "failed")
  /\ UNCHANGED <<hosted, api>>

\* host.Undeploy, by the deployer (whose descriptor went) or through Q.Host().
\* Nothing takes the entry out of the registrar.
Undeploy ==
  /\ hosted # NoObject
  /\ hosted' = NoObject
  /\ UNCHANGED <<object, maker, api>>

RegistrarNext ==
  \/ \E m \in Makers : \/ Switch(m) \/ Register(m) \/ Factory(m)
                       \/ teardown(m) \/ Deploy(m) \/ Put(m) \/ remove(m)
  \/ Undeploy

RegistrarSpec == RegistrarInit /\ [][RegistrarNext]_registrarVars
-----------------------------------------------------------------------------
(* Properties. *)

Only(how) == \A m \in Makers : api[m] \in {"none", how}

\* Where a name is used through Switch and Gateway alone, or through descriptors
\* alone, a component that the host runs is the one To and Get return once the calls
\* in progress are over, whatever was undeployed meanwhile. Other mixes break it: a
\* failed Switch removes the entry of a Register, a descriptor's connector replaces
\* a Switch's and is never started, and two Registers around an Undeploy may put
\* their entries in the other order.
\* And a Switch that succeeded, where nobody used another operation, has the name
\* for good.
Reachable ==
  /\ (/\ Only("switch") \/ Only("descriptor")
      /\ \A m \in Makers : maker[m] \notin {"teardown", "deploy", "put", "remove"})
       => hosted \in {NoObject, object}
  /\ Only("switch") => \A m \in Makers : maker[m] = "ok" => object = m
=============================================================================
