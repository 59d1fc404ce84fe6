------------------------------ MODULE Deployer ------------------------------
(***************************************************************************)
(* runtime/deploy.go: Deployer.Scan keeps the components of a Host in sync *)
(* with a directory of descriptor files.  Scans run on the rescan loop and *)
(* wherever Scan is called directly; they read the directory before they   *)
(* take d.mu.  The host is started and its methods are atomic (Host).      *)
(***************************************************************************)
EXTENDS Naturals, FiniteSets

CONSTANTS
  NPaths,     \* descriptor files are 1 .. NPaths, in the order of their paths
  Descriptor, \* the enabled descriptors that build: records with a component's
              \* name, and config for its type and configuration
  Scanners,   \* goroutines that call Scan
  Loop,       \* the one of them that is the rescan loop
  Disabled,   \* a descriptor that is not enabled
  Unusable,   \* one that does not parse, has no name or does not build
  Unread,     \* a file that is listed and not yet read
  None,
  FirstDirs,  \* bound: what the directory may hold before the first scan
  MaxEdits,   \* bound: changes made to the directory
  MaxFails    \* bound: Starts and Stops that fail

ASSUME DeployerAssumption ==
  /\ NPaths \in Nat /\ MaxEdits \in Nat /\ MaxFails \in Nat
  /\ Loop \in Scanners /\ None \notin Scanners
  /\ \A d \in Descriptor : d = [name |-> d.name, config |-> d.config]

Paths == 1 .. NPaths

Names == {d.name : d \in Descriptor}
Configs == {d.config : d \in Descriptor}

\* What a file may hold.  Only the bytes of a Descriptor are ever compared.
File == Descriptor \cup {Disabled, Unusable}

\* A component on the host, and the file it was deployed from.
Component == [path : Paths, config : Configs]

ASSUME DistinctAssumption ==
  /\ Disabled # Unusable /\ {Disabled, Unusable} \cap Descriptor = {}
  /\ Unread \notin File \cup {None}
  /\ FirstDirs \subseteq [Paths -> File \cup {None}]
  /\ None \notin File \cup Component \cup [name : Names, config : Configs]

VARIABLES
  dir,      \* per path: the file there, or None
  host,     \* per name: the component registered and running, or None
  applied,  \* d.applied, per path
  mu,       \* the scanner that holds d.mu
  pc,       \* per scanner: "idle", "read" (in readDir, or at the lock), "apply"
  files,    \* per scanner: what it read; Unread is listed, not yet read
  next,     \* the holder's position in its sorted paths
  errs,     \* whether the holder met an error
  edits, fails,
  lapsed    \* history: a teardown failed

vars == <<dir, host, applied, mu, pc, files, next, errs, edits, fails, lapsed>>

Empty == [p \in Paths |-> None]

Init ==
  /\ dir \in FirstDirs
  /\ host = [n \in Names |-> None] /\ applied = Empty
  /\ mu = None /\ pc = [s \in Scanners |-> "idle"]
  /\ files = [s \in Scanners |-> Empty]
  /\ next = 1 /\ errs = FALSE
  /\ edits = 0 /\ fails = 0 /\ lapsed = FALSE

\* An operator writes, changes or removes a file.
Edit(p, f) ==
  /\ edits < MaxEdits /\ dir[p] # f
  /\ dir' = [dir EXCEPT ![p] = f] /\ edits' = edits + 1
  /\ UNCHANGED <<host, applied, mu, pc, files, next, errs, fails, lapsed>>

-----------------------------------------------------------------------------
(* readDir: one listing, then one file after the other.                    *)

ReadDir(s) ==
  /\ pc[s] = "idle"
  /\ pc' = [pc EXCEPT ![s] = "read"]
  /\ files' = [files EXCEPT ![s] = [p \in Paths |-> IF dir[p] = None THEN None ELSE Unread]]
  /\ UNCHANGED <<dir, host, applied, mu, next, errs, edits, fails, lapsed>>

Listed(s) == {p \in Paths : files[s][p] = Unread}

\* A file that is gone by now fails the scan.
ReadFile(s) ==
  /\ pc[s] = "read"
  /\ \E p \in Listed(s) :
       /\ \A q \in Listed(s) : p <= q
       /\ IF dir[p] = None
            THEN pc' = [pc EXCEPT ![s] = "idle"] /\ files' = [files EXCEPT ![s] = Empty]
            ELSE files' = [files EXCEPT ![s][p] = dir[p]] /\ UNCHANGED pc
  /\ UNCHANGED <<dir, host, applied, mu, next, errs, edits, fails, lapsed>>

Lock(s) ==
  /\ pc[s] = "read" /\ Listed(s) = {} /\ mu = None
  /\ mu' = s /\ pc' = [pc EXCEPT ![s] = "apply"]
  /\ next' = 1 /\ errs' = FALSE
  /\ UNCHANGED <<dir, host, applied, files, edits, fails, lapsed>>

-----------------------------------------------------------------------------
(* Applying what was read.                                                 *)

Fail == fails < MaxFails /\ fails' = fails + 1

\* The host once the component last deployed from p, if any, is undeployed.
\* Undeploy removes whatever has that name.
Undeployed(p) ==
  IF applied[p] = None THEN host ELSE [host EXCEPT ![applied[p].name] = None]

\* teardown's Undeploy reports that the component's Stop failed: it is off the
\* host, and applyOne returns with d.applied as it was.
TeardownFailed(p) ==
  /\ applied[p] # None /\ host[applied[p].name] # None
  /\ Fail /\ lapsed' = TRUE
  /\ host' = Undeployed(p)
  /\ errs' = TRUE
  /\ UNCHANGED applied

\* teardown, when there was an incarnation, and nothing more.
Teardown(p) == host' = Undeployed(p) /\ applied' = [applied EXCEPT ![p] = None]

\* Mutant: Deploy replaces a component that has the name.
DeployReplaces(p, f) ==
  \/ Teardown(p) /\ Fail /\ errs' = TRUE
  \/ /\ host' = [Undeployed(p) EXCEPT ![f.name] = [path |-> p, config |-> f.config]]
     /\ applied' = [applied EXCEPT ![p] = f]
     /\ UNCHANGED <<errs, fails>>

\* Mutant: the bytes are recorded as applied before host.Deploy.
DeployRecords(p, f) ==
  LET torn == Undeployed(p) IN
  /\ applied' = [applied EXCEPT ![p] = f]
  /\ \/ torn[f.name] # None /\ host' = torn /\ errs' = TRUE /\ UNCHANGED fails
     \/ torn[f.name] = None /\ host' = torn /\ Fail /\ errs' = TRUE
     \/ /\ torn[f.name] = None
        /\ host' = [torn EXCEPT ![f.name] = [path |-> p, config |-> f.config]]
        /\ UNCHANGED <<errs, fails>>

\* host.Deploy of what was built from f: refused when the name is taken, rolled
\* back when the component's Start fails.
Deploy(p, f) ==
  LET torn == Undeployed(p) IN
  \/ Teardown(p) /\ torn[f.name] # None /\ errs' = TRUE /\ UNCHANGED fails
  \/ Teardown(p) /\ torn[f.name] = None /\ Fail /\ errs' = TRUE
  \/ /\ torn[f.name] = None
     /\ host' = [torn EXCEPT ![f.name] = [path |-> p, config |-> f.config]]
     /\ applied' = [applied EXCEPT ![p] = f]
     /\ UNCHANGED <<errs, fails>>

applyOne(p, f) ==
  \/ f = Unusable /\ errs' = TRUE /\ UNCHANGED <<host, applied, fails, lapsed>>
  \/ f # Unusable /\ TeardownFailed(p)
  \/ f = Disabled /\ Teardown(p) /\ UNCHANGED <<errs, fails, lapsed>>
  \/ f \in Descriptor /\ Deploy(p, f) /\ UNCHANGED lapsed

\* The next file: not there, unchanged since it was applied, or to be applied.
ApplyPath(s) ==
  /\ mu = s /\ next <= NPaths
  /\ IF files[s][next] \in {None, applied[next]}
       THEN UNCHANGED <<host, applied, errs, fails, lapsed>>
       ELSE applyOne(next, files[s][next])
  /\ next' = next + 1
  /\ UNCHANGED <<dir, mu, pc, files, edits>>

Gone(s) == {p \in Paths : files[s][p] = None /\ applied[p] # None}

\* Mutant: the components of removed files are forgotten, not undeployed.
FinishForgets(s) ==
  /\ mu = s /\ next > NPaths
  /\ applied' = [p \in Paths |-> IF p \in Gone(s) THEN None ELSE applied[p]]
  /\ mu' = None /\ pc' = [pc EXCEPT ![s] = "idle"]
  /\ files' = [files EXCEPT ![s] = Empty]
  /\ next' = 1 /\ errs' = FALSE
  /\ UNCHANGED <<dir, host, edits, fails, lapsed>>

\* The loop over d.applied that undeploys what was removed, and the return.
Finish(s) ==
  /\ mu = s /\ next > NPaths
  /\ host' = [n \in Names |-> IF \E p \in Gone(s) : applied[p].name = n THEN None ELSE host[n]]
  /\ applied' = [p \in Paths |-> IF p \in Gone(s) THEN None ELSE applied[p]]
  /\ \/ UNCHANGED fails
     \/ Fail /\ \E p \in Gone(s) : host[applied[p].name] # None
  /\ mu' = None /\ pc' = [pc EXCEPT ![s] = "idle"]
  /\ files' = [files EXCEPT ![s] = Empty]
  /\ next' = 1 /\ errs' = FALSE
  /\ UNCHANGED <<dir, edits, lapsed>>

-----------------------------------------------------------------------------
Scan(s) == ReadFile(s) \/ Lock(s) \/ ApplyPath(s) \/ Finish(s)

Next ==
  \/ \E p \in Paths, f \in File \cup {None} : Edit(p, f)
  \/ \E s \in Scanners : ReadDir(s) \/ Scan(s)

Spec == Init /\ [][Next]_vars

\* The ticker makes the loop scan again; a scan that began goes on, and gets
\* d.mu in the end.
Fairness == WF_vars(ReadDir(Loop)) /\ \A s \in Scanners : SF_vars(Scan(s))

FairSpec == Spec /\ Fairness

-----------------------------------------------------------------------------
(* Properties.                                                             *)

\* Type correctness.
TypeOK ==
  /\ dir \in [Paths -> File \cup {None}]
  /\ host \in [Names -> Component \cup {None}]
  /\ applied \in [Paths -> Descriptor \cup {None}]
  /\ mu \in Scanners \cup {None}
  /\ pc \in [Scanners -> {"idle", "read", "apply"}]
  /\ \A s \in Scanners : pc[s] = "apply" <=> mu = s
  /\ files \in [Scanners -> [Paths -> File \cup {None, Unread}]]
  /\ \A s \in Scanners : pc[s] # "read" => Listed(s) = {}
  /\ next \in 1 .. NPaths + 1 /\ errs \in BOOLEAN
  /\ edits \in 0 .. MaxEdits /\ fails \in 0 .. MaxFails /\ lapsed \in BOOLEAN

\* Host h runs exactly what the files in f describe.
Reflects(h, f) ==
  /\ \A p \in Paths : f[p] \in Descriptor =>
       h[f[p].name] = [path |-> p, config |-> f[p].config]
  /\ \A n \in Names : h[n] # None =>
       f[h[n].path] = [name |-> n, config |-> h[n].config]

\* d.applied is a true account of the host after every step of a scan, however
\* many Deploys were refused or failed: it is what decides which files are
\* skipped as unchanged and whose component a teardown takes down.  (Not after a
\* teardown that failed: it leaves a component in d.applied that is gone.)
\* Whatever fails, Stops included, a component that runs is one d.applied has
\* under its file: removing or disabling the file will undeploy it.
AppliedTrue ==
  /\ TypeOK
  /\ ~lapsed => Reflects(host, applied)
  /\ \A n \in Names : host[n] # None =>
       applied[host[n].path] = [name |-> n, config |-> host[n].config]

\* A Scan that returns nil leaves the host running what it read and nothing
\* else: no descriptor was skipped, no old incarnation left behind.
InSync ==
  [][~lapsed /\ mu # None /\ mu' = None /\ ~errs /\ fails' = fails =>
       Reflects(host', files[mu])]_vars

\* A scan takes a component down only if the file it was deployed from differs
\* from what was applied, or is gone: redeploying one file never stops the
\* component of another, and an unusable descriptor "leaves the running component
\* in place".
Undisturbed ==
  [][~lapsed => \A n \in Names : host[n] # None /\ host'[n] # host[n] =>
       mu # None /\ files[mu][host[n].path] \notin {applied[host[n].path], Unusable}]_vars

\* The files can all be honoured together.
Valid(f) ==
  /\ \A p \in Paths : f[p] # Unusable
  /\ \A p, q \in Paths : f[p] \in Descriptor /\ f[q] \in Descriptor /\ f[p].name = f[q].name => p = q

\* Once nobody edits the directory any more the host comes to run what it says
\* and stays so, although a late scan may still apply what it read before, names
\* may have moved between files, and Starts and Stops may have failed on the way.
Converges == <>[](Valid(dir) => Reflects(host, dir))

\* The same if no teardown failed.
ConvergesUnlessLapsed == <>[](~lapsed /\ Valid(dir) => Reflects(host, dir))
==============================================================================
