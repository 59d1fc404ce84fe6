--------------------------- MODULE ServicesProofs ----------------------------
(****************************************************************************)
(* Proofs about the services beside the connections, for any files, scans, *)
(* connections, frames, keys, entries, callers and clients: d.applied is   *)
(* an account of the host, a scan takes down only what its files no longer *)
(* say, and one that returns nil leaves the host in sync; the SQL adapter  *)
(* implements the key/value store; the tuple space loses no wakeup and     *)
(* hands out each entry once and in order; the gateway serves what its     *)
(* listener tracks, Close leaves no connection open, and what outlives     *)
(* Stop cannot answer.                                                     *)
(****************************************************************************)
EXTENDS Deployer, Gateway, Space, SqlStore, SequenceTheorems, TLAPS

USE Zenon

-----------------------------------------------------------------------------
(* The Deployer.                                                           *)

\* A component that runs is the one d.applied has under its file.
Owned ==
  \A n \in Names : host[n] # None =>
    applied[host[n].path] = [name |-> n, config |-> host[n].config]

\* What d.applied has under a file runs, and was deployed from that file.
Accounted ==
  \A p \in Paths : applied[p] # None =>
    host[applied[p].name] = [path |-> p, config |-> applied[p].config]

\* The holder of d.mu has met no error so far, and d.applied has what it read
\* in the files up to the one it is at.
ScanInv ==
  mu # None /\ ~errs => \A p \in 1 .. next - 1 :
    /\ files[mu][p] # Unusable
    /\ files[mu][p] # None =>
         applied[p] = IF files[mu][p] \in Descriptor THEN files[mu][p] ELSE None

DeployerInv == TypeOK /\ Owned /\ (~lapsed => Accounted) /\ ScanInv

-----------------------------------------------------------------------------
(* Descriptors, components and the host.                                   *)

LEMMA DescriptorFacts ==
  ASSUME NEW d \in Descriptor
  PROVE  d = [name |-> d.name, config |-> d.config] /\ d.name \in Names /\ d.config \in Configs
BY DeployerAssumption DEF Names, Configs

LEMMA ComponentFacts ==
  ASSUME NEW p \in Paths, NEW c \in Configs
  PROVE  [path |-> p, config |-> c] \in Component /\ [path |-> p, config |-> c] # None
BY SMT, DistinctAssumption DEF Component

LEMMA NotNone == None \notin Descriptor /\ None \notin Component /\ None # Unusable /\ None # Disabled
BY DistinctAssumption DEF File

LEMMA AppliedTyped ==
  ASSUME TypeOK, NEW p \in Paths
  PROVE  /\ applied[p] \in Descriptor \cup {None}
         /\ applied[p] # None => applied[p].name \in Names /\ applied[p].config \in Configs
<1>1. applied[p] \in Descriptor \cup {None} BY DEF TypeOK
<1> QED BY <1>1, DescriptorFacts

\* AppliedTrue is the account and what it accounts for.
LEMMA Account ==
  ASSUME TypeOK
  PROVE  AppliedTrue <=> Owned /\ (~lapsed => Accounted)
<1>1. \A p \in Paths : applied[p] \in Descriptor <=> applied[p] # None
  BY NotNone, AppliedTyped
<1> QED BY <1>1 DEF AppliedTrue, Reflects, Owned, Accounted

\* Undeployed takes down at most one component, the one deployed from p.
LEMMA TornHost ==
  ASSUME TypeOK, Owned, NEW p \in Paths
  PROVE  /\ Undeployed(p) \in [Names -> Component \cup {None}]
         /\ \A n \in Names : Undeployed(p)[n] =
              IF applied[p] # None /\ n = applied[p].name THEN None ELSE host[n]
         /\ \A n \in Names : Undeployed(p)[n] # None =>
              Undeployed(p)[n] = host[n] /\ host[n].path \in Paths /\ host[n].path # p
<1>1. host \in [Names -> Component \cup {None}] BY DEF TypeOK
<1>2. /\ Undeployed(p) \in [Names -> Component \cup {None}]
      /\ \A n \in Names : Undeployed(p)[n] =
           IF applied[p] # None /\ n = applied[p].name THEN None ELSE host[n]
  BY <1>1 DEF Undeployed
<1>3. ASSUME NEW n \in Names, Undeployed(p)[n] # None
      PROVE  Undeployed(p)[n] = host[n] /\ host[n].path \in Paths /\ host[n].path # p
  <2>1. Undeployed(p)[n] = host[n] /\ host[n] # None BY <1>2, <1>3
  <2>2. host[n].path \in Paths BY <1>1, <2>1 DEF Component
  <2>3. applied[host[n].path] = [name |-> n, config |-> host[n].config] BY <2>1 DEF Owned
  <2>4. ASSUME host[n].path = p PROVE FALSE
    <3>1. applied[p] = [name |-> n, config |-> host[n].config] BY <2>3, <2>4
    <3>2. applied[p].name = n BY SMT, <3>1
    <3>3. applied[p] = None BY <1>2, <1>3, <3>2
    <3>4. [name |-> n, config |-> host[n].config] # None
      BY SMT, <1>1, <2>1, DistinctAssumption DEF Component
    <3> QED BY <3>1, <3>3, <3>4
  <2> QED BY <2>1, <2>2, <2>4
<1> QED BY <1>2, <1>3

\* The component of another file is not the one a teardown takes down.
LEMMA TornAccount ==
  ASSUME TypeOK, Owned, Accounted, NEW p \in Paths, NEW q \in Paths, q # p, applied[q] # None
  PROVE  Undeployed(p)[applied[q].name] = [path |-> q, config |-> applied[q].config]
<1>1. applied[q].name \in Names /\ applied[q].config \in Configs BY AppliedTyped
<1>2. host[applied[q].name] = [path |-> q, config |-> applied[q].config] BY DEF Accounted
<1>3. ASSUME applied[p] # None, applied[q].name = applied[p].name PROVE FALSE
  <2>1. host[applied[p].name] = [path |-> p, config |-> applied[p].config] BY <1>3 DEF Accounted
  <2>2. [path |-> p, config |-> applied[p].config].path = p
        /\ [path |-> q, config |-> applied[q].config].path = q OBVIOUS
  <2> QED BY <1>2, <1>3, <2>1, <2>2
<1> QED BY SMT, <1>1, <1>2, <1>3, TornHost

\* What TypeOK says of the host and of d.applied.
AccountTyped ==
  host \in [Names -> Component \cup {None}] /\ applied \in [Paths -> Descriptor \cup {None}]

LEMMA TeardownKeeps ==
  ASSUME TypeOK, Owned, NEW p \in Paths, Teardown(p)
  PROVE  AccountTyped' /\ Owned' /\ (Accounted => Accounted')
<1>1. host' = Undeployed(p) /\ applied' = [applied EXCEPT ![p] = None] BY DEF Teardown
<1>2. AccountTyped' BY <1>1, TornHost DEF TypeOK, AccountTyped
<1>3. \A q \in Paths : applied'[q] = IF q = p THEN None ELSE applied[q] BY <1>1 DEF TypeOK
<1>4. ASSUME NEW n \in Names, host'[n] # None
      PROVE  applied'[host'[n].path] = [name |-> n, config |-> host'[n].config]
  <2>1. host'[n] = host[n] /\ host[n].path \in Paths /\ host[n].path # p BY SMT, <1>1, <1>4, TornHost
  <2> QED BY SMT, <1>3, <1>4, <2>1 DEF Owned
<1>5. ASSUME Accounted, NEW q \in Paths, applied'[q] # None
      PROVE  host'[applied'[q].name] = [path |-> q, config |-> applied'[q].config]
  <2>1. q # p /\ applied'[q] = applied[q] BY <1>3, <1>5
  <2> QED BY <1>1, <1>5, <2>1, TornAccount
<1> QED BY <1>2, <1>4, <1>5 DEF Owned, Accounted

LEMMA DeployedKeeps ==
  ASSUME TypeOK, Owned, NEW p \in Paths, NEW f \in Descriptor,
         Undeployed(p)[f.name] = None,
         host' = [Undeployed(p) EXCEPT ![f.name] = [path |-> p, config |-> f.config]],
         applied' = [applied EXCEPT ![p] = f]
  PROVE  AccountTyped' /\ Owned' /\ (Accounted => Accounted')
<1>1. f = [name |-> f.name, config |-> f.config] /\ f.name \in Names /\ f.config \in Configs
  BY DescriptorFacts
<1>2. [path |-> p, config |-> f.config] \in Component BY <1>1, ComponentFacts
<1>3. AccountTyped' BY <1>1, <1>2, TornHost DEF TypeOK, AccountTyped
<1>4. \A q \in Paths : applied'[q] = IF q = p THEN f ELSE applied[q] BY DEF TypeOK
<1>5. \A n \in Names : host'[n] =
        IF n = f.name THEN [path |-> p, config |-> f.config] ELSE Undeployed(p)[n]
  BY TornHost
<1>6. ASSUME NEW n \in Names, host'[n] # None
      PROVE  applied'[host'[n].path] = [name |-> n, config |-> host'[n].config]
  <2>1. CASE n = f.name
    <3>1. host'[n].path = p /\ host'[n].config = f.config BY SMT, <1>5, <2>1
    <3> QED BY <1>1, <1>4, <2>1, <3>1
  <2>2. CASE n # f.name
    <3>1. host'[n] = Undeployed(p)[n] BY <1>5, <2>2
    <3>2. host'[n] = host[n] /\ host[n].path \in Paths /\ host[n].path # p BY SMT, <1>6, <3>1, TornHost
    <3> QED BY SMT, <1>4, <1>6, <3>2 DEF Owned
  <2> QED BY <2>1, <2>2
<1>7. ASSUME Accounted, NEW q \in Paths, applied'[q] # None
      PROVE  host'[applied'[q].name] = [path |-> q, config |-> applied'[q].config]
  <2>1. CASE q = p BY SMT, <1>1, <1>4, <1>5, <2>1
  <2>2. CASE q # p
    <3>1. applied'[q] = applied[q] BY <1>4, <2>2
    <3>2. applied[q].name \in Names /\ applied[q].config \in Configs BY <1>7, <3>1, AppliedTyped
    <3>3. Undeployed(p)[applied[q].name] = [path |-> q, config |-> applied[q].config]
      BY <1>7, <2>2, <3>1, TornAccount
    <3>4. applied[q].name # f.name BY <3>2, <3>3, ComponentFacts
    <3> QED BY <1>5, <3>1, <3>2, <3>3, <3>4
  <2> QED BY <2>1, <2>2
<1> QED BY <1>3, <1>6, <1>7 DEF Owned, Accounted

LEMMA FinishKeeps ==
  ASSUME TypeOK, Owned, NEW s \in Scanners, Finish(s)
  PROVE  AccountTyped' /\ Owned' /\ (Accounted => Accounted')
<1>1. /\ host' = [n \in Names |-> IF \E p \in Gone(s) : applied[p].name = n THEN None ELSE host[n]]
      /\ applied' = [p \in Paths |-> IF p \in Gone(s) THEN None ELSE applied[p]]
  BY DEF Finish
<1>2. AccountTyped' BY <1>1 DEF TypeOK, AccountTyped
<1>3. ASSUME NEW n \in Names, host'[n] # None
      PROVE  applied'[host'[n].path] = [name |-> n, config |-> host'[n].config]
  <2>1. host'[n] = host[n] /\ \A p \in Gone(s) : applied[p].name # n BY <1>1, <1>3
  <2>2. host[n].path \in Paths BY <1>3, <2>1 DEF TypeOK, Component
  <2>3. applied[host[n].path] = [name |-> n, config |-> host[n].config] BY <1>3, <2>1 DEF Owned
  <2>4. applied[host[n].path].name = n BY SMT, <2>3
  <2>5. host[n].path \notin Gone(s) BY <2>1, <2>4
  <2> QED BY <1>1, <2>1, <2>2, <2>3, <2>5
<1>4. ASSUME Accounted, NEW q \in Paths, applied'[q] # None
      PROVE  host'[applied'[q].name] = [path |-> q, config |-> applied'[q].config]
  <2>1. q \notin Gone(s) /\ applied'[q] = applied[q] BY <1>1, <1>4
  <2>2. applied[q].name \in Names BY <1>4, <2>1, AppliedTyped
  <2>3. host[applied[q].name] = [path |-> q, config |-> applied[q].config]
    BY <1>4, <2>1 DEF Accounted
  <2>4. ASSUME NEW p \in Gone(s), applied[p].name = applied[q].name PROVE FALSE
    <3>1. p \in Paths /\ applied[p] # None BY DEF Gone
    <3>2. host[applied[p].name] = [path |-> p, config |-> applied[p].config]
      BY <1>4, <3>1 DEF Accounted
    <3>3. [path |-> p, config |-> applied[p].config].path = p
          /\ [path |-> q, config |-> applied[q].config].path = q OBVIOUS
    <3> QED BY <2>1, <2>3, <2>4, <3>2, <3>3
  <2> QED BY <1>1, <2>1, <2>2, <2>3, <2>4
<1> QED BY <1>2, <1>3, <1>4 DEF Owned, Accounted

-----------------------------------------------------------------------------
(* One file of a scan.                                                     *)

\* What TypeOK says of the flags and the bound.
FlagsTyped == errs \in BOOLEAN /\ fails \in 0 .. MaxFails /\ lapsed \in BOOLEAN

\* The file's entry is all of d.applied that changes, and unless it is an error
\* it is what the file asks for.
Applies(p, f) ==
  /\ \A q \in Paths \ {p} : applied'[q] = applied[q]
  /\ ~errs' => /\ ~errs /\ f # Unusable
               /\ applied'[p] = IF f \in Descriptor THEN f ELSE None

LEMMA FailTyped ==
  ASSUME TypeOK, Fail
  PROVE  fails' \in 0 .. MaxFails
BY SMT, DeployerAssumption DEF TypeOK, Fail

LEMMA ApplyOne ==
  ASSUME DeployerInv, NEW p \in Paths, NEW f \in File, applyOne(p, f)
  PROVE  /\ AccountTyped' /\ FlagsTyped' /\ Owned' /\ (~lapsed' => Accounted')
         /\ Applies(p, f)
<1>1. TypeOK /\ Owned /\ (~lapsed => Accounted) BY DEF DeployerInv
<1>2. AccountTyped /\ FlagsTyped BY <1>1 DEF TypeOK, AccountTyped, FlagsTyped
<1>3. CASE f = Unusable /\ errs' = TRUE /\ UNCHANGED <<host, applied, fails, lapsed>>
  <2>1. AccountTyped' /\ FlagsTyped' BY <1>2, <1>3 DEF AccountTyped, FlagsTyped
  <2>2. Owned' /\ (~lapsed' => Accounted') BY <1>1, <1>3 DEF Owned, Accounted
  <2> QED BY <1>3, <2>1, <2>2 DEF Applies
<1>4. CASE TeardownFailed(p)
  <2>1. Fail /\ lapsed' = TRUE /\ host' = Undeployed(p) /\ errs' = TRUE /\ applied' = applied
    BY <1>4 DEF TeardownFailed
  <2>2. AccountTyped' BY <1>1, <1>2, <2>1, TornHost DEF AccountTyped
  <2>3. FlagsTyped' BY <1>1, <2>1, FailTyped DEF FlagsTyped
  <2>4. Owned' BY SMT, <1>1, <2>1, TornHost DEF Owned
  <2> QED BY <2>1, <2>2, <2>3, <2>4 DEF Applies
<1>5. CASE Teardown(p) /\ UNCHANGED lapsed /\ errs' = TRUE /\ (Fail \/ UNCHANGED fails)
  <2>1. AccountTyped' /\ Owned' /\ (~lapsed' => Accounted') BY <1>1, <1>5, TeardownKeeps
  <2>2. FlagsTyped' BY <1>1, <1>2, <1>5, FailTyped DEF FlagsTyped
  <2>3. Applies(p, f) BY <1>1, <1>5 DEF Applies, Teardown, TypeOK
  <2> QED BY <2>1, <2>2, <2>3
<1>6. CASE f = Disabled /\ Teardown(p) /\ UNCHANGED <<errs, fails, lapsed>>
  <2>1. AccountTyped' /\ Owned' /\ (~lapsed' => Accounted') BY <1>1, <1>6, TeardownKeeps
  <2>2. FlagsTyped' BY <1>2, <1>6 DEF FlagsTyped
  <2>3. f \notin Descriptor /\ f # Unusable BY <1>6, DistinctAssumption
  <2>4. Applies(p, f) BY <1>1, <1>6, <2>3 DEF Applies, Teardown, TypeOK
  <2> QED BY <2>1, <2>2, <2>4
<1>7. CASE /\ f \in Descriptor /\ Undeployed(p)[f.name] = None
           /\ host' = [Undeployed(p) EXCEPT ![f.name] = [path |-> p, config |-> f.config]]
           /\ applied' = [applied EXCEPT ![p] = f]
           /\ UNCHANGED <<errs, fails, lapsed>>
  <2>1. AccountTyped' /\ Owned' /\ (~lapsed' => Accounted') BY <1>1, <1>7, DeployedKeeps
  <2>2. FlagsTyped' BY <1>2, <1>7 DEF FlagsTyped
  <2>3. f # Unusable BY <1>7, DistinctAssumption
  <2>4. Applies(p, f) BY <1>1, <1>7, <2>3 DEF Applies, TypeOK
  <2> QED BY <2>1, <2>2, <2>4
<1> QED BY <1>3, <1>4, <1>5, <1>6, <1>7 DEF applyOne, Deploy

LEMMA NextInPaths ==
  ASSUME TypeOK, next <= NPaths
  PROVE  next \in Paths /\ next \in Nat /\ next + 1 \in 1 .. NPaths + 1
BY SMT, DeployerAssumption DEF TypeOK, Paths

\* What the holder of d.mu works through was read in full.
LEMMA HolderRead ==
  ASSUME TypeOK, mu # None, NEW p \in Paths
  PROVE  mu \in Scanners /\ pc[mu] = "apply" /\ files[mu][p] \in File \cup {None}
<1>1. mu \in Scanners /\ pc[mu] = "apply" BY DEF TypeOK
<1>2. files[mu][p] \in File \cup {None, Unread} BY SMT, <1>1 DEF TypeOK
<1>3. p \notin Listed(mu) BY <1>1 DEF TypeOK
<1> QED BY <1>1, <1>2, <1>3 DEF Listed

LEMMA NoneNoScanner == None \notin Scanners
BY DeployerAssumption

LEMMA ApplyPathStep == ASSUME DeployerInv, NEW s \in Scanners, ApplyPath(s) PROVE DeployerInv'
<1> DEFINE f == files[s][next]
<1>1. mu = s /\ mu # None /\ next <= NPaths /\ next' = next + 1 /\ UNCHANGED <<dir, mu, pc, files, edits>>
  BY NoneNoScanner DEF ApplyPath
<1>2. TypeOK /\ Owned /\ (~lapsed => Accounted) /\ ScanInv BY DEF DeployerInv
<1>3. next \in Paths /\ next \in Nat /\ next + 1 \in 1 .. NPaths + 1 BY <1>1, <1>2, NextInPaths
<1>4. f \in File \cup {None} BY <1>1, <1>2, <1>3, HolderRead
<1>5. /\ AccountTyped' /\ FlagsTyped' /\ Owned' /\ (~lapsed' => Accounted')
      /\ \A q \in Paths \ {next} : applied'[q] = applied[q]
      /\ ~errs' => /\ ~errs /\ f # Unusable
                   /\ f # None => applied'[next] = IF f \in Descriptor THEN f ELSE None
  <2>1. CASE f \in {None, applied[next]}
    <3>1. UNCHANGED <<host, applied, errs, fails, lapsed>> BY <2>1 DEF ApplyPath
    <3>2. AccountTyped' /\ FlagsTyped' BY <1>2, <3>1 DEF TypeOK, AccountTyped, FlagsTyped
    <3>3. Owned' /\ (~lapsed' => Accounted') BY <1>2, <3>1 DEF Owned, Accounted
    <3>4. f # None => f \in Descriptor BY <1>2, <1>3, <2>1 DEF TypeOK
    <3>5. f # Unusable BY <2>1, <3>4, DistinctAssumption, NotNone
    <3> QED BY <2>1, <3>1, <3>2, <3>3, <3>4, <3>5
  <2>2. CASE f \notin {None, applied[next]}
    <3>1. f \in File /\ applyOne(next, f) BY <1>4, <2>2 DEF ApplyPath
    <3> QED BY <1>3, <3>1, ApplyOne DEF Applies
  <2> QED BY <2>1, <2>2
<1>6. TypeOK'
  <2>1. \A r \in Scanners : Listed(r)' = Listed(r) BY <1>1 DEF Listed
  <2>2. \A r \in Scanners : pc'[r] # "read" => Listed(r)' = {} BY <1>1, <1>2, <2>1 DEF TypeOK
  <2>3. AccountTyped' /\ FlagsTyped' BY <1>5
  <2>4. next' \in 1 .. NPaths + 1 BY <1>1, <1>3
  <2> QED BY <1>1, <1>2, <2>2, <2>3, <2>4 DEF TypeOK, AccountTyped, FlagsTyped
<1>7. ScanInv'
  <2> SUFFICES ASSUME ~errs', NEW p \in 1 .. next
               PROVE  /\ files[mu][p] # Unusable
                      /\ files[mu][p] # None =>
                           applied'[p] = IF files[mu][p] \in Descriptor THEN files[mu][p] ELSE None
    BY SMT, <1>1, <1>3 DEF ScanInv
  <2>1. CASE p = next BY <1>1, <1>5, <2>1
  <2>2. CASE p # next
    <3>1. p \in 1 .. next - 1 /\ p \in Paths \ {next} BY SMT, <1>3, <2>2, DeployerAssumption DEF Paths
    <3> QED BY <1>1, <1>2, <1>5, <3>1 DEF ScanInv
  <2> QED BY <2>1, <2>2
<1> QED BY <1>5, <1>6, <1>7 DEF DeployerInv

LEMMA FinishStep == ASSUME DeployerInv, NEW s \in Scanners, Finish(s) PROVE DeployerInv'
<1>1. TypeOK /\ Owned /\ (~lapsed => Accounted) BY DEF DeployerInv
<1>2. AccountTyped' /\ Owned' /\ (Accounted => Accounted') BY <1>1, FinishKeeps
<1>3. /\ mu = s /\ mu' = None /\ pc' = [pc EXCEPT ![s] = "idle"] /\ next' = 1 /\ errs' = FALSE
      /\ files' = [files EXCEPT ![s] = Empty] /\ UNCHANGED <<dir, edits, lapsed>>
  BY DEF Finish
<1>4. fails' \in 0 .. MaxFails BY <1>1, FailTyped DEF Finish, TypeOK
<1>5. files' \in [Scanners -> [Paths -> File \cup {None, Unread}]]
  <2>1. Empty \in [Paths -> File \cup {None, Unread}] BY DEF Empty
  <2> QED BY <1>1, <1>3, <2>1 DEF TypeOK
<1>6. \A r \in Scanners : pc'[r] # "read" => Listed(r)' = {}
  BY SMT, <1>1, <1>3, DistinctAssumption DEF TypeOK, Listed, Empty
<1>7. pc' \in [Scanners -> {"idle", "read", "apply"}] /\ \A r \in Scanners : pc'[r] = "apply" <=> mu' = r
  BY <1>1, <1>3, NoneNoScanner DEF TypeOK
<1>8. next' \in 1 .. NPaths + 1 BY SMT, <1>3, DeployerAssumption
<1>9. TypeOK' BY <1>1, <1>2, <1>3, <1>4, <1>5, <1>6, <1>7, <1>8 DEF TypeOK, AccountTyped
<1>10. ScanInv' BY <1>3 DEF ScanInv
<1> QED BY <1>1, <1>2, <1>3, <1>9, <1>10 DEF DeployerInv

\* Reading the directory and taking d.mu.
LEMMA ReadStep ==
  ASSUME DeployerInv, NEW s \in Scanners, ReadDir(s) \/ ReadFile(s) \/ Lock(s)
  PROVE  DeployerInv'
<1>1. TypeOK /\ Owned /\ (~lapsed => Accounted) /\ ScanInv BY DEF DeployerInv
<1>2. UNCHANGED <<dir, host, applied, edits, fails, lapsed>> BY DEF ReadDir, ReadFile, Lock
<1>3. Owned' /\ (~lapsed' => Accounted') BY <1>1, <1>2 DEF Owned, Accounted
<1>4. files' \in [Scanners -> [Paths -> File \cup {None, Unread}]]
  <2> DEFINE F == [Paths -> File \cup {None, Unread}]
  <2>1. CASE ReadDir(s)
    <3>1. [p \in Paths |-> IF dir[p] = None THEN None ELSE Unread] \in F OBVIOUS
    <3> QED BY <1>1, <2>1, <3>1 DEF TypeOK, ReadDir
  <2>2. CASE ReadFile(s)
    <3>1. Empty \in F BY DEF Empty
    <3>2. PICK p \in Listed(s) :
            files' = [files EXCEPT ![s] = Empty] \/ files' = [files EXCEPT ![s][p] = dir[p]]
      BY <2>2 DEF ReadFile
    <3>3. p \in Paths /\ dir[p] \in File \cup {None} BY <1>1 DEF TypeOK, Listed
    <3> QED BY SMT, <1>1, <3>1, <3>2, <3>3 DEF TypeOK
  <2>3. CASE Lock(s) BY <1>1, <2>3 DEF TypeOK, Lock
  <2> QED BY <2>1, <2>2, <2>3
<1>5. pc' \in [Scanners -> {"idle", "read", "apply"}] BY <1>1 DEF TypeOK, ReadDir, ReadFile, Lock
<1>6. mu' \in Scanners \cup {None} /\ \A r \in Scanners : pc'[r] = "apply" <=> mu' = r
  BY SMT, <1>1, NoneNoScanner DEF TypeOK, ReadDir, ReadFile, Lock
<1>7. \A r \in Scanners : pc'[r] # "read" => Listed(r)' = {}
  <2> SUFFICES ASSUME NEW r \in Scanners, pc'[r] # "read" PROVE Listed(r)' = {} OBVIOUS
  <2>1. CASE r # s
    <3>1. pc'[r] = pc[r] /\ files'[r] = files[r] BY <1>1, <2>1 DEF TypeOK, ReadDir, ReadFile, Lock
    <3> QED BY <1>1, <3>1 DEF TypeOK, Listed
  <2>2. CASE r = s /\ ReadDir(s) BY <1>1, <2>2 DEF TypeOK, ReadDir
  <2>3. CASE r = s /\ Lock(s) BY <2>3 DEF Lock, Listed
  <2>4. CASE r = s /\ ReadFile(s)
    <3>1. files' = [files EXCEPT ![s] = Empty] BY <1>1, <2>4 DEF TypeOK, ReadFile
    <3>2. files'[r] = Empty BY <1>1, <2>4, <3>1 DEF TypeOK
    <3> QED BY <3>2, DistinctAssumption DEF Listed, Empty
  <2> QED BY <2>1, <2>2, <2>3, <2>4
<1>8. next' \in 1 .. NPaths + 1 /\ errs' \in BOOLEAN
  <2>1. next' \in {1, next} /\ errs' \in {FALSE, errs} BY DEF ReadDir, ReadFile, Lock
  <2>2. next \in 1 .. NPaths + 1 /\ errs \in BOOLEAN BY <1>1 DEF TypeOK
  <2>3. 1 \in 1 .. NPaths + 1 BY SMT, DeployerAssumption
  <2> QED BY <2>1, <2>2, <2>3
<1>9. TypeOK' BY <1>1, <1>2, <1>4, <1>5, <1>6, <1>7, <1>8 DEF TypeOK
<1>10. ScanInv'
  <2>1. CASE Lock(s)
    <3>1. next' = 1 BY <2>1 DEF Lock
    <3> QED BY SMT, <3>1 DEF ScanInv
  <2>2. CASE ReadDir(s) \/ ReadFile(s)
    <3>1. pc[s] # "apply" /\ UNCHANGED <<mu, next, errs>> BY <2>2 DEF ReadDir, ReadFile
    <3>2. mu # s BY <1>1, <3>1 DEF TypeOK
    <3>3. mu # None => files'[mu] = files[mu]
      BY <1>1, <2>2, <3>2 DEF TypeOK, ReadDir, ReadFile
    <3> QED BY <1>1, <1>2, <3>1, <3>3 DEF ScanInv
  <2> QED BY <2>1, <2>2
<1> QED BY <1>3, <1>9, <1>10 DEF DeployerInv

LEMMA EditStep ==
  ASSUME DeployerInv, NEW p \in Paths, NEW f \in File \cup {None}, Edit(p, f)
  PROVE  DeployerInv'
<1>1. UNCHANGED <<host, applied, mu, pc, files, next, errs, fails, lapsed>> BY DEF Edit
<1>2. \A r \in Scanners : Listed(r)' = Listed(r) BY <1>1 DEF Listed
<1>3. dir' \in [Paths -> File \cup {None}] /\ edits' \in 0 .. MaxEdits
  BY SMT, DeployerAssumption DEF Edit, DeployerInv, TypeOK
<1>4. TypeOK' BY <1>1, <1>2, <1>3 DEF DeployerInv, TypeOK
<1>5. Owned' /\ (~lapsed' => Accounted') /\ ScanInv' BY <1>1 DEF DeployerInv, Owned, Accounted, ScanInv
<1> QED BY <1>4, <1>5 DEF DeployerInv

LEMMA DeployerInvInit == ASSUME Init PROVE DeployerInv
<1>1. mu = None /\ next = 1 /\ errs = FALSE /\ fails = 0 /\ edits = 0 /\ lapsed = FALSE BY DEF Init
<1>2. \A p \in Paths : Empty[p] = None BY DEF Empty
<1>3. applied = Empty /\ Empty \in [Paths -> Descriptor \cup {None}]
      /\ Empty \in [Paths -> File \cup {None, Unread}]
  BY DEF Init, Empty
<1>4. host \in [Names -> Component \cup {None}] /\ \A n \in Names : host[n] = None BY DEF Init
<1>5. dir \in [Paths -> File \cup {None}] BY DistinctAssumption DEF Init
<1>6. pc \in [Scanners -> {"idle", "read", "apply"}] /\ \A s \in Scanners : pc[s] = "idle" BY DEF Init
<1>7. files \in [Scanners -> [Paths -> File \cup {None, Unread}]] /\ \A s \in Scanners : files[s] = Empty
  BY <1>3 DEF Init
<1>8. \A s \in Scanners : Listed(s) = {} BY <1>2, <1>7, DistinctAssumption DEF Listed
<1>9. next \in 1 .. NPaths + 1 /\ fails \in 0 .. MaxFails /\ edits \in 0 .. MaxEdits
  BY SMT, <1>1, DeployerAssumption
<1>10. \A s \in Scanners : pc[s] = "apply" <=> mu = s BY <1>1, <1>6, NoneNoScanner
<1>11. TypeOK
  BY <1>1, <1>3, <1>4, <1>5, <1>6, <1>7, <1>8, <1>9, <1>10 DEF TypeOK
<1>12. Owned /\ Accounted /\ ScanInv BY <1>1, <1>2, <1>3, <1>4 DEF Owned, Accounted, ScanInv
<1> QED BY <1>11, <1>12 DEF DeployerInv

LEMMA DeployerInvNext == ASSUME DeployerInv, [Next]_vars PROVE DeployerInv'
<1>1. CASE UNCHANGED vars
  <2>1. \A r \in Scanners : Listed(r)' = Listed(r) BY <1>1 DEF Listed, vars
  <2>2. TypeOK' BY <1>1, <2>1 DEF DeployerInv, TypeOK, vars
  <2>3. Owned' /\ (~lapsed' => Accounted') /\ ScanInv'
    BY <1>1 DEF DeployerInv, Owned, Accounted, ScanInv, vars
  <2> QED BY <2>2, <2>3 DEF DeployerInv
<1>2. CASE \E p \in Paths, f \in File \cup {None} : Edit(p, f) BY <1>2, EditStep
<1>3. CASE \E s \in Scanners : ReadDir(s) \/ Scan(s)
  BY <1>3, ReadStep, ApplyPathStep, FinishStep DEF Scan
<1> QED BY <1>1, <1>2, <1>3 DEF Next

LEMMA DeployerInvariant == Spec => []DeployerInv
<1>1. Init => DeployerInv BY DeployerInvInit
<1>2. DeployerInv /\ [Next]_vars => DeployerInv' BY DeployerInvNext
<1> QED BY <1>1, <1>2, PTL DEF Spec

-----------------------------------------------------------------------------
(* What a scan does.                                                       *)

\* d.applied is a true account of the host after every step of every scan,
\* however many Deploys were refused or failed, and a component that runs is
\* always under its file in d.applied, even after a Stop that failed.
THEOREM DeployerAppliedTrue == Spec => []AppliedTrue
<1>1. DeployerInv => AppliedTrue BY Account DEF DeployerInv
<1> QED BY <1>1, DeployerInvariant, PTL

\* A component only leaves the host, or changes, in a step for its own file.
LEMMA TornOwn ==
  ASSUME TypeOK, Owned, Accounted, NEW p \in Paths, NEW n \in Names,
         host[n] # None, Undeployed(p)[n] = None
  PROVE  host[n].path = p /\ applied[p] # None
<1>1. applied[p] # None /\ n = applied[p].name BY SMT, TornHost
<1>2. host[n] = [path |-> p, config |-> applied[p].config] BY <1>1 DEF Accounted
<1> QED BY SMT, <1>1, <1>2

LEMMA ApplyUndisturbed ==
  ASSUME DeployerInv, ~lapsed, NEW s \in Scanners, ApplyPath(s),
         NEW n \in Names, host[n] # None, host'[n] # host[n]
  PROVE  mu # None /\ files[mu][host[n].path] \notin {applied[host[n].path], Unusable}
<1> DEFINE f == files[s][next]
<1>1. TypeOK /\ Owned /\ Accounted BY DEF DeployerInv
<1>2. mu = s /\ mu # None /\ next <= NPaths BY NoneNoScanner DEF ApplyPath
<1>3. next \in Paths BY <1>1, <1>2, NextInPaths
<1>4. f \notin {None, applied[next]} /\ applyOne(next, f) BY DEF ApplyPath
<1>5. f # Unusable BY <1>4, DistinctAssumption DEF applyOne, TeardownFailed
<1>6. Undeployed(next)[n] = None
  <2> SUFFICES ASSUME Undeployed(next)[n] # None PROVE FALSE OBVIOUS
  <2>1. Undeployed(next)[n] = host[n] BY <1>1, <1>3, TornHost
  <2>2. host' # Undeployed(next) BY <2>1
  <2>3. /\ f \in Descriptor /\ Undeployed(next)[f.name] = None
        /\ host' = [Undeployed(next) EXCEPT ![f.name] = [path |-> next, config |-> f.config]]
    BY <1>4, <1>5, <2>2 DEF applyOne, TeardownFailed, Teardown, Deploy
  <2>4. host'[n] = Undeployed(next)[n] BY <1>1, <1>3, <2>3, TornHost
  <2> QED BY <2>1, <2>4
<1>7. host[n].path = next BY <1>1, <1>3, <1>6, TornOwn
<1> QED BY <1>2, <1>4, <1>5, <1>7

LEMMA FinishUndisturbed ==
  ASSUME DeployerInv, ~lapsed, NEW s \in Scanners, Finish(s),
         NEW n \in Names, host[n] # None, host'[n] # host[n]
  PROVE  mu # None /\ files[mu][host[n].path] \notin {applied[host[n].path], Unusable}
<1>1. TypeOK /\ Accounted /\ mu = s /\ mu # None BY NoneNoScanner DEF DeployerInv, Finish
<1>2. PICK p \in Gone(s) : applied[p].name = n BY DEF Finish
<1>3. p \in Paths /\ applied[p] # None /\ files[s][p] = None BY DEF Gone
<1>4. host[n] = [path |-> p, config |-> applied[p].config] BY <1>1, <1>2, <1>3 DEF Accounted
<1>5. host[n].path = p BY SMT, <1>4
<1> QED BY <1>1, <1>3, <1>5, NotNone

\* A scan takes a component down only when the file it was deployed from reads
\* otherwise than what was applied, and parses: what applyOne and the loop over
\* removed files do for one file never stops the component of another.
THEOREM DeployerUndisturbed == Spec => Undisturbed
<1> DEFINE Calm ==
      ~lapsed => \A n \in Names : host[n] # None /\ host'[n] # host[n] =>
        mu # None /\ files[mu][host[n].path] \notin {applied[host[n].path], Unusable}
<1>1. ASSUME DeployerInv, [Next]_vars PROVE Calm
  <2> SUFFICES ASSUME ~lapsed, NEW n \in Names, host[n] # None, host'[n] # host[n]
               PROVE  mu # None /\ files[mu][host[n].path] \notin {applied[host[n].path], Unusable}
    OBVIOUS
  <2>1. PICK s \in Scanners : ApplyPath(s) \/ Finish(s)
    BY <1>1 DEF Next, Scan, ReadDir, ReadFile, Lock, Edit, vars
  <2> QED BY <1>1, <2>1, ApplyUndisturbed, FinishUndisturbed
<1>2. DeployerInv /\ [Next]_vars => [Calm]_vars BY <1>1
<1> QED BY <1>2, DeployerInvariant, PTL DEF Spec, Undisturbed

LEMMA FinishInSync ==
  ASSUME DeployerInv, ~lapsed, ~errs, NEW s \in Scanners, Finish(s)
  PROVE  Reflects(host', files[s])
<1>1. TypeOK /\ Owned /\ Accounted /\ ScanInv BY DEF DeployerInv
<1>2. mu = s /\ mu # None /\ next > NPaths BY NoneNoScanner DEF Finish
<1>3. next = NPaths + 1
  <2>1. next \in 1 .. NPaths + 1 /\ NPaths \in Nat BY <1>1, DeployerAssumption DEF TypeOK
  <2> QED BY SMT, <1>2, <2>1
<1>4. AccountTyped' /\ Owned' /\ Accounted' BY <1>1, FinishKeeps
<1>5. \A p \in Paths : applied'[p] = IF p \in Gone(s) THEN None ELSE applied[p] BY DEF Finish
<1>6. ASSUME NEW p \in Paths, files[s][p] # None
      PROVE  applied'[p] = IF files[s][p] \in Descriptor THEN files[s][p] ELSE None
  <2>1. p \in 1 .. next - 1 BY SMT, <1>3, DeployerAssumption DEF Paths
  <2>2. applied[p] = IF files[s][p] \in Descriptor THEN files[s][p] ELSE None
    BY <1>1, <1>2, <1>6, <2>1 DEF ScanInv
  <2>3. p \notin Gone(s) BY <1>6 DEF Gone
  <2> QED BY <1>5, <2>2, <2>3
<1>7. ASSUME NEW p \in Paths, files[s][p] = None PROVE applied'[p] = None
  BY <1>5, <1>7 DEF Gone
<1>8. ASSUME NEW p \in Paths, files[s][p] \in Descriptor
      PROVE  host'[files[s][p].name] = [path |-> p, config |-> files[s][p].config]
  <2>1. files[s][p] # None BY <1>8, NotNone
  <2>2. applied'[p] = files[s][p] BY <1>6, <1>8, <2>1
  <2> QED BY <1>4, <2>1, <2>2 DEF Accounted
<1>9. ASSUME NEW n \in Names, host'[n] # None
      PROVE  files[s][host'[n].path] = [name |-> n, config |-> host'[n].config]
  <2>1. host'[n] \in Component BY <1>4, <1>9 DEF AccountTyped
  <2>2. host'[n].path \in Paths /\ host'[n].config \in Configs BY <2>1 DEF Component
  <2>3. applied'[host'[n].path] = [name |-> n, config |-> host'[n].config] BY <1>4, <1>9 DEF Owned
  <2>4. applied'[host'[n].path] # None BY SMT, <2>2, <2>3, DistinctAssumption
  <2> QED BY <1>6, <1>7, <2>2, <2>3, <2>4
<1> QED BY <1>8, <1>9 DEF Reflects

\* A Scan that returns nil leaves the host running what it read and nothing
\* else, whatever the directory held and other scans applied before.
THEOREM DeployerInSync == Spec => InSync
<1> DEFINE Synced ==
      ~lapsed /\ mu # None /\ mu' = None /\ ~errs /\ fails' = fails => Reflects(host', files[mu])
<1>1. ASSUME DeployerInv, [Next]_vars PROVE Synced
  <2> SUFFICES ASSUME ~lapsed, mu # None, mu' = None, ~errs PROVE Reflects(host', files[mu]) OBVIOUS
  <2>1. PICK s \in Scanners : Finish(s)
    BY <1>1, NoneNoScanner DEF Next, Scan, ReadDir, ReadFile, Lock, ApplyPath, Edit, vars
  <2>2. mu = s BY <2>1 DEF Finish
  <2> QED BY <1>1, <2>1, <2>2, FinishInSync
<1>2. DeployerInv /\ [Next]_vars => [Synced]_vars BY <1>1
<1> QED BY <1>2, DeployerInvariant, PTL DEF Spec, InSync

-----------------------------------------------------------------------------
(* The SQL adapter.                                                        *)

KvCalls == [key : KvKeys, value : Values \cup {NoValue}]

\* Where a client's transaction stands against its call: it has a key as long as
\* it runs, its row alone is locked once it may commit, and nothing is left when
\* it ended.
SqlInv ==
  /\ rows \in [KvKeys -> Values \cup {NoValue}]
  /\ txs \in [Clients -> {"idle", "update", "insert", "commit"}]
  /\ args \in [Clients -> KvCalls \cup {NoArgs}]
  /\ locked \in [Clients -> SUBSET KvKeys]
  /\ answers \in [Clients -> {"idle", "none", "ok", "failed"}]
  /\ \A c \in Clients :
       /\ answers[c] = "none" <=> txs[c] # "idle"
       /\ txs[c] # "idle" => args[c] \in KvCalls
       /\ txs[c] = "commit" => locked[c] = {args[c].key}

\* One client's step keeps the invariant and is a step of the store, or none.
LEMMA SqlServes ==
  ASSUME SqlInv, NEW c \in Clients, Serving(c) \/ Rollback(c)
  PROVE  SqlInv' /\ [M!KvNext]_(M!kvVars)
<1> USE DEF SqlInv, Ends
<1>1. ASSUME NEW how \in {"ok", "failed"}, Ends(c, how), txs[c] # "idle",
             rows' \in [KvKeys -> Values \cup {NoValue}]
      PROVE  SqlInv' /\ M!KvReturns(c, how)
  BY <1>1 DEF M!KvReturns, M!NoArgs, NoArgs
<1>2. CASE Delete(c)
  <2>1. args[c].key \in KvKeys /\ txs[c] # "idle" BY <1>2 DEF Delete, KvCalls
  <2>2. rows' \in [KvKeys -> Values \cup {NoValue}] BY <1>2, <2>1 DEF Delete
  <2>3. SqlInv' /\ M!KvReturns(c, "ok") BY <1>1, <1>2, <2>1, <2>2 DEF Delete
  <2>4. M!KvDoes(c) BY <1>2, <2>3 DEF Delete, M!KvDoes
  <2> QED BY <2>3, <2>4 DEF M!KvNext
<1>3. CASE Update(c)
  <2>1. args[c].key \in KvKeys BY <1>3 DEF Update, KvCalls
  <2>2. SqlInv' BY SMT, <1>3, <2>1 DEF Update
  <2> QED BY <1>3, <2>2 DEF Update, M!kvVars
<1>4. CASE Insert(c)
  <2>1. args[c].key \in KvKeys BY <1>4 DEF Insert, KvCalls
  <2>2. CASE rows[args[c].key] = NoValue
    <3>1. SqlInv' BY SMT, <1>4, <2>1, <2>2 DEF Insert
    <3> QED BY <1>4, <2>2, <3>1 DEF Insert, M!kvVars
  <2>3. CASE rows[args[c].key] # NoValue
    <3>1. SqlInv' /\ M!KvReturns(c, "failed") BY <1>1, <1>4, <2>3 DEF Insert
    <3> QED BY <1>4, <3>1 DEF Insert, M!KvNext, M!KvFails
  <2> QED BY <2>2, <2>3
<1>5. CASE Commit(c)
  <2>1. args[c].key \in KvKeys /\ args[c].value \in Values \cup {NoValue} /\ locked[c] = {args[c].key}
    BY <1>5 DEF Commit, KvCalls
  <2>2. rows' = [rows EXCEPT ![args[c].key] = args[c].value] BY <1>5, <2>1 DEF Commit
  <2>3. SqlInv' /\ M!KvReturns(c, "ok") BY <1>1, <1>5, <2>1, <2>2 DEF Commit
  <2> QED BY <2>2, <2>3 DEF M!KvNext, M!KvDoes
<1>6. CASE Rollback(c)
  <2>1. SqlInv' /\ M!KvReturns(c, "failed") BY <1>1, <1>6 DEF Rollback
  <2> QED BY <1>6, <2>1 DEF Rollback, M!KvNext, M!KvFails
<1> QED BY <1>2, <1>3, <1>4, <1>5, <1>6 DEF Serving

LEMMA SqlCalls ==
  ASSUME SqlInv, NEW c \in Clients, NEW k \in KvKeys, NEW v \in Values \cup {NoValue}, SqlCall(c, k, v)
  PROVE  SqlInv' /\ M!KvNext
<1>1. SqlInv' BY DEF SqlInv, SqlCall, KvCalls
<1>2. M!KvCall(c, k, v) BY DEF SqlInv, SqlCall, M!KvCall
<1> QED BY <1>1, <1>2 DEF M!KvNext

\* The adapter's transactions implement the store of store/store.go: a Put or Delete that
\* returned nil did what was asked, all of it at one moment, and one that failed did
\* nothing, whatever the statements of the other clients did in between.
THEOREM SqlImplementsKv == SqlSpec => M!KvSafe
<1>1. SqlInit => SqlInv BY DEF SqlInit, SqlInv
<1>2. SqlInit => M!KvInit BY DEF SqlInit, M!KvInit, M!NoArgs, NoArgs
<1>3. SqlInv /\ [SqlNext]_sqlVars => SqlInv' /\ [M!KvNext]_(M!kvVars)
  <2>1. SqlInv /\ UNCHANGED sqlVars => SqlInv' /\ UNCHANGED M!kvVars
    BY DEF SqlInv, sqlVars, M!kvVars
  <2> QED BY <2>1, SqlServes, SqlCalls DEF SqlNext
<1> QED BY <1>1, <1>2, <1>3, PTL DEF SqlSpec, M!KvSafe

-----------------------------------------------------------------------------
(* The tuple space.                                                        *)

Calls == {"idle", "check", "asleep", "woken", "got", "cancelled", "closed"}

SpaceTypes ==
  /\ data \in [Keys -> Seq(Entries)]
  /\ sent \in [Keys -> Seq(Entries)]
  /\ taken \in [Keys -> Seq(Entries)]
  /\ waiter \in [Waiters -> Calls]
  /\ DOMAIN call = Waiters
  /\ \A w \in Waiters : waiter[w] \in {"check", "asleep", "woken"} => call[w].key \in Keys

\* What is known between any two critical sections.
SpaceInv == SpaceTypes /\ NoSleeperForgotten /\ InOrderOnce

LEMMA SpaceInvInit == SpaceInit => SpaceInv
<1> SUFFICES ASSUME SpaceInit PROVE SpaceInv
  OBVIOUS
<1> USE DEF SpaceInit
<1>1. <<>> \in Seq(Entries) /\ <<>> \o <<>> = <<>> BY SMT
<1>2. SpaceTypes BY <1>1 DEF SpaceTypes, Calls
<1>3. NoSleeperForgotten BY DEF NoSleeperForgotten
<1>4. InOrderOnce BY <1>1 DEF InOrderOnce
<1> QED BY <1>2, <1>3, <1>4 DEF SpaceInv

\* Moving the head of one sequence to the end of another leaves their
\* concatenation as it was.
LEMMA MoveHead ==
  ASSUME NEW S, NEW s \in Seq(S), NEW t \in Seq(S), t # <<>>
  PROVE  s \o t = Append(s, Head(t)) \o Tail(t)
<1>1. Head(t) \in S /\ Tail(t) \in Seq(S) /\ Len(Tail(t)) = Len(t) - 1
  BY HeadTailProperties
<1>2. Append(s, Head(t)) \in Seq(S) BY SMT, <1>1
<1> QED BY SMT, <1>1, <1>2

\* pop keeps the order of a key's entries.
LEMMA PopKeeps ==
  ASSUME SpaceInv, NEW k \in Keys, data[k] # <<>>, pop(k), UNCHANGED sent
  PROVE  /\ InOrderOnce'
         /\ data' \in [Keys -> Seq(Entries)] /\ taken' \in [Keys -> Seq(Entries)]
         /\ \A j \in Keys : data[j] = <<>> => data'[j] = <<>>
<1> USE DEF SpaceInv, SpaceTypes
<1>1. Head(data[k]) \in Entries /\ Tail(data[k]) \in Seq(Entries) BY HeadTailProperties
<1>2. Append(taken[k], Head(data[k])) \in Seq(Entries) BY SMT, <1>1
<1>3. /\ data' = [data EXCEPT ![k] = Tail(data[k])]
      /\ taken' = [taken EXCEPT ![k] = Append(taken[k], Head(data[k]))]
  BY DEF pop
<1>4. data' \in [Keys -> Seq(Entries)] /\ taken' \in [Keys -> Seq(Entries)]
  BY <1>1, <1>2, <1>3
<1>5. ASSUME NEW j \in Keys PROVE sent'[j] = taken'[j] \o data'[j]
  <2>1. taken[j] \o data[j] = sent[j] BY DEF InOrderOnce
  <2>2. CASE j = k
    <3>1. taken[k] \o data[k] = Append(taken[k], Head(data[k])) \o Tail(data[k])
      BY SMTT(30), MoveHead
    <3>2. taken'[k] = Append(taken[k], Head(data[k])) /\ data'[k] = Tail(data[k])
      BY <1>3
    <3> QED BY <2>1, <2>2, <3>1, <3>2
  <2>3. CASE j # k BY <1>3, <2>1, <2>3
  <2> QED BY <2>2, <2>3
<1> QED BY <1>3, <1>4, <1>5 DEF InOrderOnce

LEMMA SpaceInvNext == SpaceInv /\ [SpaceNext]_spaceVars => SpaceInv'
<1> SUFFICES ASSUME SpaceInv, [SpaceNext]_spaceVars PROVE SpaceInv'
  OBVIOUS
<1> USE DEF SpaceInv, SpaceTypes, Calls
<1>1. CASE UNCHANGED spaceVars
  BY <1>1 DEF spaceVars, NoSleeperForgotten, InOrderOnce
<1>2. ASSUME NEW k \in Keys, Inp(k) PROVE SpaceInv'
  <2>1. data[k] # <<>> /\ pop(k) /\ UNCHANGED <<shut, waiter, call, sent>> BY <1>2 DEF Inp
  <2>2. /\ InOrderOnce'
        /\ data' \in [Keys -> Seq(Entries)] /\ taken' \in [Keys -> Seq(Entries)]
        /\ \A j \in Keys : data[j] = <<>> => data'[j] = <<>>
    BY <2>1, PopKeeps
  <2>3. NoSleeperForgotten' BY <2>1, <2>2 DEF NoSleeperForgotten
  <2> QED BY <2>1, <2>2, <2>3
<1>3. ASSUME NEW k \in Keys, NEW e \in Entries, Out(k, e) PROVE SpaceInv'
  <2>1. /\ data' = [data EXCEPT ![k] = Append(data[k], e)]
        /\ sent' = [sent EXCEPT ![k] = Append(sent[k], e)]
        /\ waiter' = [w \in Waiters |-> IF waiter[w] = "asleep" THEN "woken" ELSE waiter[w]]
        /\ UNCHANGED <<shut, call, taken>>
    BY <1>3 DEF Out, signal
  <2>2. data' \in [Keys -> Seq(Entries)] /\ sent' \in [Keys -> Seq(Entries)] BY SMT, <2>1
  <2>3. SpaceTypes' BY <2>1, <2>2
  <2>4. NoSleeperForgotten' BY <2>1 DEF NoSleeperForgotten
  <2>5. ASSUME NEW j \in Keys PROVE sent'[j] = taken'[j] \o data'[j]
    <3>1. taken[j] \o data[j] = sent[j] BY DEF InOrderOnce
    <3>2. Append(taken[k] \o data[k], e) = taken[k] \o Append(data[k], e)
      <4>1. PICK s \in Seq(Entries) : s = taken[k] OBVIOUS
      <4>2. PICK t \in Seq(Entries) : t = data[k] OBVIOUS
      <4>3. Append(s \o t, e) = s \o Append(t, e) BY ONLY TRUE
      <4> QED BY ONLY <4>1, <4>2, <4>3
    <3>3. CASE j = k
      <4>1. sent'[k] = Append(sent[k], e) /\ data'[k] = Append(data[k], e) BY <2>1
      <4> QED BY <2>1, <3>1, <3>2, <3>3, <4>1
    <3>4. CASE j # k BY <2>1, <3>1, <3>4
    <3> QED BY <3>3, <3>4
  <2> QED BY <2>3, <2>4, <2>5 DEF InOrderOnce
<1>4. ASSUME NEW w \in Waiters, Check(w) PROVE SpaceInv'
  <2> DEFINE k == call[w].key
  <2>0. k \in Keys /\ waiter[w] = "check" /\ UNCHANGED <<shut, sent>> BY <1>4 DEF Check
  <2>1. CASE UNCHANGED <<data, taken>> /\ \E how \in {"closed", "got"} : Returns(w, how)
    BY SMT, <2>0, <2>1 DEF Returns, NoSleeperForgotten, InOrderOnce
  <2>2. CASE /\ ~shut /\ data[k] = <<>> /\ waiter' = [waiter EXCEPT ![w] = "asleep"]
             /\ UNCHANGED <<call, data, taken>>
    BY <2>0, <2>2 DEF NoSleeperForgotten, InOrderOnce
  <2>3. CASE data[k] # <<>> /\ Returns(w, "got") /\ pop(k)
    <3>1. /\ InOrderOnce'
          /\ data' \in [Keys -> Seq(Entries)] /\ taken' \in [Keys -> Seq(Entries)]
          /\ \A j \in Keys : data[j] = <<>> => data'[j] = <<>>
      BY <2>0, <2>3, PopKeeps
    <3>2. NoSleeperForgotten' BY <2>0, <2>3, <3>1 DEF NoSleeperForgotten, Returns
    <3> QED BY <2>0, <2>3, <3>1, <3>2 DEF Returns
  <2> QED BY <1>4, <2>1, <2>2, <2>3 DEF Check
<1>5. ASSUME NEW w \in Waiters, Wake(w) \/ Cancel(w) PROVE SpaceInv'
  <2>1. UNCHANGED <<data, shut, sent, taken>> BY <1>5 DEF Wake, Cancel
  <2>2. /\ \E s \in {"check", "cancelled"} : waiter' = [waiter EXCEPT ![w] = s]
        /\ waiter'[w] = "check" => UNCHANGED call /\ waiter[w] = "woken"
        /\ DOMAIN call' = Waiters /\ \A v \in Waiters \ {w} : call'[v] = call[v]
    BY <1>5 DEF Wake, Cancel, Returns
  <2> QED BY <2>1, <2>2 DEF NoSleeperForgotten, InOrderOnce
<1>6. ASSUME NEW w \in Waiters, NEW k \in Keys, NEW take \in BOOLEAN, Call(w, k, take)
      PROVE  SpaceInv'
  BY <1>6 DEF Call, NoSleeperForgotten, InOrderOnce
<1>7. CASE SpaceClose
  BY <1>7 DEF SpaceClose, signal, NoSleeperForgotten, InOrderOnce
<1> QED BY <1>1, <1>2, <1>3, <1>4, <1>5, <1>6, <1>7 DEF SpaceNext, Waiting

LEMMA SpaceInvariant == SpaceSpec => []SpaceInv
BY SpaceInvInit, SpaceInvNext, PTL DEF SpaceSpec

\* No wakeup of In or Rd is lost, however many callers, keys and entries there
\* are and whatever comes between a caller's look at its queue and its select.
THEOREM NoWakeupLost == SpaceSpec => []NoSleeperForgotten
<1>1. SpaceInv => NoSleeperForgotten BY DEF SpaceInv
<1> QED BY <1>1, SpaceInvariant, PTL

\* What In and Inp have returned and what is queued is, key by key, what Out
\* enqueued, in its order: nothing is lost, doubled or overtaken.
THEOREM HandedOutOnce == SpaceSpec => []InOrderOnce
<1>1. SpaceInv => InOrderOnce BY DEF SpaceInv
<1> QED BY <1>1, SpaceInvariant, PTL

-----------------------------------------------------------------------------
(* The gateway on its listener.                                            *)

USE ListenerAssumption

Busy == {"decode", "upstream", "error", "encode"}

Types ==
  /\ accepted \in Conns \cup {NoConn}
  /\ conns \subseteq Conns
  /\ link \in [Conns -> {"none", "open", "closed"}]
  /\ handler \in [Conns -> {"none", "run", "close", "untrack", "done", "ended"}]
  /\ stopper \in [ListenerClosers -> {"idle", "socket", "conns", "wait", "returned"}]
  /\ frame \in [Frames -> Busy \cup {"none", "replied", "dropped"}]
  /\ on \in [Frames -> Conns \cup {NoConn}]
  /\ failure \in [Frames -> BOOLEAN]

\* The link in the hands of Serve is new: nobody handles it yet.
AcceptedInv ==
  /\ accepted # NoConn <=> serve \in {"track", "spawn"}
  /\ accepted # NoConn => handler[accepted] = "none" /\ link[accepted] # "none"
  /\ serve = "track" => accepted \notin conns
  /\ serve = "spawn" => accepted \in conns

\* A handler has a link, and has closed it when it takes it out of s.conns.
HandlerInv ==
  \A c \in Conns : /\ handler[c] # "none" => link[c] # "none"
                   /\ handler[c] \in {"untrack", "done", "ended"} => link[c] = "closed"
                   /\ c \in conns => link[c] # "none"

\* Close finds every link that is open in s.conns, or Serve is about to track it.
OpenInv == \A c \in Conns : link[c] = "open" => c \in conns \/ (serve = "track" /\ accepted = c)

\* Nobody is in Close before s.closed is set.
StopperInv == ~closed => \A x \in ListenerClosers : stopper[x] = "idle"

\* A frame that is being handled came from a link that a handler was started for,
\* and one that goes to errorReply has its failure noted.
FrameInv ==
  \A f \in Frames : /\ frame[f] \in Busy => on[f] \in Conns /\ handler[on[f]] # "none"
                    /\ frame[f] \in {"error", "dropped"} => failure[f]

ListenerInv == AcceptedInv /\ HandlerInv /\ OpenInv /\ StopperInv /\ Tracked /\ SweptClean

GatewayInv == Types /\ ListenerInv /\ FrameInv

LEMMA GatewayInvInit == GatewayInit => GatewayInv
<1> SUFFICES ASSUME GatewayInit PROVE GatewayInv
  OBVIOUS
<1> USE DEF GatewayInit, ListenerInit
<1>1. Types BY DEF Types, Busy
<1>2. AcceptedInv /\ HandlerInv /\ OpenInv BY DEF AcceptedInv, HandlerInv, OpenInv
<1>3. StopperInv /\ Tracked /\ SweptClean BY DEF StopperInv, Tracked, SweptClean, Swept
<1>4. FrameInv BY DEF FrameInv, Busy
<1> QED BY <1>1, <1>2, <1>3, <1>4 DEF GatewayInv, ListenerInv

\* The steps of Serve.
LEMMA ServeKeeps ==
  ASSUME GatewayInv, Listen \/ ServeStep, UNCHANGED gatewayVars PROVE GatewayInv'
<1> USE DEF GatewayInv, ListenerInv, gatewayVars
<1> USE DEF Types
<1>1. CASE Listen
  BY <1>1 DEF Listen, AcceptedInv, HandlerInv, OpenInv, StopperInv, Tracked, SweptClean, Swept, FrameInv
<1>2. CASE Accept
  <2> DEFINE c == CHOOSE n \in Conns : link[n] = "none"
  <2>1. c \in Conns /\ link[c] = "none" BY <1>2 DEF Accept
  <2>2. /\ accepted' = c /\ serve = "accept" /\ serve' = "track"
        /\ link' = [link EXCEPT ![c] = "open"]
        /\ UNCHANGED <<closed, conns, handler, stopper>>
    BY <1>2 DEF Accept
  <2> HIDE DEF c
  <2>3. accepted = NoConn /\ handler[c] = "none" /\ c \notin conns
    BY <2>1, <2>2 DEF AcceptedInv, HandlerInv
  <2>4. Types' BY <2>1, <2>2
  <2>5. AcceptedInv' BY <2>1, <2>2, <2>3 DEF AcceptedInv
  <2>6. HandlerInv' BY <2>1, <2>2, <2>3 DEF HandlerInv
  <2>7. OpenInv' BY <2>1, <2>2, <2>3 DEF OpenInv
  <2>8. Tracked' /\ StopperInv' BY <2>1, <2>2, <2>3 DEF Tracked, StopperInv
  <2>9. SweptClean' BY <2>1, <2>2, <2>3 DEF SweptClean, Swept
  <2>10. FrameInv' BY <2>2 DEF FrameInv
  <2> QED BY <2>4, <2>5, <2>6, <2>7, <2>8, <2>9, <2>10
<1>3. CASE AcceptFails
  BY <1>3 DEF AcceptFails, AcceptedInv, HandlerInv, OpenInv, StopperInv, Tracked, SweptClean, Swept, FrameInv
<1>4. CASE track
  <2>1. accepted \in Conns /\ handler[accepted] = "none" /\ link[accepted] # "none" /\ serve = "track"
    BY <1>4 DEF track, AcceptedInv
  <2>2. CASE closed
    <3>1. /\ link' = [link EXCEPT ![accepted] = "closed"] /\ accepted' = NoConn
          /\ serve' = "returned" /\ UNCHANGED <<closed, conns, handler, stopper>>
      BY <1>4, <2>2 DEF track
    <3>2. accepted \notin conns BY <2>1 DEF AcceptedInv
    <3>3. Types' BY <2>1, <3>1
    <3>4. AcceptedInv' BY <3>1 DEF AcceptedInv
    <3>5. HandlerInv' BY <2>1, <3>1 DEF HandlerInv
    <3>6. OpenInv' BY <2>1, <3>1 DEF OpenInv
    <3>7. Tracked' /\ StopperInv' BY <2>1, <3>1, <3>2 DEF Tracked, StopperInv
    <3>8. SweptClean' BY <2>1, <3>1 DEF SweptClean, Swept
    <3>9. FrameInv' BY <3>1 DEF FrameInv
    <3> QED BY <3>3, <3>4, <3>5, <3>6, <3>7, <3>8, <3>9
  <2>3. CASE ~closed
    <3>1. /\ conns' = conns \cup {accepted} /\ serve' = "spawn"
          /\ UNCHANGED <<accepted, link, closed, handler, stopper>>
      BY <1>4, <2>3 DEF track
    <3>2. Types' BY <2>1, <3>1
    <3>3. AcceptedInv' BY <2>1, <3>1 DEF AcceptedInv
    <3>4. HandlerInv' /\ OpenInv' BY <2>1, <3>1 DEF HandlerInv, OpenInv
    <3>5. Tracked' /\ StopperInv' BY <2>1, <3>1 DEF Tracked, StopperInv
    <3>6. SweptClean' BY <2>3, <3>1 DEF SweptClean, Swept
    <3>7. FrameInv' BY <3>1 DEF FrameInv
    <3> QED BY <3>2, <3>3, <3>4, <3>5, <3>6, <3>7
  <2> QED BY <2>2, <2>3
<1>5. CASE Spawn
  <2>1. accepted \in Conns /\ accepted \in conns /\ link[accepted] # "none" /\ serve = "spawn"
    BY <1>5 DEF Spawn, AcceptedInv
  <2>2. /\ handler' = [handler EXCEPT ![accepted] = "run"] /\ serve' = "accept" /\ accepted' = NoConn
        /\ UNCHANGED <<closed, conns, link, stopper>>
    BY <1>5 DEF Spawn
  <2>3. Types' BY <2>1, <2>2
  <2>4. AcceptedInv' BY <2>2 DEF AcceptedInv
  <2>5. HandlerInv' /\ OpenInv' BY <2>1, <2>2 DEF HandlerInv, OpenInv
  <2>6. Tracked' /\ StopperInv' BY <2>1, <2>2 DEF Tracked, StopperInv
  <2>7. SweptClean' BY <2>1, <2>2 DEF SweptClean, Swept
  <2>8. FrameInv' BY <2>1, <2>2 DEF FrameInv
  <2> QED BY <2>3, <2>4, <2>5, <2>6, <2>7, <2>8
<1> QED BY <1>1, <1>2, <1>3, <1>4, <1>5 DEF ServeStep

\* The end of a connection's handler, from its last Receive on, and of its peer.
LEMMA HandlersKeep ==
  ASSUME GatewayInv, NEW c \in Conns, UNCHANGED gatewayVars,
         HandlerEnd(c) \/ Hangup(c) \/ ReceiveFails(c)
  PROVE  GatewayInv'
<1> USE DEF GatewayInv, ListenerInv, gatewayVars, Types
<1>1. CASE HandlerClose(c)
  <2>1. /\ handler[c] = "close" /\ link' = [link EXCEPT ![c] = "closed"]
        /\ handler' = [handler EXCEPT ![c] = "untrack"]
        /\ UNCHANGED <<serve, accepted, closed, conns, stopper>>
    BY <1>1 DEF HandlerClose
  <2>2. accepted # c BY <2>1 DEF AcceptedInv
  <2>3. Types' BY <2>1
  <2>4. AcceptedInv' BY <2>1, <2>2 DEF AcceptedInv
  <2>5. HandlerInv' /\ OpenInv' BY <2>1 DEF HandlerInv, OpenInv
  <2>6. Tracked' /\ StopperInv' BY <2>1 DEF Tracked, StopperInv
  <2>7. SweptClean' BY <2>1 DEF SweptClean, Swept
  <2>8. FrameInv' BY <2>1 DEF FrameInv
  <2> QED BY <2>3, <2>4, <2>5, <2>6, <2>7, <2>8
<1>2. CASE untrack(c)
  <2>1. /\ handler[c] = "untrack" /\ conns' = conns \ {c}
        /\ handler' = [handler EXCEPT ![c] = "done"]
        /\ UNCHANGED <<serve, accepted, closed, link, stopper>>
    BY <1>2 DEF untrack
  <2>2. accepted # c /\ link[c] = "closed" BY <2>1 DEF AcceptedInv, HandlerInv
  <2>3. Types' BY <2>1
  <2>4. AcceptedInv' BY <2>1, <2>2 DEF AcceptedInv
  <2>5. HandlerInv' /\ OpenInv' BY <2>1, <2>2 DEF HandlerInv, OpenInv
  <2>6. Tracked' /\ StopperInv' BY <2>1 DEF Tracked, StopperInv
  <2>7. SweptClean' BY <2>1 DEF SweptClean, Swept
  <2>8. FrameInv' BY <2>1 DEF FrameInv
  <2> QED BY <2>3, <2>4, <2>5, <2>6, <2>7, <2>8
<1>3. ASSUME NEW s \in {"ended", "close"}, handler' = [handler EXCEPT ![c] = s],
             handler[c] = (IF s = "ended" THEN "done" ELSE "run"),
             UNCHANGED <<serve, accepted, closed, conns, link, stopper>>
      PROVE  GatewayInv'
  <2>1. accepted # c BY <1>3 DEF AcceptedInv
  <2>2. Types' BY <1>3
  <2>3. AcceptedInv' BY <1>3, <2>1 DEF AcceptedInv
  <2>4. HandlerInv' /\ OpenInv' BY <1>3 DEF HandlerInv, OpenInv
  <2>5. Tracked' /\ StopperInv' BY <1>3 DEF Tracked, StopperInv
  <2>6. SweptClean' BY <1>3 DEF SweptClean, Swept
  <2>7. FrameInv' BY <1>3 DEF FrameInv
  <2> QED BY <2>2, <2>3, <2>4, <2>5, <2>6, <2>7
<1>4. CASE HandlerDone(c) BY <1>3, <1>4 DEF HandlerDone
<1>5. CASE ReceiveFails(c) BY <1>3, <1>5 DEF ReceiveFails
<1>6. CASE Hangup(c)
  BY <1>6 DEF Hangup, AcceptedInv, HandlerInv, OpenInv, StopperInv, Tracked, SweptClean, Swept, FrameInv
<1> QED BY <1>1, <1>2, <1>4, <1>5, <1>6 DEF HandlerEnd

\* Close: after the sweep, an open link is one that Serve has yet to refuse.
LEMMA CloseKeeps ==
  ASSUME GatewayInv, NEW x \in ListenerClosers, CloseSwap(x) \/ CloseStep(x),
         UNCHANGED gatewayVars
  PROVE  GatewayInv'
<1> USE DEF GatewayInv, ListenerInv, gatewayVars, Types
<1>1. CASE CloseConns(x)
  <2>1. /\ link' = [c \in Conns |-> IF c \in conns THEN "closed" ELSE link[c]]
        /\ stopper[x] = "conns" /\ stopper' = [stopper EXCEPT ![x] = "wait"]
        /\ UNCHANGED <<serve, accepted, closed, conns, handler>>
    BY <1>1 DEF CloseConns
  <2>2. Types' BY <2>1
  <2>3. AcceptedInv' BY <2>1 DEF AcceptedInv
  <2>4. HandlerInv' /\ OpenInv' BY <2>1 DEF HandlerInv, OpenInv
  <2>5. Tracked' /\ StopperInv' BY <2>1 DEF Tracked, StopperInv
  <2>6. SweptClean' BY <2>1 DEF SweptClean, OpenInv
  <2>7. FrameInv' BY <2>1 DEF FrameInv
  <2> QED BY <2>2, <2>3, <2>4, <2>5, <2>6, <2>7
<1>2. ASSUME UNCHANGED <<serve, accepted, conns, link, handler>>, closed',
             NEW s \in {"socket", "conns", "wait", "returned"},
             stopper' = [stopper EXCEPT ![x] = s],
             Swept' => Swept
      PROVE  GatewayInv'
  <2>1. Types' BY <1>2
  <2>2. AcceptedInv' /\ HandlerInv' /\ OpenInv' BY <1>2 DEF AcceptedInv, HandlerInv, OpenInv
  <2>3. Tracked' /\ StopperInv' BY <1>2 DEF Tracked, StopperInv
  <2>4. SweptClean' BY <1>2 DEF SweptClean
  <2>5. FrameInv' BY <1>2 DEF FrameInv
  <2> QED BY <2>1, <2>2, <2>3, <2>4, <2>5
<1>3. CASE CloseSwap(x)
  <2>1. Swept' => Swept BY <1>3 DEF CloseSwap, Swept
  <2> QED BY <1>2, <1>3, <2>1 DEF CloseSwap
<1>4. ASSUME stopper[x] # "idle" PROVE closed
  BY <1>4 DEF StopperInv
<1>5. CASE CloseSocket(x)
  <2>1. Swept' => Swept BY <1>5 DEF CloseSocket, Swept
  <2>2. closed' BY <1>4, <1>5 DEF CloseSocket
  <2> QED BY <1>2, <1>5, <2>1, <2>2 DEF CloseSocket
<1>6. CASE CloseWaits(x)
  <2>1. Swept' => Swept BY <1>6 DEF CloseWaits, Swept
  <2>2. closed' BY <1>4, <1>6 DEF CloseWaits
  <2> QED BY <1>2, <1>6, <2>1, <2>2 DEF CloseWaits
<1> QED BY <1>1, <1>3, <1>5, <1>6 DEF CloseStep

\* A frame is read, and handled.
LEMMA FramesKeep ==
  ASSUME GatewayInv, NEW f \in Frames,
         HandleStep(f) \/ \E c \in Conns : Receive(c, f)
  PROVE  GatewayInv'
<1> USE DEF GatewayInv, ListenerInv, Types, Busy
<1>1. UNCHANGED listenerVars BY DEF HandleStep, Forward, Upstream, errorReply, Reply, Handle, Receive
<1>2. ListenerInv'
  BY <1>1 DEF listenerVars, AcceptedInv, HandlerInv, OpenInv, StopperInv, Tracked, SweptClean, Swept
<1>3. ASSUME NEW c \in Conns, Receive(c, f) PROVE Types' /\ FrameInv'
  BY SMT, <1>1, <1>3 DEF Receive, listenerVars, FrameInv
<1>4. ASSUME frame[f] \in Busy,
             NEW p \in {"dropped", "error", "upstream", "encode", "replied"},
             NEW failing \in BOOLEAN, Handle(f, p, failing),
             p \in {"error", "dropped"} => failing \/ failure[f]
      PROVE  Types' /\ FrameInv'
  BY SMT, <1>1, <1>4 DEF Handle, listenerVars, FrameInv
<1>5. ASSUME Forward(f) PROVE Types' /\ FrameInv'
  BY <1>4, <1>5 DEF Forward
<1>6. ASSUME Upstream(f) PROVE Types' /\ FrameInv'
  BY <1>4, <1>6 DEF Upstream
<1>7. ASSUME errorReply(f) PROVE Types' /\ FrameInv'
  BY <1>4, <1>7 DEF errorReply, FrameInv
<1>8. ASSUME Reply(f) PROVE Types' /\ FrameInv'
  BY <1>4, <1>8 DEF Reply
<1> QED BY <1>2, <1>3, <1>5, <1>6, <1>7, <1>8 DEF HandleStep

LEMMA GatewayInvNext ==
  GatewayInv /\ [GatewayNext]_<<listenerVars, gatewayVars>> => GatewayInv'
<1> SUFFICES ASSUME GatewayInv, [GatewayNext]_<<listenerVars, gatewayVars>> PROVE GatewayInv'
  OBVIOUS
<1>1. CASE UNCHANGED <<listenerVars, gatewayVars>>
  BY <1>1 DEF listenerVars, gatewayVars, GatewayInv, ListenerInv, Types, AcceptedInv, HandlerInv,
              OpenInv, StopperInv, Tracked, SweptClean, Swept, FrameInv
<1>2. CASE ListenerNext /\ UNCHANGED gatewayVars
  BY <1>2, ServeKeeps, HandlersKeep, CloseKeeps DEF ListenerNext
<1>3. ASSUME NEW c \in Conns, ReceiveFails(c) PROVE GatewayInv'
  BY <1>3, HandlersKeep DEF ReceiveFails
<1>4. ASSUME NEW f \in Frames, HandleStep(f) \/ \E c \in Conns : Receive(c, f) PROVE GatewayInv'
  BY <1>4, FramesKeep
<1> QED BY <1>1, <1>2, <1>3, <1>4 DEF GatewayNext

LEMMA GatewayInvariant == GatewaySpec => []GatewayInv
BY GatewayInvInit, GatewayInvNext, PTL DEF GatewaySpec

\* Close reaches every connection that is served, and once it has swept them none
\* is open but one that Serve is refusing.
THEOREM CloseSweeps == GatewaySpec => [](Tracked /\ SweptClean)
<1>1. GatewayInv => Tracked /\ SweptClean BY DEF GatewayInv, ListenerInv
<1> QED BY <1>1, GatewayInvariant, PTL

\* A frame that was dropped has a failure in its trace.
THEOREM TraceComplete == GatewaySpec => []TraceTells
<1>1. GatewayInv => TraceTells BY DEF GatewayInv, FrameInv, TraceTells
<1> QED BY <1>1, GatewayInvariant, PTL

\* The goroutines that Stop does not wait for send nothing after it has returned.
THEOREM NothingSentAfterStop == GatewaySpec => QuietAfterStop
<1> DEFINE Quiet == Stopped => \A f \in Frames : frame[f] # "replied" => frame'[f] # "replied"
<1>1. GatewayInv /\ [GatewayNext]_<<listenerVars, gatewayVars>> => [Quiet]_<<listenerVars, gatewayVars>>
  <2> SUFFICES ASSUME GatewayInv, GatewayNext, Swept, NEW f \in Frames,
                      frame[f] # "replied", frame'[f] = "replied"
               PROVE  FALSE
    BY ZenonT(30) DEF Stopped, gatewayVars, Quiet
  <2> USE DEF GatewayInv, ListenerInv, Types
  <2>1. Reply(f) /\ link[on[f]] = "open"
    BY SMT DEF GatewayNext, gatewayVars, ReceiveFails, Receive, HandleStep, Forward, Upstream,
           errorReply, Reply, Handle
  <2>2. on[f] \in Conns /\ handler[on[f]] # "none" BY <2>1 DEF Reply, FrameInv, Busy
  <2>3. serve = "track" /\ accepted = on[f] BY <2>1, <2>2 DEF SweptClean
  <2> QED BY <2>2, <2>3 DEF AcceptedInv
<1> QED BY <1>1, GatewayInvariant, PTL DEF GatewaySpec, QuietAfterStop
==============================================================================
