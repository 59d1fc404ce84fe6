------------------------------- MODULE Watcher -------------------------------
(* Configuration reload: Load and Reload of runtime/config.go and the poll     *)
(* loop of runtime/watch.go, against a file that is edited meanwhile. check    *)
(* compares the file's stamp (modification time and size) with the one it has  *)
(* recorded, records it, and only then reads the file; Reload reads, parses    *)
(* and swaps the tree in separate steps, and may be called directly as well.   *)
EXTENDS Naturals

CONSTANTS
  MaxVersion, \* bound on the number of versions of the file
  Direct      \* callers of Config.Reload besides the watcher

Loop == "loop"
Reloaders == Direct \cup {Loop}

VARIABLES
  file,    \* the file: version, stamp, and whether it parses
  tree,    \* the version of the file that c.tree was built from
  last,    \* w.last, a stamp
  seen,    \* the stamp that check got from stat
  reload,  \* where a call of Reload is; "tick" is the loop between two checks
  readFile,     \* the file as a Reload read it
  lapsed   \* a change was lost that no later check looks for

watcherVars == <<file, tree, last, seen, reload, readFile, lapsed>>

\* Load, with the watcher not started yet.
WatcherInit ==
  /\ file = [version |-> 1, stamp |-> 1, ok |-> TRUE]
  /\ tree = 1 /\ last = 0 /\ seen = 0
  /\ reload = [r \in Reloaders |-> IF r = Loop THEN "off" ELSE "idle"]
  /\ readFile = [r \in Reloaders |-> file]
  /\ lapsed = FALSE

\* Somebody writes the file. A write of the same size within the resolution of
\* the modification time keeps the stamp.
Edit(ok, restamp) ==
  /\ file.version < MaxVersion
  /\ file' = [version |-> file.version + 1, ok |-> ok,
              stamp |-> IF restamp THEN file.version + 1 ELSE file.stamp]
  /\ lapsed' = (~restamp /\ (lapsed \/ last = file.stamp \/ seen = file.stamp))
  /\ UNCHANGED <<tree, last, seen, reload, readFile>>

\* Start records the stamp of now, which may be newer than what was loaded.
WatcherStart ==
  /\ reload[Loop] = "off"
  /\ last' = file.stamp
  /\ lapsed' = (tree # file.version)
  /\ reload' = [reload EXCEPT ![Loop] = "tick"]
  /\ UNCHANGED <<file, tree, seen, readFile>>

\* check: stat, compare, record; a file that cannot be stat'ed is no change.
check ==
  /\ reload[Loop] = "tick"
  /\ file.stamp # last
  /\ seen' = file.stamp
  /\ last' = file.stamp
  /\ reload' = [reload EXCEPT ![Loop] = "read"]
  /\ UNCHANGED <<file, tree, readFile, lapsed>>

\* Stop cancels the loop and waits for it; a check it is in ends first.
WatcherStop ==
  /\ reload[Loop] = "tick"
  /\ reload' = [reload EXCEPT ![Loop] = "off"]
  /\ lapsed' = FALSE
  /\ UNCHANGED <<file, tree, last, seen, readFile>>

\* Config.Reload, called by somebody else.
DirectReload(r) ==
  /\ r # Loop /\ reload[r] = "idle"
  /\ reload' = [reload EXCEPT ![r] = "read"]
  /\ UNCHANGED <<file, tree, last, seen, readFile, lapsed>>

Rest(r) == IF r = Loop THEN "tick" ELSE "idle"

\* os.ReadFile; when it fails the tree stays, and so does the recorded stamp.
ReadFile(r) ==
  /\ reload[r] = "read"
  /\ \/ /\ readFile' = [readFile EXCEPT ![r] = file]
        /\ reload' = [reload EXCEPT ![r] = "swap"]
        /\ UNCHANGED lapsed
     \/ /\ reload' = [reload EXCEPT ![r] = Rest(r)]
        /\ lapsed' = (lapsed \/ (r = Loop /\ last = file.stamp))
        /\ UNCHANGED readFile
  /\ UNCHANGED <<file, tree, last, seen>>

\* Mutant: the stamp is recorded after the reload, as it is then.
SwapRecords(r) ==
  /\ reload[r] = "swap"
  /\ tree' = IF readFile[r].ok THEN readFile[r].version ELSE tree
  /\ lapsed' = (lapsed \/ tree' < tree)
  /\ reload' = [reload EXCEPT ![r] = Rest(r)]
  /\ readFile' = [readFile EXCEPT ![r] = [version |-> 1, stamp |-> 1, ok |-> TRUE]]
  /\ last' = IF r = Loop THEN file.stamp ELSE last
  /\ UNCHANGED <<file, seen>>

\* buildTree fails and Reload returns the error, or the tree is swapped; a tree
\* that was read before another one that is there already takes its place.
Swap(r) ==
  /\ reload[r] = "swap"
  /\ tree' = IF readFile[r].ok THEN readFile[r].version ELSE tree
  /\ lapsed' = (lapsed \/ tree' < tree)
  /\ reload' = [reload EXCEPT ![r] = Rest(r)]
  /\ readFile' = [readFile EXCEPT ![r] = [version |-> 1, stamp |-> 1, ok |-> TRUE]]
  /\ UNCHANGED <<file, last, seen>>

WatcherNext ==
  \/ WatcherStart \/ check \/ WatcherStop
  \/ \E ok, restamp \in BOOLEAN : Edit(ok, restamp)
  \/ \E r \in Direct : DirectReload(r)
  \/ \E r \in Reloaders : ReadFile(r) \/ Swap(r)
-----------------------------------------------------------------------------
(* Properties. *)

\* The watcher converges: when the file is not written any more and parses, the
\* tree is built from it in the end, however the writes fell between the steps of
\* the checks, unless a change got lost: one between Load and Start, a write that
\* kept the stamp, a failed read, or a Reload that overtook a newer one.
WatcherConverges == <>[](reload[Loop] = "off" \/ ~file.ok \/ lapsed \/ tree = file.version)
=============================================================================
