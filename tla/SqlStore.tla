------------------------------- MODULE SqlStore ------------------------------
(* The SQL adapter of the key/value store, adapters/sql/sql.go. Put is a       *)
(* transaction: UPDATE, INSERT when no row was updated, COMMIT, and ROLLBACK   *)
(* on any error. The database is external: it locks the rows a transaction     *)
(* wrote until the transaction ends, and its primary key refuses a second row. *)
EXTENDS FiniteSets

CONSTANTS KvKeys, Values, NoValue, Clients

ASSUME SqlAssumption == NoValue \notin Values

VARIABLES
  rows,     \* the committed table
  txs,      \* a client's transaction: "idle", "update", "insert", "commit"
  args,     \* its key and value; a value NoValue is a Delete
  locked,   \* the keys whose row it wrote and has not committed
  answers   \* what a client's last call returned, "none" while it runs, "idle" before the first

sqlVars == <<rows, txs, args, locked, answers>>

NoArgs == [key |-> CHOOSE k \in KvKeys : TRUE, value |-> NoValue]

SqlInit ==
  /\ rows = [k \in KvKeys |-> NoValue]
  /\ txs = [c \in Clients |-> "idle"]
  /\ args = [c \in Clients |-> NoArgs]
  /\ locked = [c \in Clients |-> {}]
  /\ answers = [c \in Clients |-> "idle"]

\* The lock on a row is free, or the client's own.
Free(c, k) == \A o \in Clients \ {c} : k \notin locked[o]

\* Put (BeginTx) or Delete is called.
SqlCall(c, k, v) ==
  /\ txs[c] = "idle"
  /\ txs' = [txs EXCEPT ![c] = "update"]
  /\ args' = [args EXCEPT ![c] = [key |-> k, value |-> v]]
  /\ answers' = [answers EXCEPT ![c] = "none"]
  /\ UNCHANGED <<rows, locked>>

\* The transaction ends; the client's buffers do not matter any more.
Ends(c, how) ==
  /\ txs' = [txs EXCEPT ![c] = "idle"]
  /\ args' = [args EXCEPT ![c] = NoArgs]
  /\ locked' = [locked EXCEPT ![c] = {}]
  /\ answers' = [answers EXCEPT ![c] = how]

\* Delete: one statement, committed at once; no row, no lock.
Delete(c) ==
  /\ txs[c] = "update" /\ args[c].value = NoValue
  /\ rows[args[c].key] # NoValue => Free(c, args[c].key)
  /\ rows' = [rows EXCEPT ![args[c].key] = NoValue]
  /\ Ends(c, "ok")

\* Mutant: a Put that updated no row commits, and inserts none.
UpdateOnly(c) ==
  /\ txs[c] = "update" /\ args[c].value # NoValue
  /\ Free(c, args[c].key)
  /\ txs' = [txs EXCEPT ![c] = "commit"]
  /\ locked' = [locked EXCEPT ![c] = IF rows[args[c].key] # NoValue THEN {args[c].key} ELSE {}]
  /\ UNCHANGED <<rows, args, answers>>

\* Put's UPDATE: it waits for a lock on the row; no row, no lock, and INSERT next.
Update(c) ==
  LET k == args[c].key
  IN  /\ txs[c] = "update" /\ args[c].value # NoValue
      /\ IF rows[k] # NoValue
         THEN /\ Free(c, k)
              /\ txs' = [txs EXCEPT ![c] = "commit"]
              /\ locked' = [locked EXCEPT ![c] = {k}]
         ELSE txs' = [txs EXCEPT ![c] = "insert"] /\ UNCHANGED locked
      /\ UNCHANGED <<rows, args, answers>>

\* Put's INSERT: it waits for whoever inserts the same key, and fails when the row
\* is there by then.
Insert(c) ==
  LET k == args[c].key
  IN  /\ txs[c] = "insert" /\ Free(c, k)
      /\ IF rows[k] = NoValue
         THEN /\ txs' = [txs EXCEPT ![c] = "commit"]
              /\ locked' = [locked EXCEPT ![c] = {k}]
              /\ UNCHANGED <<args, answers>>
         ELSE Ends(c, "failed")
      /\ UNCHANGED rows

\* tx.Commit.
Commit(c) ==
  /\ txs[c] = "commit"
  /\ rows' = [k \in KvKeys |-> IF k \in locked[c] THEN args[c].value ELSE rows[k]]
  /\ Ends(c, "ok")

\* The connection or the database fails a statement: the deferred Rollback.
Rollback(c) ==
  /\ txs[c] # "idle"
  /\ Ends(c, "failed")
  /\ UNCHANGED rows

Serving(c) == Delete(c) \/ Update(c) \/ Insert(c) \/ Commit(c)

SqlNext == \E c \in Clients :
  \/ Serving(c) \/ Rollback(c)
  \/ \E k \in KvKeys, v \in Values \cup {NoValue} : SqlCall(c, k, v)

SqlSpec == SqlInit /\ [][SqlNext]_sqlVars
-----------------------------------------------------------------------------
(* Properties. *)

M == INSTANCE Kv WITH kv <- rows, asked <- args, answer <- answers

\* The adapter is a key/value store: a Put or Delete that returned nil did what
\* was asked, at one moment, and one that failed did nothing, under any interleaving of
\* the statements of several clients. No call waits for ever: the transactions never
\* wait for one another in a circle.
SqlRefinesKv == M!KvSpec
=============================================================================
