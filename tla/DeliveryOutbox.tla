-------------------------- MODULE DeliveryOutbox --------------------------
(***************************************************************************)
(* The SQLite outbox of the delivery worker (rainbow/delivery/outbox.py).  *)
(* The table is a function from fingerprints to rows; each operator is the *)
(* effect of one committed statement.  Rows are never deleted, and no      *)
(* UPDATE looks at the status it overwrites.                               *)
(***************************************************************************)
EXTENDS Integers

Statuses == {"absent", "shadow", "pending", "retrying", "sent", "dead_letter"}

OutboxRow == [status : Statuses, attempts : Nat]

NoRow == [status |-> "absent", attempts |-> 0]

\* INSERT OR IGNORE: the first status an entry is recorded with stays.
Enqueue(table, fp, status) ==
  IF table[fp].status = "absent"
  THEN [table EXCEPT ![fp] = [status |-> status, attempts |-> 0]]
  ELSE table

\* Mutants: the WHERE clause forgets what is being retried, or takes the given-up
\* entries along.
PendingWithoutRetrying(table) ==
  {fp \in DOMAIN table : table[fp].status = "pending"}

PendingWithDeadLetters(table) ==
  {fp \in DOMAIN table : table[fp].status \in {"pending", "retrying", "dead_letter"}}

\* SELECT ... WHERE status IN ('pending', 'retrying'), in no stated order.
Pending(table) ==
  {fp \in DOMAIN table : table[fp].status \in {"pending", "retrying"}}

SetStatus(table, fp, status) == [table EXCEPT ![fp].status = status]

MarkSent(table, fp) == SetStatus(table, fp, "sent")

MarkDeadLetter(table, fp) == SetStatus(table, fp, "dead_letter")

\* Mutant: the attempt is not counted.
MarkRetryingUncounted(table, fp) == SetStatus(table, fp, "retrying")

\* The UPDATE of mark_retrying; the SELECT that follows it is a step of its own.
MarkRetrying(table, fp) ==
  [table EXCEPT ![fp] = [status |-> "retrying", attempts |-> @.attempts + 1]]
=============================================================================
