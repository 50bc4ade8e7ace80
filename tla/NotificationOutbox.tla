-------------------------- MODULE NotificationOutbox --------------------------
(***************************************************************************)
(* The notification outbox: rows claimed, delivered and marked by the      *)
(* scheduler's workers and by operators.  A claim is one statement; the    *)
(* delivery and the mark that records it are separate steps, and the marks *)
(* are keyed by row id alone.                                              *)
(***************************************************************************)
EXTENDS Naturals, Sequences, FiniteSets

CONSTANTS
  Notifications, \* row ids
  Workers,       \* instances running the notification-outbox task
  Admins,        \* operator requests
  NoOne,         \* nobody, or no row
  MaxAttempts,   \* defaultNotificationMaxAttempts
  BatchSize,     \* rows a worker claims per pass
  RetryLimit,    \* rows an operator's batch retry claims
  AttemptBound,  \* bound: an operator does not retry a row beyond this count
  Interruptions  \* may a run stop before it has marked its rows?

ASSUME ConstantsAssumption ==
  /\ NoOne \notin Workers \cup Notifications
  /\ Workers \cap Admins = {}
  /\ MaxAttempts \in Nat \ {0}
  /\ BatchSize \in Nat \ {0}
  /\ RetryLimit \in Nat \ {0}
  /\ AttemptBound \in Nat
  /\ Interruptions \in BOOLEAN

VARIABLES
  status,   \* notification_outbox.status
  attempts, \* notification_outbox.attempt_count
  due,      \* the pending rows whose next_retry_at has passed, oldest first
  lock,     \* the holder of the task's advisory lock
  at,       \* where each worker and operator request is
  on,       \* the row it is working on
  items,    \* its copies of the rows it has claimed and not yet marked
  tries,    \* history: automatic deliveries since the row was last queued
  acked     \* history: deliveries the provider acknowledged

rows == <<status, attempts, due>>
runs == <<lock, at, on, items>>
vars == <<rows, runs, tries, acked>>

Runners == Workers \cup Admins
Item == [id : Notifications, attempts : Nat]
Settled == {"sent", "failed", "discarded", "archived"}
Queued == {due[i] : i \in 1..Len(due)}

TypeOK ==
  /\ status \in [Notifications -> {"none", "pending", "processing"} \cup Settled]
  /\ attempts \in [Notifications -> Nat]
  /\ due \in Seq(Notifications)
  /\ lock \in Workers \cup {NoOne}
  /\ at \in [Runners -> {"idle", "retry", "requeue", "discard",
                         "loop", "delivered", "refused"}]
  /\ on \in [Runners -> Notifications \cup {NoOne}]
  /\ items \in [Runners -> SUBSET Item]
  /\ tries \in [Notifications -> Nat]
  /\ acked \in [Notifications -> Nat]

Init ==
  /\ status = [n \in Notifications |-> "none"]
  /\ attempts = [n \in Notifications |-> 0]
  /\ due = <<>>
  /\ lock = NoOne
  /\ at = [r \in Runners |-> "idle"]
  /\ on = [r \in Runners |-> NoOne]
  /\ items = [r \in Runners |-> {}]
  /\ tries = [n \in Notifications |-> 0]
  /\ acked = [n \in Notifications |-> 0]

-----------------------------------------------------------------------------
(***************************************************************************)
(* The queue                                                               *)
(***************************************************************************)
\* Rows become due in the order of their next_retry_at, so the order in which
\* they are claimed is the order in which they became due.
Enqueue(n) ==
  /\ status[n] = "none"
  /\ status' = [status EXCEPT ![n] = "pending"]
  /\ due' = Append(due, n)
  /\ UNCHANGED <<attempts, runs, tries, acked>>

\* The backoff of a row that failed to deliver is over.
BackoffElapses(n) ==
  /\ status[n] = "pending"
  /\ n \notin Queued
  /\ due' = Append(due, n)
  /\ UNCHANGED <<status, attempts, runs, tries, acked>>

\* ApplyRetention moves rows nothing more will happen to into the archive.
Archive(n) ==
  /\ status[n] \in {"sent", "discarded"}
  /\ status' = [status EXCEPT ![n] = "archived"]
  /\ UNCHANGED <<attempts, due, runs, tries, acked>>

-----------------------------------------------------------------------------
(***************************************************************************)
(* Runs: a batch is claimed, then delivered and marked row by row          *)
(***************************************************************************)
Unlock(r) == lock' = IF lock = r THEN NoOne ELSE lock

\* A run that stops early leaves the rows it has not marked in processing.
Return(r) ==
  /\ at' = [at EXCEPT ![r] = "idle"]
  /\ on' = [on EXCEPT ![r] = NoOne]
  /\ items' = [items EXCEPT ![r] = {}]
  /\ Unlock(r)

Processing(batch) ==
  [n \in Notifications |-> IF n \in batch THEN "processing" ELSE status[n]]

Start(r, batch) ==
  /\ status' = Processing(batch)
  /\ at' = [at EXCEPT ![r] = "loop"]
  /\ on' = [on EXCEPT ![r] = NoOne]
  /\ items' = [items EXCEPT ![r] =
                 {[id |-> n, attempts |-> attempts[n]] : n \in batch}]

Claimable == IF Len(due) < BatchSize THEN Len(due) ELSE BatchSize

\* Mutant: the order of ClaimFailed, newest first.
TakeNewest(batch) ==
  /\ batch = {due[i] : i \in (Len(due) - Claimable + 1)..Len(due)}
  /\ due' = SubSeq(due, 1, Len(due) - Claimable)

TakeOldest(batch) ==
  /\ batch = {due[i] : i \in 1..Claimable}
  /\ due' = SubSeq(due, Claimable + 1, Len(due))

ClaimDue(w) ==
  \E batch \in SUBSET Notifications :
    /\ TakeOldest(batch)
    /\ \/ Start(w, batch) /\ lock' = w
       \/ \* the statement commits and its answer is lost: nobody has the rows
          /\ Interruptions
          /\ status' = Processing(batch)
          /\ UNCHANGED runs

\* runOnce: the task runs if this instance gets the lock.
ProcessOutbox(w) ==
  /\ at[w] = "idle"
  /\ lock = NoOne
  /\ due # <<>>
  /\ ClaimDue(w)
  /\ UNCHANGED <<attempts, tries, acked>>

\* deliverOutboxItem: an error may hide a delivery, and a user who has opted
\* out since is sent nothing, which counts as success.
deliverOutboxItem(r) ==
  /\ at[r] = "loop"
  /\ \E i \in items[r] :
       /\ on' = [on EXCEPT ![r] = i.id]
       /\ tries' = [tries EXCEPT ![i.id] = IF r \in Workers THEN @ + 1 ELSE @]
       /\ \/ /\ at' = [at EXCEPT ![r] = "delivered"]
             /\ acked' = [acked EXCEPT ![i.id] = @ + 1]
          \/ /\ at' = [at EXCEPT ![r] = "delivered"]
             /\ UNCHANGED acked
          \/ /\ at' = [at EXCEPT ![r] = "refused"]
             /\ UNCHANGED acked
  /\ UNCHANGED <<rows, lock, items>>

\* After a mark the run goes on, or returns the error the mark reported.
Continue(r, i) ==
  \/ /\ at' = [at EXCEPT ![r] = "loop"]
     /\ on' = [on EXCEPT ![r] = NoOne]
     /\ items' = [items EXCEPT ![r] = @ \ {i}]
     /\ UNCHANGED lock
  \/ Interruptions /\ Return(r)

MarkSent(r) ==
  /\ at[r] = "delivered"
  /\ \E i \in items[r] :
       /\ i.id = on[r]
       /\ status' = [status EXCEPT ![i.id] = "sent"]
       /\ Continue(r, i)
  /\ UNCHANGED <<attempts, due, tries, acked>>

\* Mutant: the attempt just made is not counted.
ExhaustedBefore(k) == k >= MaxAttempts

Exhausted(k) == k + 1 >= MaxAttempts

CountAttempt(n) == attempts' = [attempts EXCEPT ![n] = @ + 1]

\* MarkFailed or MarkRetry, by the attempt count of the claimed copy.
MarkUndelivered(r) ==
  /\ at[r] = "refused"
  /\ \E i \in items[r] :
       /\ i.id = on[r]
       /\ status' = [status EXCEPT ![i.id] =
                       IF Exhausted(i.attempts) THEN "failed" ELSE "pending"]
       /\ CountAttempt(i.id)
       /\ Continue(r, i)
  /\ UNCHANGED <<due, tries, acked>>

Finish(r) ==
  /\ at[r] = "loop"
  /\ items[r] = {}
  /\ Return(r)
  /\ UNCHANGED <<rows, tries, acked>>

Step(r) == deliverOutboxItem(r) \/ MarkSent(r) \/ MarkUndelivered(r) \/ Finish(r)

\* Mutant: an interrupted run puts its rows back in the queue.
InterruptAndRequeue(r) ==
  /\ Interruptions
  /\ at[r] # "idle"
  /\ status' = [n \in Notifications |->
                  IF \E i \in items[r] : i.id = n THEN "pending" ELSE status[n]]
  /\ Return(r)
  /\ UNCHANGED <<attempts, due, tries, acked>>

\* Shutdown (ctx.Err), a mark that fails without effect, or a crash.
Interrupt(r) ==
  /\ Interruptions
  /\ at[r] # "idle"
  /\ Return(r)
  /\ UNCHANGED <<rows, tries, acked>>

\* The session holding the advisory lock drops while the task runs on.
LoseLock ==
  /\ Interruptions
  /\ lock # NoOne
  /\ lock' = NoOne
  /\ UNCHANGED <<rows, at, on, items, tries, acked>>

-----------------------------------------------------------------------------
(***************************************************************************)
(* Operator requests: GetByID first, then a conditional update             *)
(***************************************************************************)
GetByID(a, op, n) ==
  /\ at[a] = "idle"
  /\ status[n] = "failed"
  /\ at' = [at EXCEPT ![a] = op]
  /\ on' = [on EXCEPT ![a] = n]
  /\ UNCHANGED <<rows, lock, items, tries, acked>>

RetryFailure(a) ==
  /\ at[a] = "retry"
  /\ IF status[on[a]] = "failed" /\ attempts[on[a]] < AttemptBound
     THEN Start(a, {on[a]}) /\ UNCHANGED lock
     ELSE Return(a) /\ UNCHANGED status
  /\ UNCHANGED <<attempts, due, tries, acked>>

\* ClaimFailed: the failed rows, up to the limit.
RetryFailures(a) ==
  LET failed == {n \in Notifications : status[n] = "failed" /\ attempts[n] < AttemptBound}
  IN  /\ at[a] = "idle"
      /\ \E batch \in SUBSET failed :
           /\ batch # {}
           /\ Cardinality(batch) <= RetryLimit
           /\ Cardinality(batch) = RetryLimit \/ batch = failed
           /\ Start(a, batch)
      /\ UNCHANGED <<attempts, due, lock, tries, acked>>

\* Mutants: the updates rely on what GetByID read.
RequeueRead(n) ==
  /\ status' = [status EXCEPT ![n] = "pending"]
  /\ attempts' = [attempts EXCEPT ![n] = 0]
  /\ due' = Append(due, n)
  /\ tries' = [tries EXCEPT ![n] = 0]
DiscardRead(n) == status' = [status EXCEPT ![n] = "discarded"]

RequeueFailed(n) ==
  IF status[n] = "failed"
  THEN /\ status' = [status EXCEPT ![n] = "pending"]
       /\ attempts' = [attempts EXCEPT ![n] = 0]
       /\ due' = Append(due, n)
       /\ tries' = [tries EXCEPT ![n] = 0]
  ELSE UNCHANGED <<rows, tries>>

RequeueFailure(a) ==
  /\ at[a] = "requeue"
  /\ RequeueFailed(on[a])
  /\ Return(a)
  /\ UNCHANGED acked

MarkDiscarded(n) ==
  status' = IF status[n] = "failed"
            THEN [status EXCEPT ![n] = "discarded"] ELSE status

DiscardFailure(a) ==
  /\ at[a] = "discard"
  /\ MarkDiscarded(on[a])
  /\ Return(a)
  /\ UNCHANGED <<attempts, due, tries, acked>>

-----------------------------------------------------------------------------
Next ==
  \/ \E n \in Notifications : Enqueue(n) \/ BackoffElapses(n) \/ Archive(n)
  \/ \E w \in Workers : ProcessOutbox(w)
  \/ \E r \in Runners : Step(r) \/ Interrupt(r)
  \/ \E a \in Admins :
       \/ \E n \in Notifications, op \in {"retry", "requeue", "discard"} :
            GetByID(a, op, n)
       \/ RetryFailure(a) \/ RetryFailures(a)
       \/ RequeueFailure(a) \/ DiscardFailure(a)
  \/ LoseLock

Spec == Init /\ [][Next]_vars

\* The ticker of some instance keeps firing, a run that is not interrupted goes
\* on, and time passes.
Fairness ==
  /\ WF_vars(\E w \in Workers : ProcessOutbox(w))
  /\ \A r \in Runners : WF_vars(Step(r))
  /\ \A n \in Notifications : WF_vars(BackoffElapses(n))

FairSpec == Spec /\ Fairness

-----------------------------------------------------------------------------
(***************************************************************************)
(* Properties                                                              *)
(***************************************************************************)
Holds(r, n) == \E i \in items[r] : i.id = n

\* A claimed row belongs to one run: the row is still in processing, its
\* attempt count is the one in the run's copy, and no other run has it, however
\* the claims of ClaimDue, ClaimFailedByID and ClaimFailed, lost scheduler locks
\* and operators acting on stale reads interleave ("multiple workers split due
\* rows without double-claiming the same notification", docs/operations.md:19).
ClaimsAreExclusive ==
  \A r \in Runners : \A i \in items[r] :
    /\ status[i.id] = "processing"
    /\ attempts[i.id] = i.attempts
    /\ \A q \in Runners \ {r} : ~Holds(q, i.id)

\* ProcessOutbox sends a row at most MaxAttempts times before it leaves it to
\* an operator, whatever operators retry in between ("Automatic retries stop
\* after 5 attempts", docs/ce-operator-playbook.md:504).
AutomaticRetriesStop == \A n \in Notifications : tries[n] <= MaxAttempts

\* A delivery the provider acknowledged is never repeated, although the mark
\* that should record it may fail or never run.
DeliveredOnce == \A n \in Notifications : acked[n] <= 1

\* A sent or discarded row is done: no late mark of a run or of an operator who
\* read it earlier brings it back, and nothing is sent for it any more.
SettledStays ==
  [][\A n \in Notifications : status[n] \in {"sent", "discarded", "archived"} =>
       /\ status'[n] \in {status[n], "archived"}
       /\ tries'[n] = tries[n]
       /\ acked'[n] = acked[n]]_vars

Stranded(n) == status[n] = "processing" /\ \A r \in Runners : ~Holds(r, n)

\* A queued row is delivered or given up in the end, however often operators
\* requeue others, unless the run that claimed it was interrupted: nothing in
\* the code takes a row of an interrupted run out of processing.
QueueDrains ==
  \A n \in Notifications :
    (status[n] = "pending") ~> (status[n] \in Settled \/ Stranded(n))
=============================================================================
