----------------------- MODULE NotificationOutboxProofs -----------------------
(***************************************************************************)
(* Proofs about NotificationOutbox, for every set of notifications,        *)
(* workers and operators, every batch size and every number of attempts.   *)
(***************************************************************************)
EXTENDS NotificationOutbox, SequenceTheorems, TLAPS

(***************************************************************************)
(* The inductive invariant.  A row is queued once and only while pending;  *)
(* a claimed row is in processing and has one run; an acknowledgement is   *)
(* followed by MarkSent or by nothing; and the attempts of a row tell      *)
(* whose turn it is: below the limit a worker's, at the limit an           *)
(* operator's.                                                             *)
(***************************************************************************)
QueuedOnce ==
  /\ \A i \in 1..Len(due) : status[due[i]] = "pending"
  /\ \A i, j \in 1..Len(due) : due[i] = due[j] => i = j

OperatorHasRow ==
  \A r \in Runners :
    at[r] \in {"retry", "requeue", "discard"} => on[r] \in Notifications

AckedIsOver ==
  /\ \A n \in Notifications : acked[n] <= 1
  /\ \A n \in Notifications :
       status[n] \in {"none", "pending", "failed", "discarded"} => acked[n] = 0
  /\ \A r \in Runners : \A i \in items[r] :
       acked[i.id] = 0 \/ (at[r] = "delivered" /\ on[r] = i.id)

Tried(w, i) ==
  \/ tries[i.id] <= i.attempts
  \/ /\ at[w] \in {"delivered", "refused"} /\ on[w] = i.id
     /\ tries[i.id] <= i.attempts + 1

TurnsByAttempts ==
  /\ \A n \in Notifications :
       /\ tries[n] <= MaxAttempts
       /\ status[n] = "none" => tries[n] = 0 /\ attempts[n] = 0
       /\ status[n] = "pending" => tries[n] <= attempts[n] /\ attempts[n] < MaxAttempts
       /\ status[n] = "failed" => attempts[n] >= MaxAttempts
  /\ \A w \in Workers : \A i \in items[w] : i.attempts < MaxAttempts /\ Tried(w, i)
  /\ \A a \in Admins : \A i \in items[a] : i.attempts >= MaxAttempts

OutboxInv ==
  /\ QueuedOnce /\ OperatorHasRow
  /\ ClaimsAreExclusive /\ AckedIsOver /\ TurnsByAttempts

IInv == TypeOK /\ OutboxInv

-----------------------------------------------------------------------------
(***************************************************************************)
(* The initial state                                                       *)
(***************************************************************************)
\* No row exists and nothing runs.
LEMMA InitInv == Init => IInv
<1> SUFFICES ASSUME Init PROVE IInv
  OBVIOUS
<1>1. TypeOK
  BY ConstantsAssumption DEF Init, TypeOK, Settled, Item
<1>2. Len(due) = 0
  BY DEF Init
<1>3. QueuedOnce /\ OperatorHasRow /\ ClaimsAreExclusive
  BY <1>2 DEF Init, QueuedOnce, OperatorHasRow, ClaimsAreExclusive, Runners
<1>4. AckedIsOver /\ TurnsByAttempts
  BY ConstantsAssumption DEF Init, AckedIsOver, TurnsByAttempts, Runners
<1>5. QED
  BY <1>1, <1>3, <1>4 DEF IInv, OutboxInv

-----------------------------------------------------------------------------
(***************************************************************************)
(* The queue                                                               *)
(***************************************************************************)
\* A pending row that is not queued may be appended.
LEMMA AppendQueued ==
  ASSUME TypeOK, QueuedOnce, NEW n \in Notifications, n \notin Queued,
         due' = Append(due, n), status'[n] = "pending",
         \A m \in Notifications \ {n} : status'[m] = status[m]
  PROVE  due' \in Seq(Notifications) /\ QueuedOnce'
<1>1. /\ due' \in Seq(Notifications)
      /\ Len(due') = Len(due) + 1
      /\ \A i \in 1..Len(due) : due'[i] = due[i] /\ due[i] \in Notifications
      /\ due'[Len(due) + 1] = n
      /\ Len(due) \in Nat
  BY DEF TypeOK
<1>2. \A i \in 1..Len(due) : due[i] # n
  BY DEF Queued
<1>3. \A i \in 1..Len(due') : i \in 1..Len(due) \/ i = Len(due) + 1
  BY <1>1
<1>4. QED
  BY <1>1, <1>2, <1>3 DEF QueuedOnce

\* Enqueue keeps the invariant.
LEMMA EnqueueInv ==
  ASSUME IInv, NEW n \in Notifications, Enqueue(n)
  PROVE  IInv'
<1> USE DEF IInv, OutboxInv
<1>1. n \notin Queued
  BY DEF Queued, QueuedOnce, Enqueue
<1>2. due' \in Seq(Notifications) /\ QueuedOnce'
  BY <1>1, AppendQueued DEF Enqueue, TypeOK
<1>3. TypeOK'
  BY <1>2 DEF Enqueue, TypeOK, runs
<1>4. OperatorHasRow' /\ ClaimsAreExclusive'
  BY DEF Enqueue, runs, OperatorHasRow, ClaimsAreExclusive, Holds, TypeOK, Item
<1>5. AckedIsOver'
  BY DEF Enqueue, runs, AckedIsOver, TypeOK
<1>6. TurnsByAttempts'
  BY ConstantsAssumption DEF Enqueue, runs, TurnsByAttempts, Tried, TypeOK
<1>7. QED
  BY <1>2, <1>3, <1>4, <1>5, <1>6

\* The end of a backoff keeps the invariant.
LEMMA BackoffInv ==
  ASSUME IInv, NEW n \in Notifications, BackoffElapses(n)
  PROVE  IInv'
<1> USE DEF IInv, OutboxInv
<1>1. due' \in Seq(Notifications) /\ QueuedOnce'
  BY AppendQueued DEF BackoffElapses, TypeOK, Settled
<1>2. TypeOK'
  BY <1>1 DEF BackoffElapses, TypeOK, runs
<1>3. OperatorHasRow' /\ ClaimsAreExclusive'
  BY DEF BackoffElapses, runs, OperatorHasRow, ClaimsAreExclusive, Holds
<1>4. AckedIsOver' /\ TurnsByAttempts'
  BY DEF BackoffElapses, runs, AckedIsOver, TurnsByAttempts, Tried
<1>5. QED
  BY <1>1, <1>2, <1>3, <1>4

\* Archiving keeps the invariant.
LEMMA ArchiveInv ==
  ASSUME IInv, NEW n \in Notifications, Archive(n)
  PROVE  IInv'
<1> USE DEF IInv, OutboxInv
<1>1. TypeOK'
  BY DEF Archive, TypeOK, runs, Settled
<1>2. QueuedOnce'
  BY DEF Archive, QueuedOnce, TypeOK
<1>3. OperatorHasRow' /\ ClaimsAreExclusive'
  BY DEF Archive, runs, OperatorHasRow, ClaimsAreExclusive, Holds, TypeOK, Item
<1>4. AckedIsOver' /\ TurnsByAttempts'
  BY DEF Archive, runs, AckedIsOver, TurnsByAttempts, Tried, TypeOK
<1>5. QED
  BY <1>1, <1>2, <1>3, <1>4

-----------------------------------------------------------------------------
(***************************************************************************)
(* Claims                                                                  *)
(***************************************************************************)
\* What a run holds after it has claimed a batch.
LEMMA ClaimedItems ==
  ASSUME TypeOK, NEW r \in Runners, NEW batch \in SUBSET Notifications,
         Start(r, batch)
  PROVE  /\ items' \in [Runners -> SUBSET Item]
         /\ \A i \in items'[r] : i.id \in batch /\ i.attempts = attempts[i.id]
         /\ \A q \in Runners \ {r} : items'[q] = items[q]
<1> DEFINE new == {[id |-> n, attempts |-> attempts[n]] : n \in batch}
<1>1. new \subseteq Item
  BY DEF TypeOK, Item
<1>2. \A i \in new : i.id \in batch /\ i.attempts = attempts[i.id]
  OBVIOUS
<1>3. items' = [items EXCEPT ![r] = new]
  BY DEF Start
<1> HIDE DEF new
<1>4. QED
  BY <1>1, <1>2, <1>3 DEF TypeOK

\* A run that claims rows nobody has keeps claims exclusive.
LEMMA StartInv ==
  ASSUME IInv, NEW r \in Runners, NEW batch \in SUBSET Notifications,
         Start(r, batch), UNCHANGED <<attempts, tries, acked>>,
         lock' \in Workers \cup {NoOne},
         due' \in Seq(Notifications), QueuedOnce',
         \A n \in batch :
           \/ r \in Workers /\ status[n] = "pending"
           \/ r \in Admins /\ status[n] = "failed"
  PROVE  IInv'
<1> USE DEF IInv, OutboxInv
<1>1. /\ items' \in [Runners -> SUBSET Item]
      /\ \A i \in items'[r] : i.id \in batch /\ i.attempts = attempts[i.id]
      /\ \A q \in Runners \ {r} : items'[q] = items[q]
  BY ClaimedItems
<1>2. /\ status' = [n \in Notifications |->
                      IF n \in batch THEN "processing" ELSE status[n]]
      /\ at' = [at EXCEPT ![r] = "loop"]
      /\ on' = [on EXCEPT ![r] = NoOne]
  BY DEF Start, Processing
<1>3. \A n \in batch : status[n] # "processing"
  OBVIOUS
<1>4. TypeOK'
  BY <1>1, <1>2 DEF TypeOK
<1>5. OperatorHasRow'
  BY <1>2 DEF OperatorHasRow, TypeOK
<1>6. \A q \in Runners : \A i \in items[q] : i.id \in Notifications /\ i.id \notin batch
  BY <1>3 DEF ClaimsAreExclusive, TypeOK, Item
<1>7. ClaimsAreExclusive'
  <2> SUFFICES ASSUME NEW q \in Runners, NEW i \in items'[q]
               PROVE  /\ status'[i.id] = "processing"
                      /\ attempts'[i.id] = i.attempts
                      /\ \A p \in Runners \ {q} : ~Holds(p, i.id)'
    BY DEF ClaimsAreExclusive
  <2>1. CASE q = r
    BY <2>1, <1>1, <1>2, <1>6 DEF Holds
  <2>2. CASE q # r
    BY <2>2, <1>1, <1>2, <1>6 DEF Holds, ClaimsAreExclusive
  <2>3. QED
    BY <2>1, <2>2
<1>8. AckedIsOver'
  <2>1. \A n \in batch : acked[n] = 0
    BY DEF AckedIsOver
  <2>2. \A q \in Runners \ {r} : at'[q] = at[q] /\ on'[q] = on[q]
    BY <1>2 DEF TypeOK
  <2>3. \A q \in Runners : \A i \in items'[q] :
          acked'[i.id] = 0 \/ (at'[q] = "delivered" /\ on'[q] = i.id)
    BY <1>1, <2>1, <2>2 DEF AckedIsOver
  <2>4. QED
    BY <1>2, <2>3 DEF AckedIsOver
<1>9. TurnsByAttempts'
  <2>1. \A n \in Notifications :
          /\ tries'[n] <= MaxAttempts
          /\ status'[n] = "none" => tries'[n] = 0 /\ attempts'[n] = 0
          /\ status'[n] = "pending" => tries'[n] <= attempts'[n] /\ attempts'[n] < MaxAttempts
          /\ status'[n] = "failed" => attempts'[n] >= MaxAttempts
    BY <1>2 DEF TurnsByAttempts
  <2>2. \A q \in Runners \ {r} : at'[q] = at[q] /\ on'[q] = on[q]
    BY <1>2 DEF TypeOK
  <2>3. ASSUME NEW w \in Workers, NEW i \in items'[w]
        PROVE  i.attempts < MaxAttempts /\ Tried(w, i)'
    <3>1. CASE w = r
      BY <3>1, <1>1, ConstantsAssumption DEF TurnsByAttempts, Tried
    <3>2. CASE w # r
      BY <3>2, <1>1, <2>2 DEF TurnsByAttempts, Tried, Runners
    <3>3. QED
      BY <3>1, <3>2
  <2>4. ASSUME NEW a \in Admins, NEW i \in items'[a]
        PROVE  i.attempts >= MaxAttempts
    BY <1>1, ConstantsAssumption DEF TurnsByAttempts, Runners
  <2>5. QED
    BY <2>1, <2>3, <2>4 DEF TurnsByAttempts
<1>10. QED
  BY <1>4, <1>5, <1>7, <1>8, <1>9

\* What ClaimDue takes off the queue was pending, and what it leaves still is.
LEMMA TakeOldestInv ==
  ASSUME TypeOK, QueuedOnce, NEW batch \in SUBSET Notifications, TakeOldest(batch),
         status' = Processing(batch)
  PROVE  /\ \A n \in batch : status[n] = "pending"
         /\ due' \in Seq(Notifications)
         /\ QueuedOnce'
<1>1. Len(due) \in Nat /\ Claimable \in Nat /\ Claimable <= Len(due)
  BY ConstantsAssumption DEF TypeOK, Claimable
<1>2. \A n \in batch : status[n] = "pending"
  BY <1>1 DEF TakeOldest, QueuedOnce
<1>3. /\ due' \in Seq(Notifications)
      /\ Len(due') = Len(due) - Claimable
      /\ \A i \in 1..Len(due') :
           due'[i] = due[i + Claimable] /\ i + Claimable \in 1..Len(due)
  <2> DEFINE first == Claimable + 1
             last == Len(due)
  <2>1. first \in Int /\ last \in Int /\ \A i \in first..last : due[i] \in Notifications
    BY <1>1 DEF TypeOK
  <2>2. /\ SubSeq(due, first, last) \in Seq(Notifications)
        /\ Len(SubSeq(due, first, last)) = IF first <= last THEN last - first + 1 ELSE 0
        /\ \A i \in 1..last - first + 1 : SubSeq(due, first, last)[i] = due[first + i - 1]
    <3> HIDE DEF first, last
    <3>1. QED
      BY <2>1, SubSeqProperties
  <2>3. due' = SubSeq(due, first, last)
    BY DEF TakeOldest
  <2>4. Len(due') = Len(due) - Claimable
    BY <1>1, <2>2, <2>3
  <2>5. \A i \in 1..Len(due') : first + i - 1 = i + Claimable
                             /\ i + Claimable \in 1..Len(due)
    BY <1>1, <2>4
  <2>6. QED
    BY <1>1, <2>2, <2>3, <2>4, <2>5
<1>4. \A i \in 1..Len(due') : due'[i] \in Notifications /\ due'[i] \notin batch
  <2> SUFFICES ASSUME NEW i \in 1..Len(due')
               PROVE  due'[i] \in Notifications /\ due'[i] \notin batch
    OBVIOUS
  <2>1. /\ due'[i] = due[i + Claimable]
        /\ i + Claimable \in 1..Len(due)
        /\ i + Claimable > Claimable
    BY <1>1, <1>3
  <2>2. \A j \in 1..Claimable : j \in 1..Len(due) /\ j # i + Claimable
    BY <1>1, <2>1
  <2>3. due[i + Claimable] \notin batch
    BY <2>1, <2>2 DEF TakeOldest, QueuedOnce
  <2>4. due[i + Claimable] \in Notifications
    BY <2>1 DEF TypeOK
  <2>5. QED
    BY <2>1, <2>3, <2>4
<1>5. \A i \in 1..Len(due') : status'[due'[i]] = "pending"
  <2> SUFFICES ASSUME NEW i \in 1..Len(due') PROVE status'[due'[i]] = "pending"
    OBVIOUS
  <2>1. status[due'[i]] = "pending"
    BY <1>3 DEF QueuedOnce
  <2>2. QED
    BY <2>1, <1>4 DEF Processing
<1>6. \A i, j \in 1..Len(due') : due'[i] = due'[j] => i = j
  <2> SUFFICES ASSUME NEW i \in 1..Len(due'), NEW j \in 1..Len(due'),
                      due'[i] = due'[j]
               PROVE  i = j
    OBVIOUS
  <2>1. i + Claimable = j + Claimable
    BY <1>3 DEF QueuedOnce
  <2>2. QED
    BY <2>1, <1>1, <1>3
<1>7. QED
  BY <1>2, <1>3, <1>5, <1>6 DEF QueuedOnce

\* A claim whose answer was lost: the rows are in processing and nobody has them.
LEMMA LostClaimInv ==
  ASSUME IInv, NEW batch \in SUBSET Notifications, status' = Processing(batch),
         \A n \in batch : status[n] = "pending",
         due' \in Seq(Notifications), QueuedOnce',
         UNCHANGED <<attempts, runs, tries, acked>>
  PROVE  IInv'
<1> USE DEF IInv, OutboxInv
<1>1. TypeOK' /\ OperatorHasRow'
  BY DEF TypeOK, OperatorHasRow, Processing, runs
<1>2. ClaimsAreExclusive'
  BY DEF ClaimsAreExclusive, Holds, Processing, runs, TypeOK, Item
<1>3. AckedIsOver'
  BY DEF AckedIsOver, Processing, runs
<1>4. TurnsByAttempts'
  BY DEF TurnsByAttempts, Tried, Processing, runs
<1>5. QED
  BY <1>1, <1>2, <1>3, <1>4

\* A scheduler pass keeps the invariant.
LEMMA ProcessOutboxInv ==
  ASSUME IInv, NEW w \in Workers, ProcessOutbox(w)
  PROVE  IInv'
<1>1. PICK batch \in SUBSET Notifications :
        /\ TakeOldest(batch)
        /\ \/ Start(w, batch) /\ lock' = w
           \/ status' = Processing(batch) /\ UNCHANGED runs
  BY DEF ProcessOutbox, ClaimDue
<1>2. status' = Processing(batch)
  BY <1>1 DEF Start
<1>3. /\ \A n \in batch : status[n] = "pending"
      /\ due' \in Seq(Notifications)
      /\ QueuedOnce'
  BY <1>1, <1>2, TakeOldestInv DEF IInv, OutboxInv
<1>4. UNCHANGED <<attempts, tries, acked>>
  BY DEF ProcessOutbox
<1>5. CASE Start(w, batch) /\ lock' = w
  BY <1>3, <1>4, <1>5, StartInv DEF Runners
<1>6. CASE UNCHANGED runs
  BY <1>2, <1>3, <1>4, <1>6, LostClaimInv
<1>7. QED
  BY <1>1, <1>5, <1>6

\* The claim of an operator's retry keeps the invariant.
LEMMA AdminClaimInv ==
  ASSUME IInv, NEW a \in Admins, NEW batch \in SUBSET Notifications,
         \A n \in batch : status[n] = "failed",
         Start(a, batch), UNCHANGED <<attempts, due, lock, tries, acked>>
  PROVE  IInv'
<1>1. due' \in Seq(Notifications) /\ lock' \in Workers \cup {NoOne}
  BY DEF IInv, TypeOK
<1>2. QueuedOnce'
  BY DEF IInv, OutboxInv, TypeOK, QueuedOnce, Start, Processing
<1>3. QED
  BY <1>1, <1>2, StartInv DEF Runners

-----------------------------------------------------------------------------
(***************************************************************************)
(* Runs                                                                    *)
(***************************************************************************)
\* A run that returns holds nothing.
LEMMA Returned ==
  ASSUME TypeOK, NEW r \in Runners, Return(r)
  PROVE  /\ items' \in [Runners -> SUBSET Item] /\ items'[r] = {}
         /\ at' \in [Runners -> {"idle", "retry", "requeue", "discard",
                                 "loop", "delivered", "refused"}]
         /\ on' \in [Runners -> Notifications \cup {NoOne}]
         /\ lock' \in Workers \cup {NoOne}
         /\ at'[r] = "idle"
         /\ \A q \in Runners \ {r} :
              items'[q] = items[q] /\ at'[q] = at[q] /\ on'[q] = on[q]
  BY DEF TypeOK, Return, Unlock

\* A run that has marked a row holds it no more.
LEMMA Continued ==
  ASSUME TypeOK, NEW r \in Runners, NEW i, Continue(r, i)
  PROVE  /\ items' \in [Runners -> SUBSET Item]
         /\ items'[r] \subseteq items[r] \ {i}
         /\ at' \in [Runners -> {"idle", "retry", "requeue", "discard",
                                 "loop", "delivered", "refused"}]
         /\ on' \in [Runners -> Notifications \cup {NoOne}]
         /\ lock' \in Workers \cup {NoOne}
         /\ at'[r] \in {"idle", "loop"}
         /\ \A q \in Runners \ {r} :
              items'[q] = items[q] /\ at'[q] = at[q] /\ on'[q] = on[q]
<1>1. CASE Return(r)
  BY <1>1, Returned
<1>2. CASE /\ at' = [at EXCEPT ![r] = "loop"]
           /\ on' = [on EXCEPT ![r] = NoOne]
           /\ items' = [items EXCEPT ![r] = @ \ {i}]
           /\ UNCHANGED lock
  BY <1>2 DEF TypeOK
<1>3. QED
  BY <1>1, <1>2 DEF Continue

\* Giving up what is held keeps the invariant: interrupted and finished runs.
LEMMA ReturnInv ==
  ASSUME IInv, NEW r \in Runners, Return(r), UNCHANGED <<rows, tries, acked>>
  PROVE  IInv'
<1> USE DEF IInv, OutboxInv, rows
<1>1. TypeOK'
  BY Returned DEF TypeOK
<1>2. QueuedOnce' /\ OperatorHasRow'
  BY Returned DEF QueuedOnce, OperatorHasRow
<1>3. ClaimsAreExclusive'
  BY Returned DEF ClaimsAreExclusive, Holds
<1>4. AckedIsOver'
  BY Returned DEF AckedIsOver
<1>5. TurnsByAttempts'
  BY Returned DEF TurnsByAttempts, Tried, Runners
<1>6. QED
  BY <1>1, <1>2, <1>3, <1>4, <1>5

\* A delivery keeps the invariant.
LEMMA DeliverInv ==
  ASSUME IInv, NEW r \in Runners, deliverOutboxItem(r)
  PROVE  IInv'
<1> USE DEF IInv, OutboxInv, rows
<1>1. PICK i \in items[r] :
        /\ on' = [on EXCEPT ![r] = i.id]
        /\ tries' = [tries EXCEPT ![i.id] = IF r \in Workers THEN @ + 1 ELSE @]
        /\ \/ /\ at' = [at EXCEPT ![r] = "delivered"]
              /\ acked' = [acked EXCEPT ![i.id] = @ + 1]
           \/ at' = [at EXCEPT ![r] = "delivered"] /\ UNCHANGED acked
           \/ at' = [at EXCEPT ![r] = "refused"] /\ UNCHANGED acked
  BY DEF deliverOutboxItem
<1>2. /\ UNCHANGED <<status, attempts, due, lock, items>>
      /\ at[r] = "loop"
  BY DEF deliverOutboxItem
<1>3. /\ i.id \in Notifications /\ i.attempts \in Nat
      /\ status[i.id] = "processing"
      /\ \A q \in Runners \ {r} : \A j \in items[q] : j.id # i.id
      /\ \A j \in items[r] : j.id = i.id => j.attempts = i.attempts
  BY DEF TypeOK, Item, ClaimsAreExclusive, Holds
<1>4. /\ \A q \in Runners \ {r} : at'[q] = at[q] /\ on'[q] = on[q]
      /\ on'[r] = i.id /\ at'[r] \in {"delivered", "refused"}
  BY <1>1 DEF TypeOK
<1>5. TypeOK'
  <2>1. tries' \in [Notifications -> Nat] /\ acked' \in [Notifications -> Nat]
    <3>1. tries[i.id] + 1 \in Nat /\ acked[i.id] + 1 \in Nat
      BY <1>3 DEF TypeOK
    <3>2. acked' \in [Notifications -> Nat]
      BY <1>1, <3>1 DEF TypeOK
    <3>3. tries' \in [Notifications -> Nat]
      BY <1>1, <3>1 DEF TypeOK
    <3>4. QED
      BY <3>2, <3>3
  <2>2. on' \in [Runners -> Notifications \cup {NoOne}]
    BY <1>1, <1>3 DEF TypeOK
  <2>3. QED
    BY <1>1, <1>2, <2>1, <2>2 DEF TypeOK
<1>6. QueuedOnce' /\ OperatorHasRow'
  BY <1>2, <1>4 DEF QueuedOnce, OperatorHasRow
<1>7. ClaimsAreExclusive'
  BY <1>2 DEF ClaimsAreExclusive, Holds
<1>8. AckedIsOver'
  <2>1. acked[i.id] = 0
    BY <1>2 DEF AckedIsOver
  <2>2. /\ acked'[i.id] = 0 \/ (acked'[i.id] = 1 /\ at'[r] = "delivered")
        /\ \A n \in Notifications \ {i.id} : acked'[n] = acked[n]
    BY <1>1, <1>3, <2>1 DEF TypeOK
  <2>3. \A q \in Runners : \A j \in items[q] :
          acked'[j.id] = 0 \/ (at'[q] = "delivered" /\ on'[q] = j.id)
    <3> SUFFICES ASSUME NEW q \in Runners, NEW j \in items[q]
                 PROVE  acked'[j.id] = 0 \/ (at'[q] = "delivered" /\ on'[q] = j.id)
      OBVIOUS
    <3>1. j.id \in Notifications
      BY DEF TypeOK, Item
    <3>2. CASE q = r
      BY <3>1, <3>2, <1>2, <1>4, <2>2 DEF AckedIsOver
    <3>3. CASE q # r
      BY <3>1, <3>3, <1>3, <1>4, <2>2 DEF AckedIsOver
    <3>4. QED
      BY <3>2, <3>3
  <2>4. QED
    BY <1>2, <1>3, <2>2, <2>3 DEF AckedIsOver
<1>9. TurnsByAttempts'
  <2>1. /\ \A n \in Notifications \ {i.id} : tries'[n] = tries[n]
        /\ tries'[i.id] = IF r \in Workers THEN tries[i.id] + 1 ELSE tries[i.id]
    BY <1>1, <1>3 DEF TypeOK
  <2>2. r \in Workers => tries[i.id] <= i.attempts /\ i.attempts < MaxAttempts
    BY <1>2 DEF TurnsByAttempts, Tried
  <2>3. tries[i.id] \in Nat
    BY <1>3 DEF TypeOK
  <2>4. tries'[i.id] <= MaxAttempts
    BY <1>3, <2>1, <2>2, <2>3, ConstantsAssumption DEF TurnsByAttempts
  <2>5. ASSUME NEW w \in Workers, NEW j \in items[w]
        PROVE  j.attempts < MaxAttempts /\ Tried(w, j)'
    <3>1. j.id \in Notifications
      BY DEF TypeOK, Item, Runners
    <3>2. CASE j.id = i.id
      <4>1. w = r /\ j.attempts = i.attempts
        BY <3>2, <1>3 DEF Runners
      <4>2. QED
        BY <3>2, <4>1, <1>3, <1>4, <2>1, <2>2, <2>3 DEF Tried
    <3>3. CASE j.id # i.id
      BY <3>1, <3>3, <1>2, <1>4, <2>1 DEF TurnsByAttempts, Tried, Runners
    <3>4. QED
      BY <3>2, <3>3
  <2>6. ASSUME NEW n \in Notifications
        PROVE  /\ tries'[n] <= MaxAttempts
               /\ status'[n] = "none" => tries'[n] = 0 /\ attempts'[n] = 0
               /\ status'[n] = "pending" =>
                    tries'[n] <= attempts'[n] /\ attempts'[n] < MaxAttempts
               /\ status'[n] = "failed" => attempts'[n] >= MaxAttempts
    BY <1>2, <1>3, <2>1, <2>4 DEF TurnsByAttempts
  <2>7. \A a \in Admins : \A j \in items'[a] : j.attempts >= MaxAttempts
    BY <1>2 DEF TurnsByAttempts
  <2>8. QED
    BY <1>2, <2>5, <2>6, <2>7 DEF TurnsByAttempts
<1>10. QED
  BY <1>5, <1>6, <1>7, <1>8, <1>9

\* What a run about to mark a row knows of it.
LEMMA MarkedRow ==
  ASSUME IInv, NEW r \in Runners, NEW i \in items[r], Continue(r, i)
  PROVE  /\ i.id \in Notifications /\ i.attempts \in Nat
         /\ status[i.id] = "processing" /\ attempts[i.id] = i.attempts
         /\ \A q \in Runners : \A j \in items'[q] : j \in items[q] /\ j.id # i.id
<1> USE DEF IInv, OutboxInv
<1>1. /\ i.id \in Notifications /\ i.attempts \in Nat
      /\ status[i.id] = "processing" /\ attempts[i.id] = i.attempts
  BY DEF TypeOK, Item, ClaimsAreExclusive
<1>2. \A j \in items[r] : j.id = i.id => j = i
  <2> SUFFICES ASSUME NEW j \in items[r], j.id = i.id PROVE j = i
    OBVIOUS
  <2>1. i \in Item /\ j \in Item
    BY DEF TypeOK
  <2>2. i.attempts = j.attempts
    BY DEF ClaimsAreExclusive
  <2>3. QED
    BY <2>1, <2>2 DEF Item
<1>3. \A j \in items'[r] : j \in items[r] /\ j.id # i.id
  BY <1>2, Continued
<1>4. \A q \in Runners \ {r} : \A j \in items'[q] : j \in items[q] /\ j.id # i.id
  BY Continued DEF ClaimsAreExclusive, Holds
<1>5. QED
  BY <1>1, <1>3, <1>4

\* A mark that leaves every other row alone keeps the invariant, if the marked
\* row is left as its new status requires.
LEMMA MarkInv ==
  ASSUME IInv, NEW r \in Runners, NEW i \in items[r], i.id = on[r], Continue(r, i),
         NEW s \in {"sent", "pending", "failed"},
         NEW k \in Nat,
         status' = [status EXCEPT ![i.id] = s],
         attempts' = [attempts EXCEPT ![i.id] = k],
         UNCHANGED <<due, tries, acked>>,
         s # "sent" => acked[i.id] = 0,
         s = "pending" => tries[i.id] <= k /\ k < MaxAttempts,
         s = "failed" => k >= MaxAttempts
  PROVE  IInv'
<1> USE DEF IInv, OutboxInv
<1>1. /\ i.id \in Notifications /\ i.attempts \in Nat
      /\ status[i.id] = "processing" /\ attempts[i.id] = i.attempts
      /\ \A q \in Runners : \A j \in items'[q] : j \in items[q] /\ j.id # i.id
  BY MarkedRow
<1>2. /\ status'[i.id] = s /\ attempts'[i.id] = k
      /\ \A n \in Notifications \ {i.id} :
           status'[n] = status[n] /\ attempts'[n] = attempts[n]
  BY <1>1 DEF TypeOK
<1>3. TypeOK'
  <2>1. status' \in [Notifications -> {"none", "pending", "processing"} \cup Settled]
    BY <1>1 DEF TypeOK, Settled
  <2>2. attempts' \in [Notifications -> Nat]
    BY <1>1 DEF TypeOK
  <2>3. QED
    BY <2>1, <2>2, Continued DEF TypeOK
<1>4. QueuedOnce'
  <2>1. \A j \in 1..Len(due) : due[j] \in Notifications \ {i.id}
    BY <1>1 DEF QueuedOnce, TypeOK
  <2>2. QED
    BY <1>2, <2>1 DEF QueuedOnce
<1>5. OperatorHasRow'
  BY Continued DEF OperatorHasRow
<1>6. \A q \in Runners : \A j \in items'[q] : j.id \in Notifications
  BY <1>1 DEF TypeOK, Item
<1>7. ClaimsAreExclusive'
  <2> SUFFICES ASSUME NEW q \in Runners, NEW j \in items'[q]
               PROVE  /\ status'[j.id] = "processing"
                      /\ attempts'[j.id] = j.attempts
                      /\ \A p \in Runners \ {q} : ~Holds(p, j.id)'
    BY DEF ClaimsAreExclusive
  <2>1. status'[j.id] = "processing" /\ attempts'[j.id] = j.attempts
    BY <1>1, <1>2, <1>6 DEF ClaimsAreExclusive
  <2>2. \A p \in Runners \ {q} : \A m \in items'[p] : m.id # j.id
    BY <1>1 DEF ClaimsAreExclusive, Holds
  <2>3. QED
    BY <2>1, <2>2 DEF Holds
<1>8. \A q \in Runners \ {r} : at'[q] = at[q] /\ on'[q] = on[q]
  BY Continued
<1>9. AckedIsOver'
  <2>1. \A q \in Runners : \A j \in items'[q] :
          acked[j.id] = 0 \/ (at'[q] = "delivered" /\ on'[q] = j.id)
    BY <1>1, <1>8 DEF AckedIsOver
  <2>2. \A n \in Notifications :
          status'[n] \in {"none", "pending", "failed", "discarded"} => acked[n] = 0
    BY <1>2 DEF AckedIsOver
  <2>3. QED
    BY <2>1, <2>2 DEF AckedIsOver
<1>10. TurnsByAttempts'
  <2>1. ASSUME NEW n \in Notifications
        PROVE  /\ tries'[n] <= MaxAttempts
               /\ status'[n] = "none" => tries'[n] = 0 /\ attempts'[n] = 0
               /\ status'[n] = "pending" =>
                    tries'[n] <= attempts'[n] /\ attempts'[n] < MaxAttempts
               /\ status'[n] = "failed" => attempts'[n] >= MaxAttempts
    BY <1>2 DEF TurnsByAttempts
  <2>2. ASSUME NEW w \in Workers, NEW j \in items'[w]
        PROVE  j.attempts < MaxAttempts /\ Tried(w, j)'
    BY <1>1, <1>8 DEF TurnsByAttempts, Tried, Runners
  <2>3. \A a \in Admins : \A j \in items'[a] : j.attempts >= MaxAttempts
    BY <1>1 DEF TurnsByAttempts, Runners
  <2>4. QED
    BY <2>1, <2>2, <2>3 DEF TurnsByAttempts
<1>11. QED
  BY <1>3, <1>4, <1>5, <1>7, <1>9, <1>10

\* MarkSent keeps the invariant.
LEMMA MarkSentInv ==
  ASSUME IInv, NEW r \in Runners, MarkSent(r)
  PROVE  IInv'
<1>1. PICK i \in items[r] :
        /\ i.id = on[r]
        /\ status' = [status EXCEPT ![i.id] = "sent"]
        /\ Continue(r, i)
  BY DEF MarkSent
<1>2. UNCHANGED <<attempts, due, tries, acked>>
  BY DEF MarkSent
<1>3. attempts' = [attempts EXCEPT ![i.id] = attempts[i.id]] /\ attempts[i.id] \in Nat
  BY <1>1, <1>2, MarkedRow DEF IInv, TypeOK
<1>4. QED
  BY <1>1, <1>2, <1>3, MarkInv

\* MarkRetry and MarkFailed keep the invariant.
LEMMA MarkUndeliveredInv ==
  ASSUME IInv, NEW r \in Runners, MarkUndelivered(r)
  PROVE  IInv'
<1>1. PICK i \in items[r] :
        /\ i.id = on[r]
        /\ status' = [status EXCEPT ![i.id] =
                        IF Exhausted(i.attempts) THEN "failed" ELSE "pending"]
        /\ CountAttempt(i.id)
        /\ Continue(r, i)
  BY DEF MarkUndelivered
<1>2. UNCHANGED <<due, tries, acked>> /\ at[r] = "refused"
  BY DEF MarkUndelivered
<1>3. /\ i.id \in Notifications /\ i.attempts \in Nat
      /\ attempts[i.id] = i.attempts
  BY <1>1, MarkedRow
<1> DEFINE k == i.attempts + 1
           s == IF Exhausted(i.attempts) THEN "failed" ELSE "pending"
<1>4. attempts' = [attempts EXCEPT ![i.id] = k]
  BY <1>1, <1>3 DEF CountAttempt
<1>5. acked[i.id] = 0
  BY <1>2 DEF IInv, OutboxInv, AckedIsOver
<1>6. s = "failed" => k >= MaxAttempts
  BY <1>3, ConstantsAssumption DEF Exhausted
<1>7. s = "pending" => tries[i.id] <= k /\ k < MaxAttempts
  <2>1. CASE r \in Workers
    <3>1. Tried(r, i)
      BY <2>1 DEF IInv, OutboxInv, TurnsByAttempts
    <3>2. tries[i.id] \in Nat
      BY <1>3 DEF IInv, TypeOK
    <3>3. QED
      BY <1>3, <3>1, <3>2, ConstantsAssumption DEF Tried, Exhausted
  <2>2. CASE r \in Admins
    <3>1. i.attempts >= MaxAttempts
      BY <2>2 DEF IInv, OutboxInv, TurnsByAttempts
    <3>2. QED
      BY <1>3, <3>1, ConstantsAssumption DEF Exhausted
  <2>3. QED
    BY <2>1, <2>2 DEF Runners
<1>8. s \in {"sent", "pending", "failed"} /\ k \in Nat
  BY <1>3
<1>9. status' = [status EXCEPT ![i.id] = s]
  BY <1>1
<1> HIDE DEF k, s
<1>10. QED
  BY <1>1, <1>2, <1>4, <1>5, <1>6, <1>7, <1>8, <1>9, MarkInv

-----------------------------------------------------------------------------
(***************************************************************************)
(* Operators                                                               *)
(***************************************************************************)
\* Reading a row changes nothing of the outbox.
LEMMA GetByIDInv ==
  ASSUME IInv, NEW a \in Admins, NEW n \in Notifications,
         NEW op \in {"retry", "requeue", "discard"}, GetByID(a, op, n)
  PROVE  IInv'
<1> USE DEF IInv, OutboxInv, GetByID, rows
<1>1. a \in Runners
  BY DEF Runners
<1>2. TypeOK'
  BY <1>1 DEF TypeOK
<1>3. QueuedOnce' /\ OperatorHasRow'
  BY <1>1 DEF QueuedOnce, OperatorHasRow, TypeOK
<1>4. ClaimsAreExclusive'
  BY DEF ClaimsAreExclusive, Holds
<1>5. /\ \A r \in Runners \ {a} : at'[r] = at[r] /\ on'[r] = on[r]
      /\ \A i \in items[a] : acked[i.id] = 0
      /\ a \notin Workers
  BY <1>1, ConstantsAssumption DEF TypeOK, AckedIsOver
<1>6. AckedIsOver'
  BY <1>5 DEF AckedIsOver
<1>7. TurnsByAttempts'
  BY <1>5 DEF TurnsByAttempts, Tried, Runners
<1>8. QED
  BY <1>2, <1>3, <1>4, <1>6, <1>7

\* RetryFailure claims the row it read, or returns.
LEMMA RetryFailureInv ==
  ASSUME IInv, NEW a \in Admins, RetryFailure(a)
  PROVE  IInv'
<1>1. a \in Runners /\ on[a] \in Notifications
  BY DEF RetryFailure, Runners, IInv, OutboxInv, OperatorHasRow
<1>2. CASE status[on[a]] = "failed" /\ attempts[on[a]] < AttemptBound
  <2>1. Start(a, {on[a]}) /\ UNCHANGED <<attempts, due, lock, tries, acked>>
    BY <1>2 DEF RetryFailure
  <2>2. {on[a]} \in SUBSET Notifications /\ \A n \in {on[a]} : status[n] = "failed"
    BY <1>1, <1>2
  <2>3. QED
    BY <2>1, <2>2, AdminClaimInv
<1>3. CASE ~(status[on[a]] = "failed" /\ attempts[on[a]] < AttemptBound)
  BY <1>1, <1>3, ReturnInv DEF RetryFailure, rows
<1>4. QED
  BY <1>2, <1>3

\* RetryFailures claims failed rows.
LEMMA RetryFailuresInv ==
  ASSUME IInv, NEW a \in Admins, RetryFailures(a)
  PROVE  IInv'
<1>1. PICK batch \in SUBSET {n \in Notifications :
                              status[n] = "failed" /\ attempts[n] < AttemptBound} :
        Start(a, batch)
  BY DEF RetryFailures
<1>2. batch \in SUBSET Notifications /\ \A n \in batch : status[n] = "failed"
  OBVIOUS
<1>3. UNCHANGED <<attempts, due, lock, tries, acked>>
  BY DEF RetryFailures
<1>4. QED
  BY <1>1, <1>2, <1>3, AdminClaimInv

\* Requeueing a failed row keeps the invariant.
LEMMA RequeueFailureInv ==
  ASSUME IInv, NEW a \in Admins, RequeueFailure(a)
  PROVE  IInv'
<1>1. a \in Runners /\ on[a] \in Notifications
  BY DEF RequeueFailure, Runners, IInv, OutboxInv, OperatorHasRow
<1>2. PICK n \in Notifications : n = on[a]
  BY <1>1
<1>3. Return(a) /\ UNCHANGED acked
  BY DEF RequeueFailure
<1>4. CASE status[n] # "failed"
  BY <1>1, <1>2, <1>3, <1>4, ReturnInv DEF RequeueFailure, RequeueFailed, rows
<1>5. CASE status[n] = "failed"
  <2> USE DEF IInv, OutboxInv
  <2>1. /\ status' = [status EXCEPT ![n] = "pending"]
        /\ attempts' = [attempts EXCEPT ![n] = 0]
        /\ due' = Append(due, n)
        /\ tries' = [tries EXCEPT ![n] = 0]
    BY <1>2, <1>5 DEF RequeueFailure, RequeueFailed
  <2>2. n \notin Queued
    BY <1>5 DEF Queued, QueuedOnce
  <2>3. due' \in Seq(Notifications) /\ QueuedOnce'
    BY <2>1, <2>2, AppendQueued DEF TypeOK
  <2>4. TypeOK'
    BY <1>1, <1>3, <2>1, <2>3, Returned DEF TypeOK
  <2>5. OperatorHasRow'
    BY <1>1, <1>3, Returned DEF OperatorHasRow
  <2>6. \A q \in Runners : \A i \in items'[q] :
          /\ i \in items[q] /\ at'[q] = at[q] /\ on'[q] = on[q]
          /\ i.id \in Notifications /\ i.id # n
    BY <1>1, <1>3, <1>5, Returned DEF ClaimsAreExclusive, TypeOK, Item
  <2>7. \A m \in Notifications \ {n} :
          status'[m] = status[m] /\ attempts'[m] = attempts[m] /\ tries'[m] = tries[m]
    BY <2>1 DEF TypeOK
  <2>8. status'[n] = "pending" /\ attempts'[n] = 0 /\ tries'[n] = 0
    BY <2>1 DEF TypeOK
  <2>9. ClaimsAreExclusive'
    <3>1. \A q \in Runners : \A i \in items'[q] :
            /\ status'[i.id] = "processing" /\ attempts'[i.id] = i.attempts
            /\ \A p \in Runners \ {q} : \A j \in items'[p] : j.id # i.id
      BY <2>6, <2>7 DEF ClaimsAreExclusive, Holds
    <3>2. QED
      BY <3>1 DEF ClaimsAreExclusive, Holds
  <2>10. AckedIsOver'
    BY <1>3, <1>5, <2>6, <2>7, <2>8 DEF AckedIsOver
  <2>11. TurnsByAttempts'
    <3>1. \A w \in Workers : \A i \in items'[w] : i.attempts < MaxAttempts /\ Tried(w, i)'
      BY <2>6, <2>7 DEF TurnsByAttempts, Tried, Runners
    <3>2. \A b \in Admins : \A i \in items'[b] : i.attempts >= MaxAttempts
      BY <2>6 DEF TurnsByAttempts, Runners
    <3>3. QED
      BY <2>7, <2>8, <3>1, <3>2, ConstantsAssumption DEF TurnsByAttempts
  <2>12. QED
    BY <2>3, <2>4, <2>5, <2>9, <2>10, <2>11
<1>6. QED
  BY <1>4, <1>5

\* Discarding a failed row keeps the invariant.
LEMMA DiscardFailureInv ==
  ASSUME IInv, NEW a \in Admins, DiscardFailure(a)
  PROVE  IInv'
<1>1. a \in Runners /\ on[a] \in Notifications
  BY DEF DiscardFailure, Runners, IInv, OutboxInv, OperatorHasRow
<1>2. PICK n \in Notifications : n = on[a]
  BY <1>1
<1>3. Return(a) /\ UNCHANGED <<attempts, due, tries, acked>>
  BY DEF DiscardFailure
<1>4. CASE status[n] # "failed"
  BY <1>1, <1>2, <1>3, <1>4, ReturnInv DEF DiscardFailure, MarkDiscarded, rows
<1>5. CASE status[n] = "failed"
  <2> USE DEF IInv, OutboxInv
  <2>1. status' = [status EXCEPT ![n] = "discarded"]
    BY <1>2, <1>5 DEF DiscardFailure, MarkDiscarded
  <2>2. /\ status'[n] = "discarded"
        /\ \A m \in Notifications \ {n} : status'[m] = status[m]
    BY <2>1 DEF TypeOK
  <2>3. TypeOK'
    BY <1>1, <1>3, <2>1, Returned DEF TypeOK, Settled
  <2>4. QueuedOnce' /\ OperatorHasRow'
    <3>1. \A j \in 1..Len(due) : due[j] \in Notifications \ {n}
      BY <1>5 DEF QueuedOnce, TypeOK
    <3>2. QueuedOnce'
      BY <1>3, <2>2, <3>1 DEF QueuedOnce
    <3>3. OperatorHasRow'
      BY <1>1, <1>3, Returned DEF OperatorHasRow
    <3>4. QED
      BY <3>2, <3>3
  <2>5. \A q \in Runners : \A i \in items'[q] :
          /\ i \in items[q] /\ at'[q] = at[q] /\ on'[q] = on[q]
          /\ i.id \in Notifications /\ i.id # n
    BY <1>1, <1>3, <1>5, Returned DEF ClaimsAreExclusive, TypeOK, Item
  <2>6. ClaimsAreExclusive'
    <3>1. \A q \in Runners : \A i \in items'[q] :
            /\ status'[i.id] = "processing" /\ attempts'[i.id] = i.attempts
            /\ \A p \in Runners \ {q} : \A j \in items'[p] : j.id # i.id
      BY <1>3, <2>2, <2>5 DEF ClaimsAreExclusive, Holds
    <3>2. QED
      BY <3>1 DEF ClaimsAreExclusive, Holds
  <2>7. AckedIsOver'
    BY <1>3, <1>5, <2>2, <2>5 DEF AckedIsOver
  <2>8. TurnsByAttempts'
    <3>1. \A w \in Workers : \A i \in items'[w] : i.attempts < MaxAttempts /\ Tried(w, i)'
      BY <1>3, <2>5 DEF TurnsByAttempts, Tried, Runners
    <3>2. \A b \in Admins : \A i \in items'[b] : i.attempts >= MaxAttempts
      BY <2>5 DEF TurnsByAttempts, Runners
    <3>3. QED
      BY <1>3, <2>2, <3>1, <3>2 DEF TurnsByAttempts
  <2>9. QED
    BY <2>3, <2>4, <2>6, <2>7, <2>8
<1>6. QED
  BY <1>4, <1>5

\* Losing the scheduler's lock keeps the invariant: nothing rests on it.
LEMMA LoseLockInv ==
  ASSUME IInv, LoseLock
  PROVE  IInv'
<1> USE DEF IInv, OutboxInv, LoseLock, rows
<1>1. TypeOK' /\ QueuedOnce' /\ OperatorHasRow'
  BY DEF TypeOK, QueuedOnce, OperatorHasRow
<1>2. ClaimsAreExclusive' /\ AckedIsOver' /\ TurnsByAttempts'
  BY DEF ClaimsAreExclusive, Holds, AckedIsOver, TurnsByAttempts, Tried
<1>3. QED
  BY <1>1, <1>2

-----------------------------------------------------------------------------
(***************************************************************************)
(* Theorems                                                                *)
(***************************************************************************)
\* Every step keeps the inductive invariant.
LEMMA StepInv == IInv /\ [Next]_vars => IInv'
<1> SUFFICES ASSUME IInv, [Next]_vars PROVE IInv'
  OBVIOUS
<1>1. CASE UNCHANGED vars
  <2> USE <1>1 DEF IInv, OutboxInv, vars, rows, runs
  <2>1. TypeOK' /\ QueuedOnce' /\ OperatorHasRow'
    BY DEF TypeOK, QueuedOnce, OperatorHasRow
  <2>2. ClaimsAreExclusive' /\ AckedIsOver' /\ TurnsByAttempts'
    BY DEF ClaimsAreExclusive, Holds, AckedIsOver, TurnsByAttempts, Tried
  <2>3. QED
    BY <2>1, <2>2
<1>2. CASE \E n \in Notifications : Enqueue(n) \/ BackoffElapses(n) \/ Archive(n)
  BY <1>2, EnqueueInv, BackoffInv, ArchiveInv
<1>3. CASE \E w \in Workers : ProcessOutbox(w)
  BY <1>3, ProcessOutboxInv
<1>4. CASE \E r \in Runners : Step(r) \/ Interrupt(r)
  <2>1. PICK r \in Runners : Step(r) \/ Interrupt(r)
    BY <1>4
  <2>2. CASE deliverOutboxItem(r)
    BY <2>2, DeliverInv
  <2>3. CASE MarkSent(r)
    BY <2>3, MarkSentInv
  <2>4. CASE MarkUndelivered(r)
    BY <2>4, MarkUndeliveredInv
  <2>5. CASE Finish(r) \/ Interrupt(r)
    BY <2>5, ReturnInv DEF Finish, Interrupt
  <2>6. QED
    BY <2>1, <2>2, <2>3, <2>4, <2>5 DEF Step
<1>5. CASE \E a \in Admins, n \in Notifications, op \in {"retry", "requeue", "discard"} :
             GetByID(a, op, n)
  BY <1>5, GetByIDInv
<1>6. CASE \E a \in Admins : RetryFailure(a) \/ RetryFailures(a)
  BY <1>6, RetryFailureInv, RetryFailuresInv
<1>7. CASE \E a \in Admins : RequeueFailure(a) \/ DiscardFailure(a)
  BY <1>7, RequeueFailureInv, DiscardFailureInv
<1>8. CASE LoseLock
  BY <1>8, LoseLockInv
<1>9. QED
  BY <1>1, <1>2, <1>3, <1>4, <1>5, <1>6, <1>7, <1>8 DEF Next

\* The inductive invariant holds throughout every behaviour of the outbox.
THEOREM Invariance == Spec => []IInv
  BY InitInv, StepInv, PTL DEF Spec

\* The outbox rows, the queue and the runs keep their types.
THEOREM TypeCorrect == Spec => []TypeOK
<1>1. IInv => TypeOK
  BY DEF IInv
<1>2. QED
  BY Invariance, <1>1, PTL

\* A claimed notification belongs to one run, with an up-to-date copy of its
\* row, whatever workers and operators do at the same time.
THEOREM ClaimsExclude == Spec => []ClaimsAreExclusive
<1>1. IInv => ClaimsAreExclusive
  BY DEF IInv, OutboxInv
<1>2. QED
  BY Invariance, <1>1, PTL

\* Automatic retries stop at MaxAttempts between two requeues.
THEOREM RetriesStop == Spec => []AutomaticRetriesStop
<1>1. IInv => AutomaticRetriesStop
  BY DEF IInv, OutboxInv, TurnsByAttempts, AutomaticRetriesStop
<1>2. QED
  BY Invariance, <1>1, PTL

\* An acknowledged delivery is never repeated.
THEOREM NoRedelivery == Spec => []DeliveredOnce
<1>1. IInv => DeliveredOnce
  BY DEF IInv, OutboxInv, AckedIsOver, DeliveredOnce
<1>2. QED
  BY Invariance, <1>1, PTL

\* A step that acts on rows in other states leaves a settled row alone.
LEMMA SettledStep ==
  ASSUME IInv, [Next]_vars, NEW n \in Notifications,
         status[n] \in {"sent", "discarded", "archived"}
  PROVE  /\ status'[n] \in {status[n], "archived"}
         /\ tries'[n] = tries[n]
         /\ acked'[n] = acked[n]
<1> USE DEF IInv, OutboxInv, rows
<1>1. CASE UNCHANGED vars
  BY <1>1 DEF vars
<1>2. CASE \E m \in Notifications : Enqueue(m) \/ BackoffElapses(m) \/ Archive(m)
  BY <1>2 DEF Enqueue, BackoffElapses, Archive, TypeOK
<1>3. ASSUME NEW w \in Workers, ProcessOutbox(w)
      PROVE  status'[n] = status[n] /\ tries' = tries /\ acked' = acked
  <2>1. PICK batch \in SUBSET Notifications :
          TakeOldest(batch) /\ status' = Processing(batch)
    BY <1>3 DEF ProcessOutbox, ClaimDue, Start
  <2>2. \A m \in batch : status[m] = "pending"
    BY <2>1, TakeOldestInv
  <2>3. QED
    BY <1>3, <2>1, <2>2 DEF ProcessOutbox, Processing
<1>4. ASSUME NEW r \in Runners, Step(r) \/ Interrupt(r)
      PROVE  status'[n] = status[n] /\ tries'[n] = tries[n] /\ acked'[n] = acked[n]
  <2>1. \A i \in items[r] : i.id # n
    BY DEF ClaimsAreExclusive
  <2>2. CASE deliverOutboxItem(r)
    BY <2>1, <2>2 DEF deliverOutboxItem, TypeOK
  <2>3. CASE MarkSent(r)
    BY <2>1, <2>3 DEF MarkSent, TypeOK
  <2>4. CASE MarkUndelivered(r)
    BY <2>1, <2>4 DEF MarkUndelivered, TypeOK
  <2>5. CASE Finish(r) \/ Interrupt(r)
    BY <2>5 DEF Finish, Interrupt
  <2>6. QED
    BY <1>4, <2>2, <2>3, <2>4, <2>5 DEF Step
<1>5. ASSUME NEW a \in Admins, NEW m \in Notifications,
             NEW op \in {"retry", "requeue", "discard"}, GetByID(a, op, m)
      PROVE  status' = status /\ tries' = tries /\ acked' = acked
  BY <1>5 DEF GetByID
<1>6. ASSUME NEW a \in Admins, RetryFailure(a) \/ RetryFailures(a)
      PROVE  status'[n] = status[n] /\ tries' = tries /\ acked' = acked
  BY <1>6 DEF RetryFailure, RetryFailures, Start, Processing
<1>7. ASSUME NEW a \in Admins, RequeueFailure(a) \/ DiscardFailure(a)
      PROVE  status'[n] = status[n] /\ tries'[n] = tries[n] /\ acked' = acked
  BY <1>7 DEF RequeueFailure, RequeueFailed, DiscardFailure, MarkDiscarded, TypeOK
<1>8. CASE LoseLock
  BY <1>8 DEF LoseLock
<1>9. QED
  BY <1>1, <1>2, <1>3, <1>4, <1>5, <1>6, <1>7, <1>8 DEF Next

\* No late mark and no operator brings a sent or discarded notification back.
THEOREM SettledForGood == Spec => SettledStays
<1>1. IInv /\ [Next]_vars =>
        [\A n \in Notifications : status[n] \in {"sent", "discarded", "archived"} =>
           /\ status'[n] \in {status[n], "archived"}
           /\ tries'[n] = tries[n]
           /\ acked'[n] = acked[n]]_vars
  BY SettledStep
<1>2. QED
  BY Invariance, <1>1, PTL DEF Spec, SettledStays
=============================================================================
