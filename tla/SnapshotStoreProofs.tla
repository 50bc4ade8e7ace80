------------------------ MODULE SnapshotStoreProofs ------------------------
(***************************************************************************)
(* What holds of a user's snapshots for any number of them, any tier and   *)
(* any faults.  The limit is proved for any number of overlapping uploads, *)
(* the rest for a client that uploads one snapshot at a time; the run      *)
(* snapshot_restore_points shows what two at once do to each other.        *)
(***************************************************************************)
EXTENDS SnapshotStore, FiniteSetTheorems, WellFoundedInduction, TLAPS

\* The client has one upload under way at a time; Requests stands for the
\* executions that overlap.
OneUpload == \A r, q \in Requests : r = q

\* created_at orders the rows strictly.
Ordered ==
  /\ \A s \in rows : <<s, s>> \notin later
  /\ \A s, t \in rows : s # t => <<s, t>> \in later \/ <<t, s>> \in later
  /\ \A s, t, u \in rows : <<s, t>> \in later /\ <<t, u>> \in later => <<s, u>> \in later

\* An upload that holds its row: nothing is newer, and the purge keeps off it.
HeldRow ==
  /\ \A r \in Requests : Holds(r) =>
       /\ Snap(r) \in rows /\ Snap(r) \notin expired
       /\ \A t \in rows : <<Snap(r), t>> \notin later
  /\ purging \subseteq expired

\* Its row is live until the upload takes it back, and its blob is there from
\* the Put on.
HeldBlob ==
  \A r \in Requests :
    /\ Holds(r) /\ ~At(r, "undoSettleBlob") => Snap(r) \notin deleted
    /\ up[r].pc \in {"prune", "release", "settle"} => Snap(r) \in blob

\* Uploads whose own row will not do for a restore point.
Unsafe(r) ==
  up[r].pc \in {"put", "undoRow", "prune", "undoPruneRow", "undoPruneBlob",
                "undoSettleRow", "undoSettleBlob"}

SafePoint ==
  acked # {} /\ "undone" \notin marks =>
    \E s \in LiveRows \cap blob : \A r \in Requests : Unsafe(r) => Snap(r) # s

RestoreInv == TypeOK /\ Ordered /\ HeldRow /\ HeldBlob /\ SafePoint

-----------------------------------------------------------------------------
(***************************************************************************)
(* Without faults: how many rows there are                                 *)
(***************************************************************************)
\* The upload has inserted its row and not pruned.
Extra(r) == up[r].pc \in {"put", "undoRow", "prune", "undoPruneRow"}

\* A settlement that failed after a pruning has cost one snapshot.
Cost == IF "undone" \in marks THEN 1 ELSE 0

\* The count an upload read is right, and is right to the last about pruning.
Counted ==
  \A r \in Requests :
    /\ up[r].pc \in {"quota", "create"} => up[r].count = Cardinality(LiveRows)
    /\ Extra(r) =>
         /\ Cardinality(LiveRows) = up[r].count + 1
         /\ up[r].count <= MaxSnapshots
         /\ up[r].count + Cost >= MaxSnapshots \/ up[r].count + Cost >= Cardinality(acked)
    /\ At(r, "prune") => up[r].count >= MaxSnapshots
    /\ up[r].pc \in {"release", "settle", "undoSettleRow"} =>
         \/ Cardinality(LiveRows) >= MaxSnapshots
         \/ Cardinality(LiveRows) + Cost >= Cardinality(acked) + 1

\* With no row on trial: no more rows than the tier allows, and as many as acked.
Level ==
  (\A r \in Requests : ~Extra(r)) =>
    /\ Cardinality(LiveRows) <= MaxSnapshots
    /\ \/ Cardinality(LiveRows) + Cost >= MaxSnapshots
       \/ Cardinality(LiveRows) + Cost >= Cardinality(acked)

\* A live row without its blob is that of an upload before its Put.
Stored ==
  \A s \in LiveRows : s \in blob \/ \E r \in Requests : Snap(r) = s /\ up[r].pc \in {"put", "undoRow"}

\* An upload that is taken back has given up its row before its blob.
Undoing ==
  \A r \in Requests :
    /\ At(r, "undoSettleRow") => "undone" \in marks
    /\ At(r, "undoPruneBlob") \/ At(r, "undoSettleBlob") => Snap(r) \notin LiveRows

CountInv == "fault" \notin marks => Counted /\ Level /\ Stored /\ Undoing

-----------------------------------------------------------------------------
(***************************************************************************)
(* Without faults and hook: what usage covers                              *)
(***************************************************************************)
Guards == \A r \in Requests : ~At(r, "idle") /\ up[r].guard => "hook" \in marks

SnapshotInv == RestoreInv /\ CountInv /\ Guards /\ UsageCoversStored

-----------------------------------------------------------------------------
(***************************************************************************)
(* Overlapping uploads: how many rows they can add between them            *)
(***************************************************************************)
\* Uploads that have added a row and will prune before they end, their rows, and
\* the other live rows.
Trial(r) == Extra(r) /\ up[r].count >= MaxSnapshots
OnTrial == {Snap(r) : r \in {q \in Requests : Trial(q)}}
Settled == LiveRows \ OnTrial

\* Uploads that will add a row and, by the count they read, not prune.
Admits(r) == up[r].pc \in {"quota", "create"} /\ up[r].count < MaxSnapshots
Admitted == {r \in Requests : Admits(r)}

\* How many uploads may have read the same count.
Together == IF "overlap" \in marks THEN Cardinality(Requests) ELSE 1

Alone ==
  "overlap" \notin marks =>
    \A r, q \in Requests : ~At(r, "idle") /\ ~At(q, "idle") => r = q

Bounded ==
  "fault" \notin marks =>
    Cardinality(Settled) + Cardinality(Admitted) <= MaxSnapshots - 1 + Together

LimitInv == TypeOK /\ Ordered /\ Alone /\ Bounded

-----------------------------------------------------------------------------
(***************************************************************************)
(* Uploads and their moves                                                 *)
(***************************************************************************)
USE DEF table

LEMMA Uploading ==
  ASSUME TypeOK, NEW r \in Requests, ~At(r, "idle")
  PROVE  /\ up[r] \in Uploads
         /\ Snap(r) \in Snapshots
         /\ Size[Snap(r)] \in Nat
BY ConstantsAssumption DEF TypeOK, At, Idle, Uploads, Snap

Stays(r) == \A q \in Requests \ {r} : up'[q] = up[q]

LEMMA Moves ==
  ASSUME TypeOK, NEW r \in Requests, ~At(r, "idle")
  PROVE  /\ \A pc \in UploadPC : Goto(r, pc) =>
              /\ up' \in [Requests -> {Idle} \cup Uploads]
              /\ up'[r].pc = pc /\ up'[r].snap = up[r].snap /\ up'[r].guard = up[r].guard
              /\ up'[r].count = up[r].count /\ up'[r].pruned = up[r].pruned
              /\ Stays(r)
         /\ Return(r) =>
              /\ up' \in [Requests -> {Idle} \cup Uploads]
              /\ up'[r].pc = "idle" /\ Stays(r)
         /\ AfterRollback(r) => IF up[r].guard THEN Return(r) ELSE Goto(r, "undoUsage")
<1>1. up[r] \in Uploads
  BY Uploading
<1>2. ASSUME NEW pc \in UploadPC, Goto(r, pc)
      PROVE  /\ up' \in [Requests -> {Idle} \cup Uploads]
             /\ up'[r].pc = pc /\ up'[r].snap = up[r].snap /\ up'[r].guard = up[r].guard
             /\ up'[r].count = up[r].count /\ up'[r].pruned = up[r].pruned
             /\ Stays(r)
  <2>1. [up[r] EXCEPT !.pc = pc] \in Uploads
    BY <1>1 DEF Uploads
  <2>2. up' = [up EXCEPT ![r] = [up[r] EXCEPT !.pc = pc]]
    BY <1>2 DEF Goto
  <2> QED
    BY <1>1, <2>1, <2>2 DEF TypeOK, Uploads, Stays
<1> QED
  BY <1>2 DEF Return, AfterRollback, TypeOK, Idle, Stays

\* Releasing, the one other move.
LEMMA SetPruned ==
  ASSUME TypeOK, NEW r \in Requests, ~At(r, "idle"), NEW pc \in UploadPC, NEW S \in SUBSET Snapshots,
         up' = [up EXCEPT ![r].pc = pc, ![r].pruned = S]
  PROVE  /\ up' \in [Requests -> {Idle} \cup Uploads]
         /\ up'[r].pc = pc /\ up'[r].snap = up[r].snap /\ up'[r].guard = up[r].guard
         /\ up'[r].count = up[r].count /\ up'[r].pruned = S
         /\ Stays(r)
<1>1. up[r] \in Uploads
  BY Uploading
<1>2. [up[r] EXCEPT !.pc = pc, !.pruned = S] \in Uploads
  BY <1>1 DEF Uploads
<1>3. up' = [up EXCEPT ![r] = [up[r] EXCEPT !.pc = pc, !.pruned = S]]
  BY DEF TypeOK
<1> QED
  BY <1>1, <1>2, <1>3 DEF TypeOK, Uploads, Stays

LEMMA Active ==
  ASSUME NEW r \in Requests, UploadStep(r) \/ CrashUpload(r)
  PROVE  ~At(r, "idle")
BY DEF UploadStep, CrashUpload, ReserveQuota, CreateRow, PutBlob, UndoRow, UndoPruneBlob,
       UndoUsage, Prune, ReleasePruned, Settle, UndoSettleRow, UndoSettleBlob, At

LEMMA StepCases ==
  ASSUME [Next]_vars
  PROVE  \/ \E r \in Requests, s \in Snapshots : BeginUpload(r, s)
         \/ \E r \in Requests : UploadStep(r) \/ CrashUpload(r)
         \/ \E s \in Snapshots : Expire(s) \/ PurgeBlob(s) \/ PurgeRow(s)
         \/ CrashPurge
         \/ UNCHANGED vars
BY DEF Next

\* Counting finite sets of snapshots.
LEMMA Finite ==
  ASSUME NEW S, S \subseteq Snapshots
  PROVE  IsFiniteSet(S) /\ Cardinality(S) \in Nat
BY ConstantsAssumption, FS_Subset, FS_CardinalityType

LEMMA CreateType ==
  ASSUME TypeOK, NEW s \in Snapshots, Create(s)
  PROVE  /\ rows' \subseteq Snapshots /\ later' \subseteq rows' \X rows'
         /\ deleted \subseteq rows'
BY DEF TypeOK, Create

LEMMA HardDeleteType ==
  ASSUME TypeOK, NEW s, HardDelete(s)
  PROVE  /\ rows' \subseteq Snapshots /\ later' \subseteq rows' \X rows'
         /\ expired' \subseteq deleted' /\ deleted' \subseteq rows'
<1>1. later' \subseteq rows' \X rows'
  <2> SUFFICES ASSUME NEW p \in later'
               PROVE  p \in rows' \X rows'
    OBVIOUS
  <2>1. p \in rows \X rows /\ p[1] # s /\ p[2] # s
    BY DEF HardDelete, TypeOK
  <2> QED
    BY <2>1 DEF HardDelete
<1> QED
  BY <1>1 DEF HardDelete, TypeOK

LEMMA PruneType ==
  ASSUME TypeOK
  PROVE  PruneOldest(MaxSnapshots) \subseteq LiveRows /\ LiveRows \subseteq Snapshots
BY DEF TypeOK, PruneOldest, LiveRows

LEMMA RemoveUsageType ==
  ASSUME TypeOK, NEW size \in Nat, RemoveSnapshotUsage(size)
  PROVE  usage' \in Nat
BY DEF TypeOK, RemoveSnapshotUsage

\* Types are kept by every step.
LEMMA TypeStep ==
  ASSUME TypeOK, [Next]_vars
  PROVE  TypeOK'
<1> DEFINE UpOK == up' \in [Requests -> {Idle} \cup Uploads]
<1>1. ASSUME NEW r \in Requests, NEW s \in Snapshots, BeginUpload(r, s)
      PROVE  TypeOK'
  <2>1. PICK active \in BOOLEAN :
          /\ up' = [up EXCEPT ![r] = [pc |-> IF active THEN "create" ELSE "quota",
                                      snap |-> s, guard |-> active,
                                      count |-> CountByUser, pruned |-> {}]]
          /\ Mark((IF active THEN {"hook"} ELSE {}) \cup (IF Overlapping THEN {"overlap"} ELSE {}))
    BY <1>1, Zenon DEF BeginUpload
  <2>2. CountByUser \in Nat
    BY PruneType, Finite DEF CountByUser
  <2>3. [pc |-> IF active THEN "create" ELSE "quota", snap |-> s, guard |-> active,
         count |-> CountByUser, pruned |-> {}] \in Uploads
    BY <2>2 DEF Uploads, UploadPC
  <2>4. UpOK
    BY <2>1, <2>3 DEF TypeOK
  <2>5. marks' \subseteq Marks
    BY <2>1 DEF TypeOK, Mark, Marks
  <2> QED
    BY <1>1, <2>4, <2>5 DEF BeginUpload, TypeOK
<1>2. ASSUME NEW r \in Requests, UploadStep(r) \/ CrashUpload(r)
      PROVE  TypeOK'
  <2>1. ~At(r, "idle") /\ Snap(r) \in Snapshots /\ Size[Snap(r)] \in Nat /\ up[r] \in Uploads
    BY <1>2, Active, Uploading
  <2>2. /\ \A pc \in UploadPC : Goto(r, pc) => UpOK
        /\ Return(r) => UpOK
    BY <2>1, Moves DEF TypeOK
  <2>3. AfterRollback(r) => UpOK
    BY <2>1, <2>2, Moves DEF UploadPC
  <2>4. \A M \in SUBSET Marks : Mark(M) => marks' \subseteq Marks
    BY DEF Mark, TypeOK
  <2>5. CASE ReserveQuota(r)
    BY <2>1, <2>2, <2>5 DEF ReserveQuota, TryAddSnapshotUsage, TypeOK, UploadPC
  <2>6. CASE CreateRow(r)
    <3>1. UpOK
      BY <2>2, <2>3, <2>6 DEF CreateRow, UploadPC
    <3>2. marks' \subseteq Marks
      BY <2>4, <2>6 DEF CreateRow, TypeOK, Marks
    <3>3. Create(Snap(r)) \/ UNCHANGED table
      BY <2>6 DEF CreateRow
    <3> QED
      BY <2>1, <2>6, <3>1, <3>2, <3>3, CreateType DEF CreateRow, TypeOK
  <2>7. CASE PutBlob(r)
    BY <2>1, <2>2, <2>7 DEF PutBlob, TypeOK, UploadPC
  <2>8. CASE UndoRow(r)
    <3>1. UpOK
      BY <2>2, <2>3, <2>8 DEF UndoRow, UploadPC
    <3>2. marks' \subseteq Marks
      BY <2>4, <2>8 DEF UndoRow, TypeOK, Marks
    <3> QED
      BY <2>8, <3>1, <3>2, HardDeleteType DEF UndoRow, TypeOK
  <2>9. CASE UndoPruneBlob(r)
    BY <2>3, <2>9 DEF UndoPruneBlob, TypeOK
  <2>10. CASE UndoUsage(r)
    BY <2>1, <2>2, <2>10, RemoveUsageType DEF UndoUsage, TypeOK
  <2>11. CASE Prune(r)
    <3>1. PruneOldest(MaxSnapshots) \in SUBSET Snapshots
      BY PruneType
    <3>2. UpOK
      <4>1. CASE up' = [up EXCEPT ![r].pc = "release", ![r].pruned = PruneOldest(MaxSnapshots)]
        BY <2>1, <3>1, <4>1, SetPruned DEF UploadPC, TypeOK
      <4> QED
        BY <2>2, <2>11, <4>1 DEF Prune, UploadPC
    <3>3. marks' \subseteq Marks
      BY <2>4, <2>11 DEF Prune, TypeOK, Marks
    <3>4. deleted' = deleted \/ deleted' = deleted \cup PruneOldest(MaxSnapshots)
      BY <2>11 DEF Prune
    <3>5. expired \subseteq deleted' /\ deleted' \subseteq rows
      BY <3>4, PruneType DEF TypeOK, LiveRows
    <3> QED
      BY <2>11, <3>2, <3>3, <3>5 DEF Prune, TypeOK
  <2>12. CASE ReleasePruned(r)
    <3>1. \A s \in up[r].pruned : s \in Snapshots /\ Size[s] \in Nat
      BY <2>1, ConstantsAssumption DEF Uploads
    <3>2. usage' \in Nat
      BY <2>12, <3>1, RemoveUsageType DEF ReleasePruned, TypeOK
    <3>3. UpOK
      <4>1. ASSUME NEW s \in up[r].pruned, up' = [up EXCEPT ![r].pruned = @ \ {s}]
            PROVE  UpOK
        <5>1. up[r].pruned \ {s} \in SUBSET Snapshots
          BY <2>1 DEF Uploads
        <5>2. [up[r] EXCEPT !.pruned = @ \ {s}] \in Uploads
          BY <2>1, <5>1 DEF Uploads
        <5>3. up' = [up EXCEPT ![r] = [up[r] EXCEPT !.pruned = @ \ {s}]]
          BY <4>1
        <5> QED
          BY <4>1, <5>2, <5>3 DEF TypeOK
      <4> QED
        BY <2>2, <2>12, <4>1 DEF ReleasePruned, UploadPC
    <3> QED
      BY <2>12, <3>2, <3>3 DEF ReleasePruned, TypeOK
  <2>13. CASE Settle(r)
    <3>1. UpOK /\ marks' \subseteq Marks
      BY <2>2, <2>4, <2>13 DEF Settle, UploadPC, TypeOK, Marks
    <3> QED
      BY <2>1, <2>13, <3>1 DEF Settle, TypeOK
  <2>14. CASE UndoSettleRow(r)
    <3>1. UpOK
      BY <2>2, <2>14 DEF UndoSettleRow, UploadPC
    <3>2. marks' \subseteq Marks
      BY <2>4, <2>14 DEF UndoSettleRow, TypeOK, Marks
    <3> QED
      BY <2>14, <3>1, <3>2 DEF UndoSettleRow, SoftDelete, LiveRows, TypeOK
  <2>15. CASE UndoSettleBlob(r)
    BY <2>2, <2>15 DEF UndoSettleBlob, TypeOK
  <2>16. CASE CrashUpload(r)
    BY <2>1, <2>4, <2>16 DEF CrashUpload, TypeOK, Marks
  <2> HIDE DEF UpOK
  <2> QED
    BY <1>2, <2>5, <2>6, <2>7, <2>8, <2>9, <2>10, <2>11, <2>12, <2>13, <2>14, <2>15, <2>16
       DEF UploadStep
<1>3. ASSUME NEW s \in Snapshots, Expire(s)
      PROVE  TypeOK'
  BY <1>3 DEF Expire, TypeOK
<1>4. ASSUME NEW s \in Snapshots, PurgeBlob(s)
      PROVE  TypeOK'
  BY <1>4 DEF PurgeBlob, TypeOK
<1>5. ASSUME NEW s \in Snapshots, PurgeRow(s)
      PROVE  TypeOK'
  BY <1>5, HardDeleteType DEF PurgeRow, TypeOK
<1>6. CASE CrashPurge
  BY <1>6 DEF CrashPurge, TypeOK
<1>7. CASE UNCHANGED vars
  BY <1>7 DEF vars, TypeOK
<1> QED
  BY <1>1, <1>2, <1>3, <1>4, <1>5, <1>6, <1>7, StepCases

LEMMA InitType == Init => TypeOK
BY DEF Init, TypeOK

\* Rows, their order, counters and uploads keep their types.
THEOREM TypeCorrect == Spec => []TypeOK
<1>1. TypeOK /\ [Next]_vars => TypeOK'
  BY TypeStep
<1> QED
  BY <1>1, InitType, PTL DEF Spec

-----------------------------------------------------------------------------
(***************************************************************************)
(* A restore point                                                         *)
(***************************************************************************)
LEMMA TableStep ==
  ASSUME [Next]_vars
  PROVE  UNCHANGED table \/ \E s : Create(s) \/ HardDelete(s)
BY StepCases DEF BeginUpload, UploadStep, ReserveQuota, CreateRow, PutBlob, UndoRow,
       UndoPruneBlob, UndoUsage, Prune, ReleasePruned, Settle, UndoSettleRow, UndoSettleBlob,
       CrashUpload, Expire, PurgeBlob, PurgeRow, CrashPurge, vars

\* A new row comes after all others; a deleted one leaves the rest in order.
LEMMA OrderedStep ==
  ASSUME TypeOK, Ordered, [Next]_vars
  PROVE  Ordered'
<1>1. CASE UNCHANGED table
  BY <1>1 DEF Ordered
<1>2. ASSUME NEW s, Create(s)
      PROVE  Ordered'
  <2>1. \A t, u \in rows' :
          <<t, u>> \in later' <=> (<<t, u>> \in later \/ (t \in rows /\ u = s))
    BY <1>2 DEF Create
  <2>2. rows' = rows \cup {s} /\ s \notin rows
    BY <1>2 DEF Create
  <2>3. \A t, u : <<t, u>> \in later => t \in rows /\ u \in rows
    BY DEF TypeOK
  <2> QED
    BY <2>1, <2>2, <2>3 DEF Ordered
<1>3. ASSUME NEW s, HardDelete(s)
      PROVE  Ordered'
  <2>1. \A t, u \in rows' : <<t, u>> \in later' <=> <<t, u>> \in later
    BY <1>3 DEF HardDelete
  <2>2. rows' \subseteq rows
    BY <1>3 DEF HardDelete
  <2> QED
    BY <2>1, <2>2 DEF Ordered
<1> QED
  BY <1>1, <1>2, <1>3, TableStep

\* The pruning spares the row of the upload that prunes.
LEMMA OwnRowKept ==
  ASSUME TypeOK, HeldRow, HeldBlob, NEW r \in Requests, At(r, "prune")
  PROVE  Snap(r) \in LiveRows /\ Snap(r) \notin PruneOldest(MaxSnapshots)
<1>1. Snap(r) \in LiveRows
  BY DEF HeldRow, HeldBlob, Holds, At, LiveRows
<1>2. NewerThan(Snap(r)) = {}
  BY DEF HeldRow, Holds, At, NewerThan, LiveRows
<1>3. Cardinality(NewerThan(Snap(r))) = 0
  BY <1>2, FS_EmptySet
<1> QED
  BY <1>1, <1>3, ConstantsAssumption DEF PruneOldest, Newest

LEMMA RestoreStep ==
  ASSUME OneUpload, RestoreInv, [Next]_vars
  PROVE  RestoreInv'
<1>1. TypeOK' /\ Ordered'
  BY TypeStep, OrderedStep DEF RestoreInv
<1> DEFINE Rest == HeldRow' /\ HeldBlob' /\ SafePoint'
<1> USE DEF RestoreInv
<1>2. ASSUME NEW r \in Requests, NEW s \in Snapshots, BeginUpload(r, s)
      PROVE  Rest
  <2>1. /\ up'[r].pc \in {"create", "quota"}
        /\ "undone" \in marks' <=> "undone" \in marks
    BY <1>2 DEF BeginUpload, Mark, TypeOK
  <2>2. \A q \in Requests : ~Holds(q)' /\ ~Unsafe(q)' /\ up'[q].pc \notin {"prune", "release", "settle"}
    BY <2>1 DEF OneUpload, Holds, Unsafe
  <2> QED
    BY <1>2, <2>1, <2>2 DEF BeginUpload, HeldRow, HeldBlob, SafePoint, LiveRows
<1>3. ASSUME NEW r \in Requests, UploadStep(r) \/ CrashUpload(r)
      PROVE  Rest
  <2>1. ~At(r, "idle") /\ Snap(r) \in Snapshots /\ up[r] \in Uploads
    BY <1>3, Active, Uploading
  <2>2. \A q \in Requests : q = r
    BY DEF OneUpload
  <2>3. /\ \A pc \in UploadPC : Goto(r, pc) => up'[r].pc = pc /\ Snap(r)' = Snap(r)
        /\ Return(r) => up'[r].pc = "idle"
        /\ AfterRollback(r) => up'[r].pc \in {"idle", "undoUsage"}
    BY <2>1, Moves DEF Snap, UploadPC
  <2>4. \A M : Mark(M) => ("undone" \in marks' <=> "undone" \in marks \/ "undone" \in M)
    BY DEF Mark
  <2> DEFINE Point(s) == s \in LiveRows \cap blob /\ (Unsafe(r) => Snap(r) # s)
             Row == Holds(r)' =>
                      /\ Snap(r)' \in rows' /\ Snap(r)' \notin expired'
                      /\ \A t \in rows' : <<Snap(r)', t>> \notin later'
             Stored1 ==
               /\ Holds(r)' /\ ~At(r, "undoSettleBlob")' => Snap(r)' \notin deleted'
               /\ up'[r].pc \in {"prune", "release", "settle"} => Snap(r)' \in blob'
             Safe == acked' # {} /\ "undone" \notin marks' => \E s : Point(s)'
  <2>5. SUFFICES Row /\ purging' \subseteq expired' /\ Stored1 /\ Safe
    BY <2>2 DEF HeldRow, HeldBlob, SafePoint
  <2>6. acked # {} /\ "undone" \notin marks => \E s : Point(s)
    BY DEF SafePoint
  <2>7. /\ Holds(r) => /\ Snap(r) \in rows /\ Snap(r) \notin expired
                       /\ \A t \in rows : <<Snap(r), t>> \notin later
        /\ purging \subseteq expired
        /\ Holds(r) /\ ~At(r, "undoSettleBlob") => Snap(r) \notin deleted
        /\ up[r].pc \in {"prune", "release", "settle"} => Snap(r) \in blob
    BY DEF HeldRow, HeldBlob
  <2> USE DEF Holds, Unsafe, At, LiveRows, UploadPC
  <2>10. CASE ReserveQuota(r)
    BY <2>3, <2>6, <2>7, <2>10 DEF ReserveQuota
  <2>11. CASE CreateRow(r)
    <3>1. CASE Create(Snap(r)) /\ Goto(r, "put") /\ UNCHANGED marks
      <4>1. expired \subseteq rows /\ deleted \subseteq rows /\ later \subseteq rows \X rows
        BY DEF TypeOK
      <4>2. Row /\ purging' \subseteq expired' /\ Stored1
        BY <2>3, <2>7, <2>11, <3>1, <4>1 DEF CreateRow, Create
      <4>3. Safe
        BY <2>3, <2>6, <2>11, <3>1, <4>1 DEF CreateRow, Create
      <4> QED
        BY <4>2, <4>3
    <3>2. CASE AfterRollback(r) /\ (UNCHANGED <<table, marks>> \/ (Create(Snap(r)) /\ Mark({"fault"})))
      <4>1. Safe
        BY <2>3, <2>4, <2>6, <2>11, <3>2 DEF CreateRow, Create
      <4> QED
        BY <2>3, <2>7, <2>11, <3>2, <4>1 DEF CreateRow, Create
    <3> QED
      BY <2>11, <3>1, <3>2 DEF CreateRow
  <2>12. CASE PutBlob(r)
    BY <2>3, <2>6, <2>7, <2>12 DEF PutBlob
  <2>13. CASE UndoRow(r)
    <3>1. up'[r].pc \in {"idle", "undoUsage", "undoPruneBlob"}
      BY <2>3, <2>13 DEF UndoRow
    <3>2. up'[r].pc = "undoPruneBlob" => Snap(r)' = Snap(r)
      BY <2>3, <2>13 DEF UndoRow
    <3>3. purging' \subseteq expired'
      BY <2>7, <2>13 DEF UndoRow, HardDelete
    <3>4. Safe
      <4>1. \A s : Point(s) => Point(s)'
        BY <2>13, <3>1, <3>2 DEF UndoRow, HardDelete
      <4>2. acked' = acked /\ ("undone" \in marks' <=> "undone" \in marks)
        BY <2>4, <2>13 DEF UndoRow
      <4> QED
        BY <2>6, <4>1, <4>2
    <3> QED
      BY <3>1, <3>3, <3>4
  <2>14. CASE UndoPruneBlob(r)
    BY <2>3, <2>6, <2>7, <2>14 DEF UndoPruneBlob
  <2>15. CASE UndoUsage(r)
    BY <2>3, <2>6, <2>7, <2>15 DEF UndoUsage
  <2>16. CASE Prune(r)
    <3>1. Snap(r) \in LiveRows /\ Snap(r) \notin PruneOldest(MaxSnapshots)
      BY <2>16, OwnRowKept DEF Prune
    <3>2. CASE up'[r].pc = "release" /\ Snap(r)' = Snap(r) /\ UNCHANGED marks
               /\ deleted' = deleted \cup PruneOldest(MaxSnapshots)
      <4>1. Row /\ purging' \subseteq expired' /\ Stored1
        BY <2>7, <2>16, <3>1, <3>2 DEF Prune
      <4>2. Point(Snap(r))'
        BY <2>7, <2>16, <3>1, <3>2 DEF Prune
      <4> QED
        BY <4>1, <4>2
    <3>3. CASE Goto(r, "undoPruneRow") /\ UNCHANGED <<deleted, marks>>
      BY <2>3, <2>6, <2>7, <2>16, <3>3 DEF Prune
    <3>4. CASE Goto(r, "undoPruneRow") /\ Mark({"undone", "fault"})
               /\ deleted' = deleted \cup PruneOldest(MaxSnapshots)
      BY <2>3, <2>4, <2>7, <2>16, <3>1, <3>4 DEF Prune
    <3>5. ASSUME up' = [up EXCEPT ![r].pc = "release", ![r].pruned = PruneOldest(MaxSnapshots)]
          PROVE  up'[r].pc = "release" /\ Snap(r)' = Snap(r)
      <4>1. PruneOldest(MaxSnapshots) \in SUBSET Snapshots
        BY PruneType
      <4>2. "release" \in UploadPC /\ TypeOK
        OBVIOUS
      <4> HIDE DEF At, UploadPC, RestoreInv
      <4> QED
        BY <2>1, <3>5, <4>1, <4>2, SetPruned DEF Snap
    <3> QED
      BY <2>16, <3>2, <3>3, <3>4, <3>5 DEF Prune
  <2>17. CASE ReleasePruned(r)
    <3>1. \/ up'[r].pc \in {"settle", "release"} /\ Snap(r)' = Snap(r)
          \/ up'[r].pc = "idle"
      <4>1. ASSUME NEW s \in up[r].pruned, up' = [up EXCEPT ![r].pruned = @ \ {s}]
            PROVE  up'[r].pc = "release" /\ Snap(r)' = Snap(r)
        BY <2>1, <2>17, <4>1 DEF ReleasePruned, TypeOK, Uploads, Snap
      <4> QED
        BY <2>3, <2>17, <4>1 DEF ReleasePruned
    <3> QED
      BY <2>6, <2>7, <2>17, <3>1 DEF ReleasePruned
  <2>18. CASE Settle(r)
    <3>1. CASE Return(r) /\ UNCHANGED marks
      <4>1. Point(Snap(r)) /\ up'[r].pc = "idle"
        BY <2>3, <2>7, <2>18, <3>1 DEF Settle
      <4>2. \E s : Point(s)'
        BY <2>18, <4>1 DEF Settle
      <4> QED
        BY <2>7, <2>18, <4>1, <4>2 DEF Settle
    <3>2. CASE Goto(r, "undoSettleRow") /\ Mark({"undone"})
      BY <2>3, <2>4, <2>7, <2>18, <3>2 DEF Settle
    <3> QED
      BY <2>18, <3>1, <3>2 DEF Settle
  <2>19. CASE UndoSettleRow(r)
    BY <2>3, <2>4, <2>6, <2>7, <2>19 DEF UndoSettleRow, SoftDelete
  <2>20. CASE UndoSettleBlob(r)
    BY <2>3, <2>6, <2>7, <2>20 DEF UndoSettleBlob
  <2>21. CASE CrashUpload(r)
    <3>1. up'[r].pc = "idle"
      BY <2>21 DEF CrashUpload, Idle, TypeOK
    <3> QED
      BY <2>4, <2>6, <2>7, <2>21, <3>1 DEF CrashUpload
  <2> HIDE DEF Row, Stored1, Safe
  <2> QED
    BY <1>3, <2>10, <2>11, <2>12, <2>13, <2>14, <2>15, <2>16, <2>17, <2>18, <2>19, <2>20, <2>21
       DEF UploadStep
<1>4. ASSUME NEW s \in Snapshots, Expire(s) \/ PurgeBlob(s) \/ PurgeRow(s)
      PROVE  Rest
  <2>1. \A r \in Requests : (Holds(r)' <=> Holds(r)) /\ Snap(r)' = Snap(r) /\ (Unsafe(r)' <=> Unsafe(r))
                            /\ \A pc : At(r, pc)' <=> At(r, pc)
    BY <1>4 DEF Expire, PurgeBlob, PurgeRow, Holds, Unsafe, Snap, At
  <2>2. CASE Expire(s)
    <3>1. HeldRow'
      BY <2>1, <2>2 DEF HeldRow, Expire
    <3> QED
      BY <2>1, <2>2, <3>1 DEF HeldBlob, SafePoint, Expire, LiveRows
  <2>3. CASE PurgeBlob(s)
    <3>1. s \in deleted /\ \A r \in Requests : Holds(r) => Snap(r) # s
      BY <2>3 DEF PurgeBlob, TypeOK, HeldRow
    <3>2. HeldRow'
      BY <2>1, <2>3 DEF HeldRow, PurgeBlob
    <3>3. HeldBlob'
      BY <2>1, <2>3, <3>1 DEF HeldBlob, PurgeBlob, Holds
    <3> QED
      BY <2>1, <2>3, <3>1, <3>2, <3>3 DEF SafePoint, PurgeBlob, LiveRows
  <2>4. CASE PurgeRow(s)
    <3>1. s \in deleted /\ \A r \in Requests : Holds(r) => Snap(r) # s
      BY <2>4 DEF PurgeRow, TypeOK, HeldRow
    <3>2. HeldRow'
      BY <2>1, <2>4, <3>1 DEF HeldRow, PurgeRow, HardDelete
    <3>3. HeldBlob'
      BY <2>1, <2>4 DEF HeldBlob, PurgeRow, HardDelete
    <3> QED
      BY <2>1, <2>4, <3>1, <3>2, <3>3 DEF SafePoint, PurgeRow, HardDelete, LiveRows
  <2> QED
    BY <1>4, <2>2, <2>3, <2>4
<1>5. ASSUME CrashPurge \/ UNCHANGED vars
      PROVE  Rest
  <2>1. UNCHANGED <<table, deleted, expired, blob, up, acked, marks>> /\ purging' \subseteq purging
    BY <1>5 DEF CrashPurge, vars
  <2> QED
    BY <2>1 DEF HeldRow, HeldBlob, SafePoint, LiveRows, Holds, Unsafe, Snap, At
<1> QED
  BY <1>1, <1>2, <1>3, <1>4, <1>5, StepCases

LEMMA InitRestore == Init => RestoreInv
<1> SUFFICES ASSUME Init
             PROVE  RestoreInv
  OBVIOUS
<1>1. \A r \in Requests : up[r].pc = "idle"
  BY DEF Init, Idle
<1> QED
  BY <1>1, InitType DEF Init, RestoreInv, Ordered, HeldRow, HeldBlob, SafePoint, Holds

\* For a client that uploads one snapshot at a time, through crashes, lost
\* replies, failed roll-backs and the purge: once a snapshot was acknowledged, one
\* can be restored, unless a pruning was committed for an upload taken back.
THEOREM RestorePointLeft ==
  ASSUME OneUpload
  PROVE  Spec => []SomeRestorePoint
<1>1. RestoreInv /\ [Next]_vars => RestoreInv'
  BY RestoreStep
<1>2. RestoreInv => SomeRestorePoint
  BY DEF RestoreInv, TypeOK, SafePoint, SomeRestorePoint, RestorePoints, DownloadSnapshot, LiveRows
<1> QED
  BY <1>1, <1>2, InitRestore, PTL DEF Spec

-----------------------------------------------------------------------------
(***************************************************************************)
(* How many rows the pruning leaves                                        *)
(***************************************************************************)
OlderIn(S, s) == {t \in S : <<t, s>> \in later}

\* Among some live rows there is one that all the others are newer than.
LEMMA OldestRow ==
  ASSUME TypeOK, Ordered, NEW S \in SUBSET LiveRows, S # {}
  PROVE  \E s \in S : S \ {s} \subseteq NewerThan(s)
<1>1. IsFiniteSet(S)
  BY PruneType, Finite
<1>2. IsWellFoundedOn(StrictSubsetOrdering(S), SUBSET S)
  BY <1>1, FS_StrictSubsetOrderingWellFounded, FS_FiniteSubsetsOfFinite
<1> DEFINE Olders == {OlderIn(S, s) : s \in S}
<1>3. Olders \subseteq SUBSET S /\ Olders # {}
  BY DEF OlderIn
<1>4. PICK O \in Olders : \A P \in Olders : <<P, O>> \notin StrictSubsetOrdering(S)
  <2> HIDE DEF Olders
  <2> QED
    BY <1>2, <1>3, WFMin
<1>5. PICK s \in S : O = OlderIn(S, s)
  BY <1>4
<1>6. OlderIn(S, s) = {}
  <2> SUFFICES ASSUME NEW t \in OlderIn(S, s)
               PROVE  FALSE
    OBVIOUS
  <2>1. t \in S /\ t \notin OlderIn(S, t) /\ OlderIn(S, t) \subseteq OlderIn(S, s)
    BY DEF OlderIn, Ordered, LiveRows
  <2>2. OlderIn(S, t) \in SUBSET S /\ OlderIn(S, s) \in SUBSET S
    BY DEF OlderIn
  <2>3. <<OlderIn(S, t), OlderIn(S, s)>> \in StrictSubsetOrdering(S)
    BY <2>1, <2>2 DEF StrictSubsetOrdering
  <2> QED
    BY <1>4, <1>5, <2>1, <2>3
<1>7. S \ {s} \subseteq NewerThan(s)
  BY <1>6 DEF OlderIn, NewerThan, Ordered, LiveRows
<1> QED
  BY <1>7

\* The pruning leaves no more rows than it was told to keep.
LEMMA FewAreKept ==
  ASSUME TypeOK, Ordered
  PROVE  /\ LiveRows \ PruneOldest(MaxSnapshots) = Newest(MaxSnapshots)
         /\ Cardinality(Newest(MaxSnapshots)) <= MaxSnapshots
<1> DEFINE N == Newest(MaxSnapshots)
<1>1. N \in SUBSET LiveRows /\ IsFiniteSet(N) /\ Cardinality(N) \in Nat /\ MaxSnapshots \in Nat
  BY PruneType, Finite, ConstantsAssumption DEF Newest
<1>2. Cardinality(N) <= MaxSnapshots
  <2> HIDE DEF N
  <2>1. CASE N = {}
    BY <1>1, <2>1, FS_EmptySet
  <2>2. CASE N # {}
    <3>1. PICK s \in N : N \ {s} \subseteq NewerThan(s)
      BY <1>1, <2>2, OldestRow
    <3>2. Cardinality(NewerThan(s)) < MaxSnapshots
      BY <3>1 DEF Newest, N
    <3>3. IsFiniteSet(NewerThan(s)) /\ Cardinality(NewerThan(s)) \in Nat
      BY PruneType, Finite DEF NewerThan
    <3>4. Cardinality(N \ {s}) = Cardinality(N) - 1
      BY <1>1, <3>1, FS_RemoveElement
    <3>5. Cardinality(N \ {s}) <= Cardinality(NewerThan(s))
      BY <3>1, <3>3, FS_Subset
    <3> QED
      BY <1>1, <3>2, <3>3, <3>4, <3>5
  <2> QED
    BY <2>1, <2>2
<1>3. LiveRows \ PruneOldest(MaxSnapshots) = N
  BY <1>1 DEF PruneOldest
<1> QED
  BY <1>2, <1>3

\* With one row too many, the pruning takes exactly one.
LEMMA OneIsPruned ==
  ASSUME TypeOK, Ordered, Cardinality(LiveRows) = MaxSnapshots + 1
  PROVE  Cardinality(LiveRows \ PruneOldest(MaxSnapshots)) = MaxSnapshots
<1>1. IsFiniteSet(LiveRows) /\ MaxSnapshots \in Nat
  BY PruneType, Finite, ConstantsAssumption
<1>2. LiveRows # {}
  BY <1>1, FS_EmptySet
<1>3. PICK s \in LiveRows : NewerThan(s) = LiveRows \ {s}
  <2>1. PICK s \in LiveRows : LiveRows \ {s} \subseteq NewerThan(s)
    BY <1>2, OldestRow
  <2> QED
    BY <2>1 DEF NewerThan, Ordered, LiveRows
<1>4. Cardinality(LiveRows \ {s}) = MaxSnapshots
  BY <1>1, <1>3, FS_RemoveElement
<1>5. ASSUME NEW t \in LiveRows, t # s
      PROVE  t \in Newest(MaxSnapshots)
  <2>1. IsFiniteSet(LiveRows \ {t}) /\ Cardinality(LiveRows \ {t}) = MaxSnapshots
    BY <1>1, FS_RemoveElement
  <2>2. NewerThan(t) \in SUBSET (LiveRows \ {t})
    BY <1>5 DEF NewerThan, Ordered, LiveRows
  <2>3. s \notin NewerThan(t)
    BY <1>3, <1>5 DEF NewerThan, Ordered, LiveRows
  <2>4. NewerThan(t) # LiveRows \ {t}
    BY <1>3, <1>5, <2>3
  <2>5. Cardinality(NewerThan(t)) <= MaxSnapshots /\ Cardinality(NewerThan(t)) # MaxSnapshots
    BY <2>1, <2>2, <2>4, FS_Subset
  <2>6. Cardinality(NewerThan(t)) \in Nat
    BY <2>1, <2>2, FS_Subset, FS_CardinalityType
  <2> QED
    BY <1>1, <2>5, <2>6 DEF Newest
<1>6. s \notin Newest(MaxSnapshots)
  BY <1>1, <1>3, <1>4 DEF Newest
<1>7. LiveRows \ PruneOldest(MaxSnapshots) = LiveRows \ {s}
  BY <1>3, <1>5, <1>6 DEF PruneOldest
<1> QED
  BY <1>4, <1>7

LEMMA OneMoreOrLess ==
  ASSUME NEW S, IsFiniteSet(S), NEW x
  PROVE  /\ Cardinality(S \cup {x}) \in Nat /\ Cardinality(S \cup {x}) <= Cardinality(S) + 1
         /\ Cardinality(S \ {x}) \in Nat /\ Cardinality(S \ {x}) >= Cardinality(S) - 1
<1>1. /\ Cardinality(S) \in Nat
      /\ Cardinality(S \cup {x}) \in Nat /\ Cardinality(S \ {x}) \in Nat
  BY FS_AddElement, FS_RemoveElement, FS_CardinalityType
<1>2. /\ Cardinality(S \cup {x}) = IF x \in S THEN Cardinality(S) ELSE Cardinality(S) + 1
      /\ Cardinality(S \ {x}) = IF x \in S THEN Cardinality(S) - 1 ELSE Cardinality(S)
  BY FS_AddElement, FS_RemoveElement
<1> QED
  BY <1>1, <1>2

LEMMA CountStep ==
  ASSUME OneUpload, RestoreInv, CountInv, [Next]_vars
  PROVE  CountInv'
<1> DEFINE n == Cardinality(LiveRows)
           a == Cardinality(acked)
           Full == n + Cost >= MaxSnapshots \/ n + Cost >= a
<1>1. TypeOK /\ TypeOK' /\ Ordered
  BY TypeStep DEF RestoreInv
<1>2. /\ IsFiniteSet(LiveRows) /\ n \in Nat /\ IsFiniteSet(LiveRows') /\ n' \in Nat
      /\ IsFiniteSet(acked) /\ a \in Nat
      /\ MaxSnapshots \in Nat /\ Cost \in {0, 1} /\ Cost' \in {0, 1}
  <2>1. LiveRows \subseteq Snapshots /\ LiveRows' \subseteq Snapshots /\ acked \subseteq Snapshots
    BY <1>1 DEF TypeOK, LiveRows
  <2> QED
    BY <2>1, Finite, ConstantsAssumption DEF Cost
<1>3. SUFFICES ASSUME "fault" \notin marks'
               PROVE  Counted' /\ Level' /\ Stored' /\ Undoing'
  BY DEF CountInv
<1>4. ASSUME NEW r \in Requests, NEW s \in Snapshots, BeginUpload(r, s)
      PROVE  Counted' /\ Level' /\ Stored' /\ Undoing'
  <2>1. PICK active \in BOOLEAN :
          /\ up' = [up EXCEPT ![r] = [pc |-> IF active THEN "create" ELSE "quota",
                                      snap |-> s, guard |-> active,
                                      count |-> CountByUser, pruned |-> {}]]
          /\ Mark((IF active THEN {"hook"} ELSE {}) \cup (IF Overlapping THEN {"overlap"} ELSE {}))
    BY <1>4, Zenon DEF BeginUpload
  <2>2. Counted /\ Level /\ Stored
    BY <1>3, <2>1 DEF CountInv, Mark
  <2>3. /\ \A q \in Requests : q = r
        /\ up[r].pc = "idle" /\ up'[r].pc \in {"create", "quota"} /\ up'[r].count = n
    BY <1>1, <1>4, <2>1 DEF OneUpload, BeginUpload, At, TypeOK, CountByUser
  <2>4. LiveRows' = LiveRows /\ blob' = blob /\ acked' = acked
    BY <1>4 DEF BeginUpload, LiveRows
  <2>5. Cost' = Cost
    BY <2>1 DEF Mark, Cost
  <2> QED
    BY <2>2, <2>3, <2>4, <2>5 DEF Counted, Level, Stored, Undoing, Extra, At
<1>5. ASSUME NEW r \in Requests, UploadStep(r) \/ CrashUpload(r)
      PROVE  Counted' /\ Level' /\ Stored' /\ Undoing'
  <2>1. ~At(r, "idle") /\ Snap(r) \in Snapshots /\ up[r] \in Uploads
    BY <1>1, <1>5, Active, Uploading
  <2>2. \A q \in Requests : q = r
    BY DEF OneUpload
  <2>3. /\ \A pc \in UploadPC : Goto(r, pc) => up'[r].pc = pc /\ Snap(r)' = Snap(r)
                                              /\ up'[r].count = up[r].count
        /\ Return(r) => up'[r].pc = "idle"
        /\ AfterRollback(r) => up'[r].pc \in {"idle", "undoUsage"}
    BY <1>1, <2>1, Moves DEF Snap, UploadPC
  <2>4. \A M : Mark(M) => "fault" \notin marks /\ "fault" \notin M
    BY <1>3 DEF Mark
  <2> DEFINE
        CountedOne ==
          /\ up[r].pc \in {"quota", "create"} => up[r].count = n
          /\ Extra(r) =>
               /\ n = up[r].count + 1
               /\ up[r].count <= MaxSnapshots
               /\ up[r].count + Cost >= MaxSnapshots \/ up[r].count + Cost >= a
          /\ At(r, "prune") => up[r].count >= MaxSnapshots
          /\ up[r].pc \in {"release", "settle", "undoSettleRow"} =>
               \/ n >= MaxSnapshots
               \/ n + Cost >= a + 1
        LevelOne == ~Extra(r) => n <= MaxSnapshots /\ Full
        StoredOne ==
          \A s \in LiveRows : s \in blob \/ (Snap(r) = s /\ up[r].pc \in {"put", "undoRow"})
        UndoingOne ==
          /\ At(r, "undoSettleRow") => "undone" \in marks
          /\ At(r, "undoPruneBlob") \/ At(r, "undoSettleBlob") => Snap(r) \notin LiveRows
        One == CountedOne /\ LevelOne /\ StoredOne /\ UndoingOne
  <2>5. Counted /\ Level /\ Stored /\ Undoing => One
    BY <2>2 DEF Counted, Level, Stored, Undoing
  <2>6. SUFFICES One'
    BY <2>2 DEF Counted, Level, Stored, Undoing
  <2>7. marks \subseteq marks'
    BY <1>5 DEF UploadStep, ReserveQuota, CreateRow, PutBlob, UndoRow,
          UndoPruneBlob, UndoUsage, Prune, ReleasePruned, Settle, UndoSettleRow, UndoSettleBlob,
          CrashUpload, Mark
  <2>8. One
    BY <1>3, <2>5, <2>7 DEF CountInv
  <2>9. up[r].count \in Nat
    BY <2>1 DEF Uploads
  <2>10. /\ Cardinality(acked \cup {Snap(r)}) \in Nat /\ Cardinality(acked \cup {Snap(r)}) <= a + 1
    BY <1>2, OneMoreOrLess
  <2>22. UNCHANGED marks => Cost' = Cost
    BY DEF Cost
  <2> USE DEF Extra, At, UploadPC
  <2>11. CASE ReserveQuota(r)
    <3>1. LiveRows' = LiveRows /\ acked' = acked /\ blob' = blob /\ Cost' = Cost
      BY <2>11, <2>22 DEF ReserveQuota, LiveRows
    <3> QED
      BY <2>3, <2>8, <2>11, <3>1 DEF ReserveQuota
  <2>12. CASE CreateRow(r)
    <3>1. CASE Create(Snap(r)) /\ Goto(r, "put") /\ UNCHANGED marks
      <4>1. LiveRows' = LiveRows \cup {Snap(r)} /\ Snap(r) \notin LiveRows
        BY <1>1, <2>12, <3>1 DEF CreateRow, Create, LiveRows, TypeOK
      <4>2. n' = n + 1
        BY <1>2, <4>1, FS_AddElement
      <4>3. blob' = blob /\ acked' = acked /\ Cost' = Cost
        BY <2>12, <2>22, <3>1 DEF CreateRow
      <4>4. CountedOne' /\ LevelOne'
        BY <1>2, <2>3, <2>8, <2>12, <3>1, <4>2, <4>3 DEF CreateRow
      <4>5. StoredOne' /\ UndoingOne'
        BY <2>3, <2>8, <2>12, <3>1, <4>1, <4>3 DEF CreateRow
      <4> QED
        BY <4>4, <4>5
    <3>2. CASE AfterRollback(r) /\ UNCHANGED <<table, marks>>
      <4>1. LiveRows' = LiveRows /\ Cost' = Cost
        BY <2>12, <2>22, <3>2 DEF CreateRow, LiveRows
      <4> QED
        BY <2>3, <2>8, <2>12, <3>2, <4>1 DEF CreateRow
    <3> QED
      BY <2>4, <2>12, <3>1, <3>2 DEF CreateRow
  <2>13. CASE PutBlob(r)
    <3>1. LiveRows' = LiveRows /\ acked' = acked /\ n' = n /\ Cost' = Cost
      BY <2>13, <2>22 DEF PutBlob, LiveRows
    <3>2. \/ blob' = blob \cup {Snap(r)} /\ up'[r].pc = (IF NeedsPruning(r) THEN "prune" ELSE "settle")
          \/ blob \subseteq blob' /\ up'[r].pc = "undoRow"
      BY <2>3, <2>13 DEF PutBlob
    <3>3. Snap(r)' = Snap(r) /\ up'[r].count = up[r].count
      BY <2>3, <2>13 DEF PutBlob
    <3>4. up[r].pc = "put"
      BY <2>13 DEF PutBlob
    <3>5. CountedOne'
      BY <1>2, <2>8, <2>9, <2>10, <3>1, <3>2, <3>3, <3>4 DEF NeedsPruning
    <3>6. LevelOne'
      BY <1>2, <2>8, <2>9, <3>1, <3>2, <3>3, <3>4 DEF NeedsPruning
    <3>7. StoredOne'
      BY <2>8, <3>1, <3>2, <3>3
    <3> QED
      BY <3>2, <3>5, <3>6, <3>7
  <2>14. CASE UndoRow(r)
    <3>1. HardDelete(Snap(r)) /\ acked' = acked /\ blob' = blob /\ Cost' = Cost
      BY <2>4, <2>14, <2>22 DEF UndoRow
    <3>2. Snap(r) \in LiveRows
      BY <2>14 DEF UndoRow, RestoreInv, HeldRow, HeldBlob, Holds, LiveRows
    <3>3. LiveRows' = LiveRows \ {Snap(r)}
      BY <3>1 DEF HardDelete, LiveRows
    <3>4. n' = n - 1
      BY <1>2, <3>2, <3>3, FS_RemoveElement
    <3>5. up'[r].pc \in {"idle", "undoUsage"} \/ (up'[r].pc = "undoPruneBlob" /\ Snap(r)' = Snap(r))
      BY <2>3, <2>14 DEF UndoRow
    <3>6. up[r].pc \in {"undoRow", "undoPruneRow"}
      BY <2>14 DEF UndoRow
    <3>7. CountedOne' /\ LevelOne'
      BY <1>2, <2>8, <2>9, <3>1, <3>4, <3>5, <3>6
    <3>8. StoredOne'
      BY <2>8, <3>1, <3>3
    <3>9. UndoingOne'
      BY <3>3, <3>5
    <3> QED
      BY <3>7, <3>8, <3>9
  <2>15. CASE UndoPruneBlob(r)
    <3>1. LiveRows' = LiveRows /\ acked' = acked /\ Snap(r) \notin LiveRows /\ blob \subseteq blob' \cup {Snap(r)}
          /\ Cost' = Cost
      BY <2>8, <2>15, <2>22 DEF UndoPruneBlob, LiveRows
    <3>2. up'[r].pc \in {"idle", "undoUsage"} /\ up[r].pc = "undoPruneBlob"
      BY <2>3, <2>15 DEF UndoPruneBlob
    <3> QED
      BY <2>8, <3>1, <3>2
  <2>16. CASE UndoUsage(r)
    <3>1. LiveRows' = LiveRows /\ acked' = acked /\ blob' = blob /\ Cost' = Cost
      BY <2>16, <2>22 DEF UndoUsage, LiveRows
    <3> QED
      BY <2>3, <2>8, <2>16, <3>1 DEF UndoUsage
  <2>17. CASE Prune(r)
    <3>1. up[r].pc = "prune" /\ acked' = acked /\ blob' = blob /\ rows' = rows
      BY <2>17 DEF Prune
    <3>2. \A s \in LiveRows : s \in blob
      BY <2>8, <3>1
    <3>3. CASE up' = [up EXCEPT ![r].pc = "release", ![r].pruned = PruneOldest(MaxSnapshots)]
               /\ deleted' = deleted \cup PruneOldest(MaxSnapshots)
      <4>1. LiveRows' = LiveRows \ PruneOldest(MaxSnapshots)
        BY <3>1, <3>3 DEF LiveRows
      <4>2. n = MaxSnapshots + 1
        BY <1>2, <2>8, <2>9, <3>1
      <4>3. n' = MaxSnapshots
        BY <1>1, <4>1, <4>2, OneIsPruned
      <4>4. up'[r].pc = "release"
        <5>1. PruneOldest(MaxSnapshots) \in SUBSET Snapshots /\ "release" \in UploadPC
          BY <1>1, PruneType
        <5> HIDE DEF At, UploadPC
        <5> QED
          BY <1>1, <2>1, <3>3, <5>1, SetPruned
      <4> QED
        BY <1>2, <3>1, <3>2, <4>1, <4>3, <4>4
    <3>4. CASE Goto(r, "undoPruneRow") /\ UNCHANGED <<deleted, marks>>
      <4>1. LiveRows' = LiveRows /\ Cost' = Cost
        BY <2>22, <3>1, <3>4 DEF LiveRows
      <4> QED
        BY <2>3, <2>8, <3>1, <3>4, <4>1
    <3> QED
      BY <2>4, <2>17, <3>3, <3>4 DEF Prune
  <2>18. CASE ReleasePruned(r)
    <3>1. LiveRows' = LiveRows /\ acked' = acked /\ blob' = blob /\ up[r].pc = "release"
          /\ Cost' = Cost
      BY <2>18, <2>22 DEF ReleasePruned, LiveRows
    <3>2. \/ up'[r].pc \in {"settle", "release"} /\ Snap(r)' = Snap(r)
          \/ up'[r].pc = "idle"
      <4>1. ASSUME NEW s \in up[r].pruned, up' = [up EXCEPT ![r].pruned = @ \ {s}]
            PROVE  up'[r].pc = "release" /\ Snap(r)' = Snap(r)
        BY <1>1, <2>1, <2>18, <4>1 DEF ReleasePruned, TypeOK, Uploads, Snap
      <4> QED
        BY <2>3, <2>18, <4>1 DEF ReleasePruned
    <3> QED
      BY <2>8, <3>1, <3>2
  <2>19. CASE Settle(r)
    <3>1. LiveRows' = LiveRows /\ blob' = blob /\ up[r].pc = "settle"
      BY <2>19 DEF Settle, LiveRows
    <3>2. CASE Return(r) /\ acked' = acked \cup {Snap(r)} /\ UNCHANGED marks
      <4>1. up'[r].pc = "idle" /\ Cost' = Cost /\ a' \in Nat /\ a' <= a + 1
        BY <2>3, <2>10, <2>22, <3>2
      <4> QED
        BY <1>2, <2>8, <3>1, <4>1
    <3>3. CASE Goto(r, "undoSettleRow") /\ Mark({"undone"}) /\ acked' = acked
      <4>1. up'[r].pc = "undoSettleRow" /\ "undone" \in marks' /\ Cost' = 1
        BY <2>3, <3>3 DEF Mark, Cost
      <4> QED
        BY <1>2, <2>8, <3>1, <3>3, <4>1
    <3> QED
      BY <2>19, <3>2, <3>3 DEF Settle
  <2>20. CASE UndoSettleRow(r)
    <3>1. Snap(r) \in LiveRows /\ up[r].pc = "undoSettleRow" /\ "undone" \in marks
      BY <2>8, <2>20 DEF UndoSettleRow, RestoreInv, HeldRow, HeldBlob, Holds, LiveRows
    <3>2. SoftDelete(Snap(r)) /\ marks' = marks
      BY <2>4, <2>20, <3>1 DEF UndoSettleRow
    <3>3. LiveRows' = LiveRows \ {Snap(r)}
      BY <2>20, <3>2 DEF UndoSettleRow, SoftDelete, LiveRows
    <3>4. n' = n - 1 /\ Cost = 1 /\ Cost' = 1
      BY <1>2, <3>1, <3>2, <3>3, FS_RemoveElement DEF Cost
    <3>5. up'[r].pc = "undoSettleBlob" /\ Snap(r)' = Snap(r) /\ acked' = acked /\ blob' = blob
      BY <2>3, <2>20 DEF UndoSettleRow
    <3>6. CountedOne' /\ LevelOne'
      BY <1>2, <2>8, <3>1, <3>4, <3>5
    <3> QED
      BY <2>8, <3>1, <3>3, <3>5, <3>6
  <2>23. CASE UndoSettleBlob(r)
    <3>1. LiveRows' = LiveRows /\ acked' = acked /\ Snap(r) \notin LiveRows /\ blob \subseteq blob' \cup {Snap(r)}
          /\ Cost' = Cost /\ up[r].pc = "undoSettleBlob" /\ up'[r].pc = "idle"
      BY <2>3, <2>8, <2>22, <2>23 DEF UndoSettleBlob, LiveRows
    <3> QED
      BY <2>8, <3>1
  <2>21. CASE CrashUpload(r)
    BY <2>4, <2>21 DEF CrashUpload
  <2> HIDE DEF One
  <2> QED
    BY <1>5, <2>11, <2>12, <2>13, <2>14, <2>15, <2>16, <2>17, <2>18, <2>19, <2>20, <2>21, <2>23
       DEF UploadStep
<1>6. ASSUME UNCHANGED <<up, acked, marks>>, LiveRows' = LiveRows, LiveRows \cap blob \subseteq blob',
             rows' \subseteq rows
      PROVE  Counted' /\ Level' /\ Stored' /\ Undoing'
  <2>1. Counted /\ Level /\ Stored /\ Undoing
    BY <1>3, <1>6 DEF CountInv
  <2> QED
    BY <1>6, <2>1 DEF Counted, Level, Stored, Undoing, Extra, At, Snap, Cost
<1>7. ASSUME NEW s \in Snapshots, Expire(s) \/ PurgeBlob(s) \/ PurgeRow(s)
      PROVE  Counted' /\ Level' /\ Stored' /\ Undoing'
  <2>1. PurgeRow(s) \/ PurgeBlob(s) => s \in deleted
    BY <1>1 DEF PurgeRow, PurgeBlob, RestoreInv, HeldRow, TypeOK
  <2>2. LiveRows' = LiveRows
    BY <1>7, <2>1 DEF Expire, PurgeBlob, PurgeRow, HardDelete, LiveRows
  <2>3. UNCHANGED <<up, acked, marks>> /\ rows' \subseteq rows /\ LiveRows \cap blob \subseteq blob'
    BY <1>7, <2>1 DEF Expire, PurgeBlob, PurgeRow, HardDelete, LiveRows
  <2> QED
    BY <1>6, <2>2, <2>3
<1>8. ASSUME CrashPurge \/ UNCHANGED vars
      PROVE  Counted' /\ Level' /\ Stored' /\ Undoing'
  BY <1>6, <1>8 DEF CrashPurge, vars, LiveRows
<1> QED
  BY <1>4, <1>5, <1>7, <1>8, StepCases

LEMMA InitCount == Init => CountInv
<1> SUFFICES ASSUME Init
             PROVE  CountInv
  OBVIOUS
<1>1. \A r \in Requests : up[r].pc = "idle"
  BY DEF Init, Idle
<1>2. LiveRows = {} /\ acked = {} /\ Cardinality({}) = 0
  BY FS_EmptySet DEF Init, LiveRows
<1>3. Cost = 0
  BY DEF Init, Cost
<1> QED
  BY <1>1, <1>2, <1>3, ConstantsAssumption DEF CountInv, Counted, Level, Stored, Undoing, Extra, At

LEMMA CountAlways ==
  ASSUME OneUpload
  PROVE  Spec => [](RestoreInv /\ CountInv)
<1>1. RestoreInv /\ CountInv /\ [Next]_vars => RestoreInv' /\ CountInv'
  BY RestoreStep, CountStep
<1> QED
  BY <1>1, InitRestore, InitCount, PTL DEF Spec

\* A client that uploads one snapshot at a time, with no fault: as many snapshots
\* can be restored as were acknowledged, up to the tier's number, in the middle of
\* an upload and after one that failed too; settlements that failed after their
\* pruning have cost one restore point between them.
THEOREM FailedUploadsKeepPoints ==
  ASSUME OneUpload
  PROVE  Spec => []RestorePointsKept
<1>1. ASSUME RestoreInv, CountInv
      PROVE  RestorePointsKept
  <2>1. SUFFICES ASSUME "fault" \notin marks
                 PROVE  Cardinality(RestorePoints) + Cost >= MaxSnapshots
                        \/ Cardinality(RestorePoints) + Cost >= Cardinality(acked)
    BY DEF RestorePointsKept, Cost
  <2>2. TypeOK /\ Counted /\ Level /\ Stored
    BY <1>1, <2>1 DEF CountInv, RestoreInv
  <2>3. /\ IsFiniteSet(LiveRows) /\ Cardinality(LiveRows) \in Nat
        /\ Cardinality(acked) \in Nat /\ MaxSnapshots \in Nat /\ Cost \in {0, 1}
    BY <2>2, PruneType, Finite, ConstantsAssumption DEF TypeOK, Cost
  <2>4. RestorePoints = LiveRows \cap blob
    BY <2>2, PruneType DEF RestorePoints, DownloadSnapshot
  <2>5. CASE \A r \in Requests : ~Extra(r)
    <3>1. RestorePoints = LiveRows
      BY <2>2, <2>4, <2>5 DEF Stored, Extra
    <3> QED
      BY <2>2, <2>5, <3>1 DEF Level
  <2>6. ASSUME NEW r \in Requests, Extra(r)
        PROVE  Cardinality(RestorePoints) + Cost >= MaxSnapshots
               \/ Cardinality(RestorePoints) + Cost >= Cardinality(acked)
    <3>1. LiveRows \ {Snap(r)} \in SUBSET RestorePoints
      BY <1>1, <2>2, <2>4 DEF Stored, OneUpload
    <3>2. IsFiniteSet(RestorePoints) /\ Cardinality(RestorePoints) \in Nat
      BY <2>2, <2>4, PruneType, Finite
    <3>3. Cardinality(LiveRows \ {Snap(r)}) >= Cardinality(LiveRows) - 1
          /\ Cardinality(LiveRows \ {Snap(r)}) \in Nat
      BY <2>3, OneMoreOrLess
    <3>4. Cardinality(LiveRows \ {Snap(r)}) <= Cardinality(RestorePoints)
      BY <3>1, <3>2, FS_Subset
    <3>5. up[r].count \in Nat
      BY <2>2, <2>6 DEF TypeOK, Extra, Idle, Uploads
    <3>6. /\ Cardinality(LiveRows) = up[r].count + 1
          /\ up[r].count + Cost >= MaxSnapshots \/ up[r].count + Cost >= Cardinality(acked)
      BY <2>2, <2>6 DEF Counted
    <3> QED
      BY <2>3, <3>2, <3>3, <3>4, <3>5, <3>6
  <2> QED
    BY <2>5, <2>6
<1>2. RestoreInv /\ CountInv => RestorePointsKept
  BY <1>1
<1> QED
  BY <1>2, CountAlways, PTL

-----------------------------------------------------------------------------
(***************************************************************************)
(* How many rows overlapping uploads leave                                 *)
(***************************************************************************)
LEMMA Counts ==
  ASSUME TypeOK
  PROVE  /\ IsFiniteSet(LiveRows) /\ Cardinality(LiveRows) \in Nat
         /\ IsFiniteSet(Settled) /\ Cardinality(Settled) \in Nat
         /\ Cardinality(Settled) <= Cardinality(LiveRows)
         /\ IsFiniteSet(Admitted) /\ Cardinality(Admitted) \in Nat
         /\ Cardinality(Requests) \in Nat /\ MaxSnapshots \in Nat /\ Together \in Nat
<1>1. IsFiniteSet(LiveRows) /\ Cardinality(LiveRows) \in Nat
  BY PruneType, Finite
<1>2. Settled \in SUBSET LiveRows /\ Admitted \in SUBSET Requests
  BY DEF Settled, Admitted
<1>3. IsFiniteSet(Requests) /\ Cardinality(Requests) \in Nat /\ MaxSnapshots \in Nat
  BY ConstantsAssumption, FS_CardinalityType
<1>4. IsFiniteSet(Settled) /\ Cardinality(Settled) <= Cardinality(LiveRows) /\ IsFiniteSet(Admitted)
  BY <1>1, <1>2, <1>3, FS_Subset
<1> QED
  BY <1>1, <1>3, <1>4, FS_CardinalityType DEF Together

LEMMA CountsNext ==
  ASSUME TypeOK'
  PROVE  /\ IsFiniteSet(LiveRows') /\ Cardinality(LiveRows') \in Nat
         /\ IsFiniteSet(Settled') /\ Cardinality(Settled') \in Nat
         /\ Cardinality(Settled') <= Cardinality(LiveRows')
         /\ IsFiniteSet(Admitted') /\ Cardinality(Admitted') \in Nat
         /\ Together' \in Nat
<1>1. LiveRows' \in SUBSET Snapshots /\ Settled' \in SUBSET LiveRows' /\ Admitted' \in SUBSET Requests
  BY DEF TypeOK, LiveRows, Settled, Admitted
<1>2. IsFiniteSet(LiveRows') /\ Cardinality(LiveRows') \in Nat
  BY <1>1, Finite
<1>3. IsFiniteSet(Settled') /\ Cardinality(Settled') <= Cardinality(LiveRows') /\ IsFiniteSet(Admitted')
  BY <1>1, <1>2, ConstantsAssumption, FS_Subset
<1> QED
  BY <1>2, <1>3, ConstantsAssumption, FS_CardinalityType DEF Together

\* No upload touches another, and only a new one makes uploads overlap.
LEMMA UploadMoves ==
  ASSUME TypeOK, NEW r \in Requests, UploadStep(r) \/ CrashUpload(r)
  PROVE  /\ ~At(r, "idle") /\ Stays(r)
         /\ marks \subseteq marks' /\ ("overlap" \in marks' <=> "overlap" \in marks)
<1>1. ~At(r, "idle")
  BY Active
<1>2. Stays(r)
  BY DEF TypeOK, Stays, UploadStep, ReserveQuota, CreateRow, PutBlob, UndoRow,
         UndoPruneBlob, UndoUsage, Prune, ReleasePruned, Settle, UndoSettleRow,
         UndoSettleBlob, CrashUpload, Goto, Return, AfterRollback
<1>3. \A M : Mark(M) /\ "overlap" \notin M =>
        marks \subseteq marks' /\ ("overlap" \in marks' <=> "overlap" \in marks)
  BY DEF Mark
<1>4. marks \subseteq marks' /\ ("overlap" \in marks' <=> "overlap" \in marks)
  BY <1>3 DEF UploadStep, ReserveQuota, CreateRow, PutBlob, UndoRow,
         UndoPruneBlob, UndoUsage, Prune, ReleasePruned, Settle, UndoSettleRow,
         UndoSettleBlob, CrashUpload
<1> QED
  BY <1>1, <1>2, <1>4

\* Whatever one upload does, the others' rows stay on trial and the others admitted.
LEMMA OthersStay ==
  ASSUME NEW r \in Requests, Stays(r)
  PROVE  /\ OnTrial \subseteq OnTrial' \cup {Snap(r)}
         /\ Trial(r)' /\ Snap(r)' = Snap(r) => Snap(r) \in OnTrial'
         /\ ~Trial(r) => OnTrial \subseteq OnTrial'
         /\ Admitted' \ {r} = Admitted \ {r}
         /\ \A q \in Requests \ {r} : At(q, "idle")' <=> At(q, "idle")
BY DEF Stays, OnTrial, Trial, Extra, Admitted, Admits, At, Snap

LEMMA FewerStays ==
  ASSUME TypeOK, TypeOK', Bounded, "fault" \notin marks',
         marks \subseteq marks', Together <= Together',
         Cardinality(Settled') + Cardinality(Admitted')
           <= Cardinality(Settled) + Cardinality(Admitted)
  PROVE  Bounded'
<1>1. /\ Cardinality(Settled) \in Nat /\ Cardinality(Admitted) \in Nat /\ Together \in Nat
      /\ MaxSnapshots \in Nat
  BY Counts
<1>2. Cardinality(Settled') \in Nat /\ Cardinality(Admitted') \in Nat /\ Together' \in Nat
  BY CountsNext
<1>3. Cardinality(Settled) + Cardinality(Admitted) <= MaxSnapshots - 1 + Together
  BY DEF Bounded
<1>4. Cardinality(Settled') + Cardinality(Admitted') <= MaxSnapshots - 1 + Together'
  BY <1>1, <1>2, <1>3
<1> QED
  BY <1>4 DEF Bounded

LEMMA LimitStep ==
  ASSUME LimitInv, [Next]_vars
  PROVE  LimitInv'
<1>1. TypeOK /\ TypeOK' /\ Ordered /\ Ordered' /\ Alone /\ Bounded
  BY TypeStep, OrderedStep DEF LimitInv
<1> USE <1>1
<1>2. /\ Cardinality(Settled) \in Nat /\ Cardinality(Admitted) \in Nat /\ Together \in Nat
      /\ IsFiniteSet(Settled) /\ IsFiniteSet(Admitted) /\ MaxSnapshots \in Nat
      /\ IsFiniteSet(LiveRows) /\ Cardinality(LiveRows) \in Nat
      /\ IsFiniteSet(Requests) /\ Cardinality(Requests) \in Nat
  BY Counts, ConstantsAssumption
<1>3. /\ Cardinality(Settled') \in Nat /\ Cardinality(Admitted') \in Nat /\ Together' \in Nat
      /\ IsFiniteSet(Settled') /\ IsFiniteSet(Admitted')
      /\ Cardinality(Settled') <= Cardinality(LiveRows') /\ Cardinality(LiveRows') \in Nat
  BY CountsNext
<1>4. ASSUME Settled' \subseteq Settled, Admitted' \subseteq Admitted
      PROVE  Cardinality(Settled') + Cardinality(Admitted')
               <= Cardinality(Settled) + Cardinality(Admitted)
  <2>1. Cardinality(Settled') <= Cardinality(Settled) /\ Cardinality(Admitted') <= Cardinality(Admitted)
    BY <1>2, <1>4, FS_Subset
  <2> QED
    BY <1>2, <1>3, <2>1
<1>5. ASSUME NEW r \in Requests, NEW s \in Snapshots, BeginUpload(r, s)
      PROVE  Alone' /\ Bounded'
  <2>1. PICK active \in BOOLEAN :
          /\ up' = [up EXCEPT ![r] = [pc |-> IF active THEN "create" ELSE "quota",
                                      snap |-> s, guard |-> active,
                                      count |-> CountByUser, pruned |-> {}]]
          /\ Mark((IF active THEN {"hook"} ELSE {}) \cup (IF Overlapping THEN {"overlap"} ELSE {}))
    BY <1>5, Zenon DEF BeginUpload
  <2>2. /\ At(r, "idle") /\ Stays(r) /\ up'[r].pc \in {"create", "quota"}
        /\ up'[r].count = Cardinality(LiveRows)
    BY <1>5, <2>1 DEF BeginUpload, TypeOK, Stays, CountByUser
  <2>3. /\ marks \subseteq marks'
        /\ "overlap" \notin marks' => \A q \in Requests : At(q, "idle")
    BY <2>1 DEF Mark, Overlapping
  <2>4. LiveRows' = LiveRows
    BY <1>5 DEF BeginUpload, LiveRows
  <2>5. Alone'
    BY <2>2, <2>3, OthersStay DEF Alone
  <2>6. ASSUME "fault" \notin marks'
        PROVE  Cardinality(Settled') + Cardinality(Admitted') <= MaxSnapshots - 1 + Together'
    <3>1. CASE Cardinality(LiveRows) < MaxSnapshots
      <4>1. Cardinality(Settled') <= MaxSnapshots - 1
        BY <1>2, <1>3, <2>4, <3>1
      <4>2. Cardinality(Admitted') <= Together'
        <5>1. CASE "overlap" \in marks'
          <6>1. Admitted' \subseteq Requests
            BY DEF Admitted
          <6> QED
            BY <1>2, <5>1, <6>1, FS_Subset DEF Together
        <5>2. CASE "overlap" \notin marks'
          <6>1. Admitted \ {r} = {}
            BY <2>3, <5>2 DEF Admitted, Admits, At
          <6>2. Admitted' \subseteq {r}
            BY <2>2, <6>1, OthersStay
          <6>3. IsFiniteSet({r}) /\ Cardinality({r}) = 1
            BY FS_Singleton
          <6> QED
            BY <5>2, <6>2, <6>3, FS_Subset DEF Together
        <5> QED
          BY <5>1, <5>2
      <4> QED
        BY <1>2, <1>3, <4>1, <4>2
    <3>2. CASE ~(Cardinality(LiveRows) < MaxSnapshots)
      <4>1. ~Trial(r) /\ r \notin Admitted'
        BY <2>2, <3>2 DEF Trial, Extra, Admitted, Admits, At
      <4>2. Settled' \subseteq Settled /\ Admitted' \subseteq Admitted
        BY <2>2, <2>4, <4>1, OthersStay DEF Settled
      <4>3. Together <= Together'
        <5>1. Cardinality(Requests) >= 1
          BY <1>2, FS_EmptySet
        <5> QED
          BY <1>2, <2>3, <5>1 DEF Together
      <4>4. Bounded'
        BY <1>4, <2>3, <2>6, <4>2, <4>3, FewerStays
      <4> QED
        BY <2>6, <4>4 DEF Bounded
    <3> QED
      BY <3>1, <3>2
  <2> QED
    BY <2>5, <2>6 DEF Bounded
<1>6. ASSUME NEW r \in Requests, UploadStep(r) \/ CrashUpload(r)
      PROVE  Alone' /\ Bounded'
  <2>1. /\ ~At(r, "idle") /\ Stays(r) /\ up[r] \in Uploads
        /\ marks \subseteq marks' /\ ("overlap" \in marks' <=> "overlap" \in marks)
    BY <1>6, UploadMoves, Uploading
  <2>2. Alone'
    BY <2>1, OthersStay DEF Alone
  <2>3. Together' = Together
    BY <2>1 DEF Together
  <2>4. /\ \A pc \in UploadPC : Goto(r, pc) => up'[r].pc = pc /\ Snap(r)' = Snap(r)
                                              /\ up'[r].count = up[r].count
        /\ Return(r) => up'[r].pc = "idle"
        /\ AfterRollback(r) => up'[r].pc \in {"idle", "undoUsage"}
    BY <2>1, Moves DEF Snap, UploadPC
  <2>5. up[r].count \in Nat
    BY <2>1 DEF Uploads
  <2>6. SUFFICES ASSUME "fault" \notin marks'
                 PROVE  Bounded'
    BY <2>2 DEF Bounded
  <2>7. "fault" \notin marks /\ \A M : Mark(M) => "fault" \notin M
    BY <2>1, <2>6 DEF Mark
  <2>8. SUFFICES \/ Settled' \subseteq Settled /\ Admitted' \subseteq Admitted
                 \/ Cardinality(Settled') + Cardinality(Admitted')
                      <= Cardinality(Settled) + Cardinality(Admitted)
                 \/ Cardinality(Settled') + Cardinality(Admitted') <= MaxSnapshots - 1 + Together'
    <3>1. Together <= Together'
      BY <1>2, <2>3
    <3> QED
      BY <1>4, <2>1, <2>6, <3>1, FewerStays DEF Bounded
  <2> DEFINE Fewer == Settled' \subseteq Settled /\ Admitted' \subseteq Admitted
  <2>9. ASSUME LiveRows' \subseteq LiveRows, ~Admits(r)',
               Trial(r) => Snap(r) \notin LiveRows' \/ (Trial(r)' /\ Snap(r)' = Snap(r))
        PROVE  Fewer
    <3>1. Admitted' \subseteq Admitted
      BY <2>1, <2>9, OthersStay DEF Admitted
    <3>2. Settled' \subseteq Settled
      BY <2>1, <2>9, OthersStay DEF Settled
    <3> QED
      BY <3>1, <3>2
  <2> HIDE DEF Fewer
  <2> USE DEF At, UploadPC
  <2>10. CASE ReserveQuota(r)
    <3>1. LiveRows' = LiveRows /\ ~Trial(r)
      BY <2>10 DEF ReserveQuota, LiveRows, Trial, Extra
    <3>2. Admits(r)' => Admits(r)
      BY <2>4, <2>10 DEF ReserveQuota, Admits
    <3> QED
      BY <2>1, <3>1, <3>2, OthersStay DEF Settled, Admitted
  <2>11. CASE CreateRow(r)
    <3>1. CASE Create(Snap(r)) /\ Goto(r, "put")
      <4>1. LiveRows' \subseteq LiveRows \cup {Snap(r)}
        BY <2>11, <3>1 DEF CreateRow, Create, LiveRows
      <4>2. up[r].pc = "create" /\ up'[r].pc = "put" /\ up'[r].count = up[r].count /\ Snap(r)' = Snap(r)
        BY <2>4, <2>11, <3>1 DEF CreateRow
      <4>3. ~Trial(r) /\ ~Admits(r)' /\ Admitted' = Admitted \ {r}
        BY <2>1, <4>2, OthersStay DEF Trial, Extra, Admits, Admitted
      <4>4. CASE up[r].count >= MaxSnapshots
        <5>1. Trial(r)'
          BY <4>2, <4>4 DEF Trial, Extra
        <5> QED
          BY <2>1, <4>1, <4>2, <4>3, <5>1, OthersStay DEF Settled
      <4>5. CASE up[r].count < MaxSnapshots
        <5>1. r \in Admitted
          BY <4>2, <4>5 DEF Admitted, Admits
        <5>2. Cardinality(Admitted') = Cardinality(Admitted) - 1
          BY <1>2, <4>3, <5>1, FS_RemoveElement
        <5>3. Settled' \subseteq Settled \cup {Snap(r)}
          BY <2>1, <4>1, <4>3, OthersStay DEF Settled
        <5>4. IsFiniteSet(Settled \cup {Snap(r)}) /\ Cardinality(Settled \cup {Snap(r)}) <= Cardinality(Settled) + 1
              /\ Cardinality(Settled \cup {Snap(r)}) \in Nat
          BY <1>2, OneMoreOrLess, FS_AddElement
        <5>5. Cardinality(Settled') <= Cardinality(Settled \cup {Snap(r)})
          BY <5>3, <5>4, FS_Subset
        <5> QED
          BY <1>2, <1>3, <5>2, <5>4, <5>5
      <4> QED
        BY <1>2, <2>5, <4>4, <4>5
    <3>2. CASE AfterRollback(r) /\ UNCHANGED table
      <4>1. LiveRows' = LiveRows /\ ~Trial(r) /\ ~Admits(r)'
        BY <2>4, <2>11, <3>2 DEF CreateRow, LiveRows, Trial, Extra, Admits
      <4> QED
        BY <2>9, <4>1 DEF Fewer
    <3> QED
      BY <2>7, <2>11, <3>1, <3>2 DEF CreateRow
  <2>12. CASE PutBlob(r)
    <3>1. LiveRows' = LiveRows
      BY <2>12 DEF PutBlob, LiveRows
    <3>2. /\ up'[r].pc \in {"undoRow", "prune", "settle"}
          /\ up[r].count >= MaxSnapshots => up'[r].pc \in {"undoRow", "prune"}
          /\ up'[r].count = up[r].count /\ Snap(r)' = Snap(r)
      BY <2>4, <2>12 DEF PutBlob, NeedsPruning
    <3>3. ~Admits(r)' /\ (Trial(r) => Trial(r)')
      BY <3>2 DEF Trial, Extra, Admits
    <3> QED
      BY <2>9, <3>1, <3>2, <3>3 DEF Fewer
  <2>13. CASE UndoRow(r)
    <3>1. HardDelete(Snap(r))
      BY <2>7, <2>13 DEF UndoRow
    <3>2. LiveRows' \subseteq LiveRows /\ Snap(r) \notin LiveRows'
      BY <3>1 DEF HardDelete, LiveRows
    <3>3. ~Admits(r)'
      BY <2>4, <2>13 DEF UndoRow, Admits
    <3> QED
      BY <2>9, <3>2, <3>3 DEF Fewer
  <2>14. CASE Prune(r)
    <3>1. CASE up' = [up EXCEPT ![r].pc = "release", ![r].pruned = PruneOldest(MaxSnapshots)]
               /\ deleted' = deleted \cup PruneOldest(MaxSnapshots)
      <4>1. LiveRows' = LiveRows \ PruneOldest(MaxSnapshots)
        BY <2>14, <3>1 DEF Prune, LiveRows
      <4>2. Cardinality(Settled') <= MaxSnapshots
        <5>1. Cardinality(LiveRows') <= MaxSnapshots
          BY <4>1, FewAreKept
        <5> QED
          BY <1>2, <1>3, <5>1
      <4>3. r \notin Admitted /\ r \notin Admitted'
        BY <2>1, <2>14, <3>1 DEF Prune, Admitted, Admits, TypeOK, Uploads
      <4>4. Admitted' = Admitted
        <5>1. Admitted' \ {r} = Admitted \ {r}
          BY <2>1, OthersStay
        <5> QED
          BY <4>3, <5>1
      <4>5. Cardinality(Admitted) <= Together - 1
        <5>1. CASE "overlap" \in marks
          <6>1. Admitted \subseteq Requests \ {r}
            BY <4>3 DEF Admitted
          <6>2. IsFiniteSet(Requests \ {r}) /\ Cardinality(Requests \ {r}) = Cardinality(Requests) - 1
            BY <1>2, FS_RemoveElement
          <6>3. Cardinality(Admitted) <= Cardinality(Requests \ {r})
            BY <6>1, <6>2, FS_Subset
          <6> QED
            BY <5>1, <6>2, <6>3 DEF Together
        <5>2. CASE "overlap" \notin marks
          <6>1. Admitted = {}
            BY <2>1, <4>3, <5>2 DEF Alone, Admitted, Admits
          <6> QED
            BY <1>2, <5>2, <6>1, FS_EmptySet DEF Together
        <5> QED
          BY <5>1, <5>2
      <4> QED
        BY <1>2, <1>3, <2>3, <4>2, <4>4, <4>5
    <3>2. CASE Goto(r, "undoPruneRow") /\ UNCHANGED deleted
      <4>1. LiveRows' = LiveRows /\ ~Admits(r)' /\ Snap(r)' = Snap(r) /\ (Trial(r) => Trial(r)')
        BY <2>4, <2>14, <3>2 DEF Prune, LiveRows, Trial, Extra, Admits
      <4> QED
        BY <2>9, <4>1 DEF Fewer
    <3> QED
      BY <2>7, <2>14, <3>1, <3>2 DEF Prune
  <2>15. CASE UndoPruneBlob(r) \/ UndoUsage(r) \/ Settle(r) \/ UndoSettleRow(r) \/ UndoSettleBlob(r)
    <3>1. LiveRows' \subseteq LiveRows
      BY <2>15 DEF UndoPruneBlob, UndoUsage, Settle, UndoSettleRow, UndoSettleBlob, SoftDelete, LiveRows
    <3>2. ~Trial(r)
      BY <2>15 DEF UndoPruneBlob, UndoUsage, Settle, UndoSettleRow, UndoSettleBlob, Trial, Extra
    <3>3. ~Admits(r)'
      BY <2>4, <2>15 DEF UndoPruneBlob, UndoUsage, Settle, UndoSettleRow, UndoSettleBlob, Admits
    <3> QED
      BY <2>9, <3>1, <3>2, <3>3 DEF Fewer
  <2>16. CASE ReleasePruned(r)
    <3>1. LiveRows' = LiveRows /\ ~Trial(r)
      BY <2>16 DEF ReleasePruned, LiveRows, Trial, Extra
    <3>2. up'[r].pc \in {"settle", "release", "idle"}
      <4>1. ASSUME NEW s \in up[r].pruned, up' = [up EXCEPT ![r].pruned = @ \ {s}]
            PROVE  up'[r].pc = "release"
        BY <2>1, <2>16, <4>1 DEF ReleasePruned, TypeOK, Uploads
      <4> QED
        BY <2>4, <2>16, <4>1 DEF ReleasePruned
    <3> QED
      BY <2>9, <3>1, <3>2 DEF Fewer, Admits
  <2>17. CASE CrashUpload(r)
    BY <2>7, <2>17 DEF CrashUpload
  <2> QED
    BY <1>6, <2>10, <2>11, <2>12, <2>13, <2>14, <2>15, <2>16, <2>17 DEF UploadStep
<1>7. ASSUME UNCHANGED <<up, marks>>, LiveRows' \subseteq LiveRows
      PROVE  Alone' /\ Bounded'
  <2>1. Alone' /\ Together' = Together
    BY <1>7 DEF Alone, Together, At
  <2>2. Settled' \subseteq Settled /\ Admitted' = Admitted
    BY <1>7 DEF Settled, OnTrial, Trial, Extra, Admitted, Admits, Snap
  <2>3. "fault" \notin marks' => Bounded'
    BY <1>2, <1>4, <1>7, <2>1, <2>2, FewerStays
  <2> QED
    BY <2>1, <2>3 DEF Bounded
<1>8. ASSUME \/ \E s \in Snapshots : Expire(s) \/ PurgeBlob(s) \/ PurgeRow(s)
             \/ CrashPurge \/ UNCHANGED vars
      PROVE  Alone' /\ Bounded'
  BY <1>7, <1>8 DEF Expire, PurgeBlob, PurgeRow, HardDelete, CrashPurge, vars, LiveRows
<1>9. Alone' /\ Bounded'
  BY <1>5, <1>6, <1>8, StepCases
<1> QED
  BY <1>9 DEF LimitInv

LEMMA InitLimit == Init => LimitInv
<1> SUFFICES ASSUME Init
             PROVE  LimitInv
  OBVIOUS
<1>1. \A r \in Requests : up[r].pc = "idle"
  BY DEF Init, Idle
<1>2. Settled = {} /\ Admitted = {} /\ "overlap" \notin marks
  BY <1>1 DEF Init, Settled, LiveRows, Admitted, Admits
<1>3. Bounded
  BY <1>2, FS_EmptySet, ConstantsAssumption DEF Bounded, Together
<1> QED
  BY <1>1, <1>3, InitType DEF Init, LimitInv, Ordered, Alone, At

\* However many uploads overlap, and whichever of them are refused, rolled back or
\* taken back: when none is under way the user keeps at most the tier's number of
\* snapshots, and one more for each but the first of the uploads that can overlap
\* if some did.  A count that is stale when the pruning is decided on does not add
\* up over any number of uploads.
THEOREM LimitKept == Spec => []SnapshotLimit
<1>1. LimitInv /\ [Next]_vars => LimitInv'
  BY LimitStep
<1>2. ASSUME LimitInv
      PROVE  SnapshotLimit
  <2> SUFFICES ASSUME \A r \in Requests : At(r, "idle"), "fault" \notin marks
               PROVE  Cardinality(LiveRows) <= MaxSnapshots - 1 + Together
    <3>1. Cardinality(LiveRows) \in Nat /\ MaxSnapshots \in Nat /\ Cardinality(Requests) \in Nat
      BY <1>2, Counts DEF LimitInv
    <3> QED
      BY <3>1 DEF SnapshotLimit, CountByUser, Together
  <2>1. Settled = LiveRows /\ Admitted = {}
    BY DEF At, Settled, OnTrial, Trial, Extra, Admitted, Admits
  <2>2. Cardinality(Settled) + Cardinality(Admitted) <= MaxSnapshots - 1 + Together
    BY <1>2 DEF LimitInv, Bounded
  <2>3. Cardinality(Settled) \in Nat /\ Cardinality({}) = 0
    BY <1>2, Counts, FS_EmptySet DEF LimitInv
  <2> QED
    BY <2>1, <2>2, <2>3
<1> QED
  BY <1>1, <1>2, InitLimit, PTL DEF Spec

-----------------------------------------------------------------------------
(***************************************************************************)
(* What usage covers                                                       *)
(***************************************************************************)
LEMMA Totals ==
  /\ Total({}) = 0
  /\ \A S, T \in SUBSET Snapshots :
       /\ Total(S) \in Nat /\ Total(S \ T) \in Nat
       /\ Total(S) = Total(S \ T) + Total(S \cap T)
  /\ \A S \in SUBSET Snapshots, s \in Snapshots :
       /\ s \notin S => Total(S \cup {s}) = Total(S) + Size[s]
       /\ s \in S => Total(S) = Total(S \ {s}) + Size[s]
<1>1. Total({}) = 0
  <2>1. {} \in SUBSET Snapshots /\ {} \cap {} = {} /\ {} \cup {} = {}
    OBVIOUS
  <2>2. Total({}) \in Nat /\ Total({}) = Total({}) + Total({})
    BY <2>1, TotalAssumption
  <2>3. \A t \in Nat : t = t + t => t = 0
    OBVIOUS
  <2> QED
    BY <2>2, <2>3, Zenon
<1>2. ASSUME NEW S \in SUBSET Snapshots, NEW T \in SUBSET Snapshots
      PROVE  /\ Total(S) \in Nat /\ Total(S \ T) \in Nat
             /\ Total(S) = Total(S \ T) + Total(S \cap T)
  <2>1. /\ S \ T \in SUBSET Snapshots /\ S \cap T \in SUBSET Snapshots
        /\ (S \ T) \cap (S \cap T) = {} /\ (S \ T) \cup (S \cap T) = S
    OBVIOUS
  <2> QED
    BY <2>1, TotalAssumption
<1>3. ASSUME NEW S \in SUBSET Snapshots, NEW s \in Snapshots
      PROVE  /\ s \notin S => Total(S \cup {s}) = Total(S) + Size[s]
             /\ s \in S => Total(S) = Total(S \ {s}) + Size[s]
  <2>1. {s} \in SUBSET Snapshots /\ Total({s}) = Size[s] /\ S \ {s} \in SUBSET Snapshots
    BY TotalAssumption
  <2>2. CASE s \notin S
    <3>1. S \cap {s} = {}
      BY <2>2
    <3> QED
      BY <2>1, <2>2, <3>1, TotalAssumption
  <2>3. CASE s \in S
    <3>1. (S \ {s}) \cap {s} = {} /\ (S \ {s}) \cup {s} = S
      BY <2>3
    <3>2. Total((S \ {s}) \cup {s}) = Total(S \ {s}) + Total({s})
      BY <2>1, <3>1, TotalAssumption
    <3> QED
      BY <2>1, <2>3, <3>1, <3>2
  <2> QED
    BY <2>2, <2>3
<1> QED
  BY <1>1, <1>2, <1>3

\* The bytes of an upload that usage covers beside the live rows.
Bytes(u) ==
  IF u.pc \in {"create", "undoUsage", "undoPruneBlob"} THEN Size[u.snap]
  ELSE IF u.pc = "release" THEN Total(u.pruned)
  ELSE 0

ReservedBytes(f) ==
  Total({f[q].snap : q \in {p \in Requests : f[p].pc \in {"create", "undoUsage", "undoPruneBlob"}}})
PrunedBytes(f) ==
  Total(UNION {f[q].pruned : q \in {p \in Requests : f[p].pc = "release"}})

LEMMA OwnBytes ==
  ASSUME OneUpload, NEW f \in [Requests -> {Idle} \cup Uploads], NEW r \in Requests
  PROVE  ReservedBytes(f) + PrunedBytes(f) = Bytes(f[r]) /\ Bytes(f[r]) \in Nat
<1>1. \A q \in Requests : q = r
  BY DEF OneUpload
<1> DEFINE R == {p \in Requests : f[p].pc \in {"create", "undoUsage", "undoPruneBlob"}}
           P == {p \in Requests : f[p].pc = "release"}
           RS == {f[q].snap : q \in R}
           PS == UNION {f[q].pruned : q \in P}
<1>2. ReservedBytes(f) = Total(RS) /\ PrunedBytes(f) = Total(PS)
  BY DEF ReservedBytes, PrunedBytes
<1>3. CASE f[r].pc \in {"create", "undoUsage", "undoPruneBlob"}
  <2>1. f[r].snap \in Snapshots
    BY <1>3 DEF Idle, Uploads
  <2>2. RS = {f[r].snap} /\ PS = {}
    BY <1>1, <1>3
  <2>3. Total({f[r].snap}) = Size[f[r].snap] /\ Size[f[r].snap] \in Nat
    BY <2>1, TotalAssumption, ConstantsAssumption
  <2>4. Bytes(f[r]) = Size[f[r].snap]
    BY <1>3 DEF Bytes
  <2> HIDE DEF RS, PS
  <2>5. Total(RS) = Size[f[r].snap] /\ Total(PS) = 0
    BY <2>2, <2>3, Totals, Zenon
  <2> QED
    BY <1>2, <2>3, <2>4, <2>5
<1>4. CASE f[r].pc = "release"
  <2>1. f[r].pruned \in SUBSET Snapshots
    BY <1>4 DEF Idle, Uploads
  <2>2. RS = {} /\ PS = f[r].pruned
    BY <1>1, <1>4
  <2>3. Bytes(f[r]) = Total(f[r].pruned)
    BY <1>4 DEF Bytes
  <2>4. Total(f[r].pruned) \in Nat
    BY <2>1, Totals
  <2> HIDE DEF RS, PS
  <2>5. Total(RS) = 0 /\ Total(PS) = Total(f[r].pruned)
    BY <2>2, Totals, Zenon
  <2> QED
    BY <1>2, <2>3, <2>4, <2>5
<1>5. CASE f[r].pc \notin {"create", "undoUsage", "undoPruneBlob", "release"}
  <2>1. RS = {} /\ PS = {}
    BY <1>1, <1>5
  <2>2. Bytes(f[r]) = 0
    BY <1>5 DEF Bytes
  <2> HIDE DEF RS, PS
  <2>3. Total(RS) = 0 /\ Total(PS) = 0
    BY <2>1, Totals, Zenon
  <2> QED
    BY <1>2, <2>2, <2>3
<1> QED
  BY <1>3, <1>4, <1>5

\* With one upload, usage covers the live rows and that upload's bytes.
Covers(live, f, bytes, M) ==
  M \cap {"hook", "overlap", "fault"} = {} =>
    Total(live) + ReservedBytes(f) + PrunedBytes(f) <= bytes

LEMMA CoversMeaning ==
  /\ UsageCoversStored <=> Covers(LiveRows, up, usage, marks)
  /\ UsageCoversStored' <=> Covers(LiveRows', up', usage', marks')
BY Zenon DEF UsageCoversStored, Covers, ReservedBytes, PrunedBytes, Reserving, Pruning, Snap, At

LEMMA Covered ==
  ASSUME OneUpload, NEW f \in [Requests -> {Idle} \cup Uploads], NEW r \in Requests,
         NEW live \in SUBSET Snapshots, NEW bytes, NEW M
  PROVE  Covers(live, f, bytes, M) <=>
           (M \cap {"hook", "overlap", "fault"} = {} => Total(live) + Bytes(f[r]) <= bytes)
<1>1. /\ ReservedBytes(f) + PrunedBytes(f) = Bytes(f[r])
      /\ ReservedBytes(f) \in Nat /\ PrunedBytes(f) \in Nat /\ Total(live) \in Nat
  <2>1. /\ {f[q].snap : q \in {p \in Requests : f[p].pc \in {"create", "undoUsage", "undoPruneBlob"}}}
               \in SUBSET Snapshots
        /\ UNION {f[q].pruned : q \in {p \in Requests : f[p].pc = "release"}} \in SUBSET Snapshots
    BY DEF Idle, Uploads
  <2>2. ReservedBytes(f) \in Nat /\ PrunedBytes(f) \in Nat
    BY <2>1, TotalAssumption, Zenon DEF ReservedBytes, PrunedBytes
  <2> QED
    BY <2>2, OwnBytes, Totals
<1> QED
  BY <1>1 DEF Covers

LEMMA GuardStep ==
  ASSUME OneUpload, TypeOK, Guards, [Next]_vars
  PROVE  Guards'
<1>1. ASSUME NEW r \in Requests, NEW s \in Snapshots, BeginUpload(r, s)
      PROVE  Guards'
  <2>1. PICK active \in BOOLEAN :
          /\ up' = [up EXCEPT ![r] = [pc |-> IF active THEN "create" ELSE "quota",
                                      snap |-> s, guard |-> active,
                                      count |-> CountByUser, pruned |-> {}]]
          /\ Mark((IF active THEN {"hook"} ELSE {}) \cup (IF Overlapping THEN {"overlap"} ELSE {}))
    BY <1>1, Zenon DEF BeginUpload
  <2>2. up'[r].guard = active /\ \A q \in Requests : q = r
    BY <2>1 DEF TypeOK, OneUpload
  <2> QED
    BY <2>1, <2>2 DEF Guards, Mark
<1>2. ASSUME NEW r \in Requests, UploadStep(r) \/ CrashUpload(r)
      PROVE  Guards'
  <2>1. ~At(r, "idle") /\ up[r] \in Uploads
    BY <1>2, Active, Uploading
  <2>2. up'[r].pc = "idle" \/ up'[r].guard = up[r].guard
    <3>1. /\ \A pc \in UploadPC : Goto(r, pc) => up'[r].guard = up[r].guard
          /\ Return(r) => up'[r].pc = "idle"
          /\ AfterRollback(r) => up'[r].pc = "idle" \/ up'[r].guard = up[r].guard
      BY <2>1, Moves DEF UploadPC
    <3>2. ASSUME NEW S, up' = [up EXCEPT ![r].pc = "release", ![r].pruned = S]
          PROVE  up'[r].guard = up[r].guard
      BY <2>1, <3>2 DEF TypeOK, Uploads
    <3>3. ASSUME NEW S, up' = [up EXCEPT ![r].pruned = S]
          PROVE  up'[r].guard = up[r].guard
      BY <2>1, <3>3 DEF TypeOK, Uploads
    <3>4. CrashUpload(r) => up'[r].pc = "idle"
      BY DEF CrashUpload, Idle, TypeOK
    <3> QED
      BY <1>2, <3>1, <3>2, <3>3, <3>4
         DEF UploadPC, UploadStep, ReserveQuota, CreateRow, PutBlob, UndoRow, UndoPruneBlob,
             UndoUsage, Prune, ReleasePruned, Settle, UndoSettleRow, UndoSettleBlob
  <2>3. marks \subseteq marks'
    BY <1>2 DEF UploadStep, ReserveQuota, CreateRow, PutBlob, UndoRow,
          UndoPruneBlob, UndoUsage, Prune, ReleasePruned, Settle, UndoSettleRow, UndoSettleBlob,
          CrashUpload, Mark
  <2>4. \A q \in Requests : q = r
    BY DEF OneUpload
  <2> QED
    BY <2>1, <2>2, <2>3, <2>4 DEF Guards, At
<1>3. UNCHANGED <<up, marks>> => Guards'
  BY DEF Guards, At
<1> QED
  BY <1>1, <1>2, <1>3, StepCases DEF Expire, PurgeBlob, PurgeRow, CrashPurge, vars

LEMMA UsageStep ==
  ASSUME OneUpload, SnapshotInv, [Next]_vars
  PROVE  UsageCoversStored'
<1>1. TypeOK /\ TypeOK' /\ RestoreInv /\ Guards /\ UsageCoversStored
  BY TypeStep DEF SnapshotInv, RestoreInv
<1>2. marks \subseteq marks'
  BY StepCases DEF BeginUpload, UploadStep, ReserveQuota, CreateRow, PutBlob, UndoRow,
          UndoPruneBlob, UndoUsage, Prune, ReleasePruned, Settle, UndoSettleRow, UndoSettleBlob,
          CrashUpload, Mark, Expire, PurgeBlob, PurgeRow, CrashPurge, vars
<1>3. SUFFICES ASSUME marks' \cap {"hook", "overlap", "fault"} = {}
               PROVE  UsageCoversStored'
  BY DEF UsageCoversStored
<1>4. /\ "hook" \notin marks /\ "overlap" \notin marks /\ "fault" \notin marks
      /\ "hook" \notin marks' /\ "fault" \notin marks'
  BY <1>2, <1>3
<1>5. ASSUME NEW r \in Requests, Total(LiveRows') + Bytes(up'[r]) <= usage'
      PROVE  UsageCoversStored'
  <2>1. up' \in [Requests -> {Idle} \cup Uploads] /\ LiveRows' \in SUBSET Snapshots
    BY <1>1 DEF TypeOK, LiveRows
  <2>2. Covers(LiveRows', up', usage', marks')
    BY <1>5, <2>1, Covered
  <2> QED
    BY <2>2, CoversMeaning
<1>6. LiveRows \in SUBSET Snapshots /\ LiveRows' \in SUBSET Snapshots
      /\ Total(LiveRows) \in Nat /\ Total(LiveRows') \in Nat /\ usage \in Nat
  BY <1>1, Totals DEF TypeOK, LiveRows
<1>7. ASSUME NEW r \in Requests
      PROVE  Total(LiveRows) + Bytes(up[r]) <= usage /\ Bytes(up[r]) \in Nat
  <2>1. up \in [Requests -> {Idle} \cup Uploads] /\ Covers(LiveRows, up, usage, marks)
    BY <1>1, CoversMeaning DEF TypeOK
  <2>2. marks \cap {"hook", "overlap", "fault"} = {}
    BY <1>4
  <2> QED
    BY <1>6, <2>1, <2>2, Covered, OwnBytes
<1>8. ASSUME NEW r \in Requests, NEW s \in Snapshots, BeginUpload(r, s)
      PROVE  UsageCoversStored'
  <2>1. /\ up' = [up EXCEPT ![r] = [pc |-> "quota", snap |-> s, guard |-> FALSE,
                                    count |-> CountByUser, pruned |-> {}]]
        /\ LiveRows' = LiveRows /\ usage' = usage
    BY <1>4, <1>8 DEF BeginUpload, Mark, LiveRows
  <2>2. up'[r].pc = "quota"
    BY <1>1, <2>1 DEF TypeOK
  <2>3. Bytes(up'[r]) = 0
    BY <2>2 DEF Bytes, Snap, At
  <2> QED
    BY <1>5, <1>6, <1>7, <2>1, <2>3
<1>9. ASSUME NEW r \in Requests, UploadStep(r) \/ CrashUpload(r)
      PROVE  UsageCoversStored'
  <2>1. ~At(r, "idle") /\ Snap(r) \in Snapshots /\ Size[Snap(r)] \in Nat /\ up[r] \in Uploads
    BY <1>1, <1>9, Active, Uploading
  <2>2. ~up[r].guard
    BY <1>1, <1>4, <2>1 DEF Guards
  <2>3. /\ \A pc \in UploadPC : Goto(r, pc) => up'[r].pc = pc /\ Snap(r)' = Snap(r)
                                              /\ up'[r].pruned = up[r].pruned
        /\ Return(r) => up'[r].pc = "idle"
        /\ AfterRollback(r) => up'[r].pc = "undoUsage" /\ Snap(r)' = Snap(r)
    BY <1>1, <2>1, <2>2, Moves DEF Snap, UploadPC
  <2>4. /\ up[r].pc \in {"create", "undoUsage", "undoPruneBlob"} => Bytes(up[r]) = Size[Snap(r)]
        /\ At(r, "release") => Bytes(up[r]) = Total(up[r].pruned)
        /\ up[r].pc \notin {"create", "undoUsage", "undoPruneBlob", "release"} => Bytes(up[r]) = 0
    BY DEF Bytes, Snap, At
  <2>5. /\ up'[r].pc \in {"create", "undoUsage", "undoPruneBlob"} => Bytes(up'[r]) = Size[Snap(r)']
        /\ At(r, "release")' => Bytes(up'[r]) = Total(up'[r].pruned)
        /\ up'[r].pc \notin {"create", "undoUsage", "undoPruneBlob", "release"} => Bytes(up'[r]) = 0
    BY DEF Bytes, Snap, At
  <2>6. \A M : Mark(M) => "fault" \notin M
    BY <1>4 DEF Mark
  <2>7. SUFFICES Total(LiveRows') + Bytes(up'[r]) <= usage'
    BY <1>5
  <2>8. Total(LiveRows) + Bytes(up[r]) <= usage /\ Bytes(up[r]) \in Nat
    BY <1>7
  <2> USE DEF UploadPC, At
  <2>11. CASE ReserveQuota(r)
    <3>1. LiveRows' = LiveRows /\ Bytes(up[r]) = 0
      BY <2>4, <2>11 DEF ReserveQuota, LiveRows
    <3>2. CASE TryAddSnapshotUsage(Size[Snap(r)]) /\ Goto(r, "create")
      <4>1. usage' = usage + Size[Snap(r)] /\ Bytes(up'[r]) = Size[Snap(r)]
        BY <2>3, <2>5, <3>2 DEF TryAddSnapshotUsage
      <4> QED
        BY <1>6, <2>1, <2>8, <3>1, <4>1
    <3>3. CASE Return(r) /\ UNCHANGED usage
      BY <2>3, <2>5, <2>8, <3>1, <3>3
    <3>4. CASE TryAddSnapshotUsage(Size[Snap(r)]) /\ Return(r)
      <4>1. usage' = usage + Size[Snap(r)] /\ Bytes(up'[r]) = 0
        BY <2>3, <2>5, <3>4 DEF TryAddSnapshotUsage
      <4> QED
        BY <1>6, <2>1, <2>8, <3>1, <4>1
    <3> QED
      BY <2>11, <3>2, <3>3, <3>4 DEF ReserveQuota
  <2>12. CASE CreateRow(r)
    <3>1. usage' = usage /\ Bytes(up[r]) = Size[Snap(r)]
      BY <2>4, <2>12 DEF CreateRow
    <3>2. CASE Create(Snap(r)) /\ Goto(r, "put")
      <4>1. LiveRows' = LiveRows \cup {Snap(r)} /\ Snap(r) \notin LiveRows
        BY <1>1, <2>12, <3>2 DEF CreateRow, Create, LiveRows, TypeOK
      <4>2. Total(LiveRows') = Total(LiveRows) + Size[Snap(r)]
        BY <1>6, <2>1, <4>1, Totals
      <4>3. Bytes(up'[r]) = 0
        BY <2>3, <2>5, <3>2
      <4> QED
        BY <1>6, <2>1, <2>8, <3>1, <4>2, <4>3
    <3>3. CASE AfterRollback(r) /\ UNCHANGED table
      <4>1. LiveRows' = LiveRows /\ Bytes(up'[r]) = Size[Snap(r)]
        BY <2>3, <2>5, <2>12, <3>3 DEF CreateRow, LiveRows
      <4> QED
        BY <2>8, <3>1, <4>1
    <3> QED
      BY <2>6, <2>12, <3>2, <3>3 DEF CreateRow
  <2>13. CASE PutBlob(r)
    <3>1. LiveRows' = LiveRows /\ usage' = usage
      BY <2>13 DEF PutBlob, LiveRows
    <3>2. Bytes(up[r]) = 0 /\ Bytes(up'[r]) = 0
      BY <2>3, <2>4, <2>5, <2>13 DEF PutBlob
    <3> QED
      BY <2>8, <3>1, <3>2
  <2>14. CASE UndoRow(r)
    <3>1. HardDelete(Snap(r)) /\ usage' = usage /\ Bytes(up[r]) = 0
      BY <2>4, <2>6, <2>14 DEF UndoRow
    <3>2. Snap(r) \in LiveRows
      BY <1>1, <2>14 DEF UndoRow, RestoreInv, HeldRow, HeldBlob, Holds, LiveRows
    <3>3. LiveRows' = LiveRows \ {Snap(r)}
      BY <3>1 DEF HardDelete, LiveRows
    <3>4. Total(LiveRows) = Total(LiveRows') + Size[Snap(r)]
      BY <1>6, <2>1, <3>2, <3>3, Totals
    <3>5. Bytes(up'[r]) = Size[Snap(r)]
      BY <2>3, <2>5, <2>14 DEF UndoRow
    <3> QED
      BY <1>6, <2>1, <2>8, <3>1, <3>4, <3>5
  <2>15. CASE UndoPruneBlob(r)
    <3>1. LiveRows' = LiveRows /\ usage' = usage
      BY <2>15 DEF UndoPruneBlob, LiveRows
    <3>2. Bytes(up'[r]) = Bytes(up[r])
      BY <2>3, <2>4, <2>5, <2>15 DEF UndoPruneBlob
    <3> QED
      BY <2>8, <3>1, <3>2
  <2>16. CASE UndoUsage(r)
    <3>1. LiveRows' = LiveRows /\ Bytes(up[r]) = Size[Snap(r)] /\ Bytes(up'[r]) = 0
      BY <2>3, <2>4, <2>5, <2>16 DEF UndoUsage, LiveRows
    <3>2. usage' = usage \/ usage' = usage - Size[Snap(r)]
      BY <1>6, <2>1, <2>8, <2>16, <3>1 DEF UndoUsage, RemoveSnapshotUsage
    <3> QED
      BY <1>6, <2>1, <2>8, <3>1, <3>2
  <2>17. CASE Prune(r)
    <3>1. usage' = usage /\ Bytes(up[r]) = 0 /\ rows' = rows
      BY <2>4, <2>17 DEF Prune
    <3>2. CASE up' = [up EXCEPT ![r].pc = "release", ![r].pruned = PruneOldest(MaxSnapshots)]
               /\ deleted' = deleted \cup PruneOldest(MaxSnapshots)
      <4>1. PICK P \in SUBSET Snapshots : P = PruneOldest(MaxSnapshots)
        BY <1>1, PruneType
      <4>2. LiveRows' = LiveRows \ P /\ LiveRows \cap P = P
        BY <1>1, <3>1, <3>2, <4>1, PruneType DEF LiveRows
      <4>3. up'[r].pc = "release" /\ up'[r].pruned = P
        <5>1. "release" \in UploadPC /\ TypeOK
          BY <1>1
        <5>2. up' = [up EXCEPT ![r].pc = "release", ![r].pruned = P]
          BY <3>2, <4>1, Zenon
        <5>3. up' = [up EXCEPT ![r] = [up[r] EXCEPT !.pc = "release", !.pruned = P]]
          BY <5>1, <5>2 DEF TypeOK
        <5>4. up'[r] = [up[r] EXCEPT !.pc = "release", !.pruned = P]
          BY <5>1, <5>3 DEF TypeOK
        <5> QED
          BY <2>1, <5>4 DEF Uploads
      <4>4. Bytes(up'[r]) = Total(P)
        BY <2>5, <4>3
      <4>5. Total(LiveRows) = Total(LiveRows \ P) + Total(LiveRows \cap P)
        BY <1>6, <4>1, Totals
      <4>6. Total(LiveRows) = Total(LiveRows') + Total(P)
        BY <4>2, <4>5, Zenon
      <4> QED
        BY <1>6, <2>8, <3>1, <4>4, <4>6
    <3>3. CASE Goto(r, "undoPruneRow") /\ UNCHANGED deleted
      <4>1. LiveRows' = LiveRows /\ Bytes(up'[r]) = 0
        BY <2>3, <2>5, <3>1, <3>3 DEF LiveRows
      <4> QED
        BY <2>8, <3>1, <4>1
    <3> QED
      BY <2>6, <2>17, <3>2, <3>3 DEF Prune
  <2>18. CASE ReleasePruned(r)
    <3>1. LiveRows' = LiveRows /\ Bytes(up[r]) = Total(up[r].pruned) /\ up[r].pruned \in SUBSET Snapshots
      BY <2>1, <2>4, <2>18 DEF ReleasePruned, LiveRows, Uploads
    <3>2. CASE UNCHANGED usage /\ (Goto(r, "settle") \/ Return(r))
      <4>1. Bytes(up'[r]) = 0
        BY <2>3, <2>5, <3>2
      <4> QED
        BY <1>6, <2>8, <3>1, <3>2, <4>1
    <3>3. ASSUME NEW s \in up[r].pruned, RemoveSnapshotUsage(Size[s]),
                 up' = [up EXCEPT ![r].pruned = @ \ {s}]
          PROVE  Total(LiveRows') + Bytes(up'[r]) <= usage'
      <4>1. up'[r].pc = "release" /\ up'[r].pruned = up[r].pruned \ {s}
        BY <1>1, <2>1, <2>18, <3>3 DEF ReleasePruned, TypeOK, Uploads
      <4>2. PICK P \in SUBSET Snapshots : P = up[r].pruned
        BY <3>1
      <4>3. s \in Snapshots /\ Size[s] \in Nat /\ Total(P) = Total(P \ {s}) + Size[s]
        BY <3>3, <4>2, Totals, ConstantsAssumption
      <4>4. Bytes(up'[r]) = Total(P \ {s}) /\ Total(P \ {s}) \in Nat
        <5>1. {s} \in SUBSET Snapshots
          BY <4>3
        <5> QED
          BY <2>5, <4>1, <4>2, <5>1, Totals
      <4>5. usage' = usage - Size[s]
        BY <1>6, <2>8, <3>1, <3>3, <4>2, <4>3, <4>4 DEF RemoveSnapshotUsage
      <4> QED
        BY <1>6, <2>8, <3>1, <4>2, <4>3, <4>4, <4>5
    <3> QED
      BY <2>18, <3>2, <3>3 DEF ReleasePruned
  <2>19. CASE Settle(r)
    <3>1. LiveRows' = LiveRows /\ usage' = usage
      BY <2>19 DEF Settle, LiveRows
    <3>2. Bytes(up[r]) = 0 /\ Bytes(up'[r]) = 0
      BY <2>3, <2>4, <2>5, <2>19 DEF Settle
    <3> QED
      BY <2>8, <3>1, <3>2
  <2>20. CASE UndoSettleRow(r) \/ UndoSettleBlob(r)
    <3>1. usage' = usage /\ Bytes(up[r]) = 0 /\ Bytes(up'[r]) = 0
      BY <2>3, <2>4, <2>5, <2>20 DEF UndoSettleRow, UndoSettleBlob
    <3>2. LiveRows' = LiveRows \/ (Snap(r) \in LiveRows /\ LiveRows' = LiveRows \ {Snap(r)})
      BY <2>20 DEF UndoSettleRow, UndoSettleBlob, SoftDelete, LiveRows
    <3>3. Total(LiveRows') <= Total(LiveRows)
      <4>1. CASE LiveRows' = LiveRows
        BY <1>6, <4>1
      <4>2. CASE Snap(r) \in LiveRows /\ LiveRows' = LiveRows \ {Snap(r)}
        <5>1. Total(LiveRows) = Total(LiveRows') + Size[Snap(r)]
          BY <1>6, <2>1, <4>2, Totals
        <5> QED
          BY <1>6, <2>1, <5>1
      <4> QED
        BY <3>2, <4>1, <4>2
    <3> QED
      BY <1>6, <2>8, <3>1, <3>3
  <2>21. CASE CrashUpload(r)
    BY <2>6, <2>21 DEF CrashUpload
  <2> QED
    BY <1>9, <2>11, <2>12, <2>13, <2>14, <2>15, <2>16, <2>17, <2>18, <2>19, <2>20, <2>21
       DEF UploadStep
<1>10. ASSUME UNCHANGED <<up, usage>>, LiveRows' = LiveRows
       PROVE  UsageCoversStored'
  BY <1>1, <1>4, <1>10 DEF UsageCoversStored, Reserving, Pruning, At, Snap
<1>11. ASSUME NEW s \in Snapshots, Expire(s) \/ PurgeBlob(s) \/ PurgeRow(s)
       PROVE  UsageCoversStored'
  <2>1. PurgeRow(s) => s \in deleted
    BY <1>1 DEF PurgeRow, RestoreInv, HeldRow, TypeOK
  <2>2. UNCHANGED <<up, usage>> /\ LiveRows' = LiveRows
    BY <1>11, <2>1 DEF Expire, PurgeBlob, PurgeRow, HardDelete, LiveRows
  <2> QED
    BY <1>10, <2>2
<1>12. ASSUME CrashPurge \/ UNCHANGED vars
       PROVE  UsageCoversStored'
  BY <1>10, <1>12 DEF CrashPurge, vars, LiveRows
<1> QED
  BY <1>8, <1>9, <1>11, <1>12, StepCases

\* A client that uploads one snapshot at a time, without the hook and without a
\* fault: the bytes charged to the user cover every live snapshot, every upload on
\* its way and every pruned snapshot not yet given back.  No error path gives
\* back more than it took, and none gives back twice.
THEOREM UsageCovered ==
  ASSUME OneUpload
  PROVE  Spec => []UsageCoversStored
<1>1. Init => SnapshotInv
  <2> SUFFICES ASSUME Init
               PROVE  Guards /\ UsageCoversStored
    BY InitRestore, InitCount DEF SnapshotInv
  <2>1. \A r \in Requests : up[r].pc = "idle"
    BY DEF Init, Idle
  <2>2. LiveRows = {} /\ usage = 0
    BY DEF Init, LiveRows
  <2>3. {Snap(r) : r \in Reserving} = {} /\ UNION {up[r].pruned : r \in Pruning} = {}
    BY <2>1 DEF Reserving, Pruning, At
  <2>4. Total(LiveRows) = 0 /\ Total({Snap(r) : r \in Reserving}) = 0
        /\ Total(UNION {up[r].pruned : r \in Pruning}) = 0
    BY <2>2, <2>3, Totals, Zenon
  <2>5. 0 + 0 + 0 <= 0
    OBVIOUS
  <2>6. UsageCoversStored
    BY <2>2, <2>4, <2>5, Zenon DEF UsageCoversStored
  <2> QED
    BY <2>1, <2>6 DEF Guards, At
<1>2. SnapshotInv /\ [Next]_vars => SnapshotInv'
  <2> SUFFICES ASSUME SnapshotInv, [Next]_vars
               PROVE  SnapshotInv'
    OBVIOUS
  <2>1. RestoreInv' /\ CountInv'
    BY RestoreStep, CountStep DEF SnapshotInv
  <2>2. Guards'
    BY GuardStep DEF SnapshotInv, RestoreInv
  <2> QED
    BY <2>1, <2>2, UsageStep DEF SnapshotInv
<1>3. SnapshotInv => UsageCoversStored
  BY DEF SnapshotInv
<1> QED
  BY <1>1, <1>2, <1>3, PTL DEF Spec

=============================================================================
