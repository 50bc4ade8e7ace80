-------------------------- MODULE BundleStoreProofs --------------------------
(***************************************************************************)
(* Proofs about BundleStore, for every set of users, bundles and           *)
(* concurrent requests, whatever calls fail, lose their reply or are cut   *)
(* off by a crash.                                                         *)
(***************************************************************************)
EXTENDS BundleStore, TLAPS

(***************************************************************************)
(* The inductive invariant, for every key that no two retention runs had   *)
(* listed at once.  An upload between its Create and its answer owns a row *)
(* that no other upload owns and the purge cannot list; what has been      *)
(* acknowledged has no owner any more; and what a purge has listed is on   *)
(* no other list and stays expired until that purge itself removes it.     *)
(***************************************************************************)
OwnedRow ==
  \A r \in Requests :
    Owner(r) /\ Key(r) \notin contested => row[Key(r)] \in {"live", "deleted"}

OneOwner ==
  \A r, s \in Requests :
    Owner(r) /\ Owner(s) /\ Key(r) = Key(s) /\ Key(r) \notin contested => r = s

StoredWhenSettling ==
  \A r \in Requests :
    At(r, "settle") /\ Key(r) \notin contested => Key(r) \in blob

FailedWhenUndoing ==
  \A r \in Requests :
    At(r, "undoRow") /\ Key(r) \notin contested => Key(r) \in putErr

AckedIsReleased ==
  \A k \in acked \ contested :
    /\ row[k] = "live" /\ k \in blob
    /\ \A r \in Requests : Owner(r) => Key(r) # k

ListedIsExpired ==
  \A p \in Purgers :
    /\ purge[p].cur \subseteq purge[p].batch
    /\ \A k \in purge[p].batch \ contested :
         /\ row[k] = "expired"
         /\ k \in purge[p].cur => k \notin blob
         /\ \A q \in Purgers : k \in purge[q].batch => q = p

StoreInv ==
  /\ OwnedRow /\ OneOwner
  /\ StoredWhenSettling /\ FailedWhenUndoing
  /\ AckedIsReleased /\ ListedIsExpired
  /\ OrphanOnlyAfterFailedPut

IInv == TypeOK /\ StoreInv

-----------------------------------------------------------------------------
(***************************************************************************)
(* Types                                                                   *)
(***************************************************************************)
Upload == [pc : UploadPC, key : Keys, guard : BOOLEAN]

\* Keys are pairs.
LEMMA KeyParts == \A k \in Keys : User(k) \in Users /\ Bundle(k) \in Bundles
  BY DEF Keys, User, Bundle

\* What an upload that is not idle looks like.
LEMMA Uploading ==
  ASSUME TypeOK, NEW r \in Requests, ~At(r, "idle")
  PROVE  /\ up[r] \in Upload
         /\ Key(r) \in Keys
         /\ SizeOf(Key(r)) \in Nat
  BY KeyParts, ConstantsAssumption DEF TypeOK, At, Idle, Upload, Key, SizeOf

\* Moving the program counter keeps the type.
LEMMA GotoType ==
  ASSUME TypeOK, NEW r \in Requests, ~At(r, "idle"), NEW pc \in UploadPC, Goto(r, pc)
  PROVE  up' \in [Requests -> {Idle} \cup Upload]
  BY Uploading DEF TypeOK, Goto, Upload

\* The quota arithmetic stays in the natural numbers.
LEMMA UsageType ==
  ASSUME TypeOK, NEW u \in Users, NEW size \in Nat,
         TryAddBundleUsage(u, size) \/ RemoveBundleUsage(u, size) \/ UNCHANGED usage
  PROVE  usage' \in [Users -> Nat]
  BY DEF TypeOK, TryAddBundleUsage, RemoveBundleUsage, Monus

\* The sum a recalculation reads is a natural number.
LEMMA LiveBytesType == \A u \in Users : LiveBytes(u) \in Nat
<1> SUFFICES ASSUME NEW u \in Users PROVE LiveBytes(u) \in Nat
  OBVIOUS
<1>1. [c \in Charges |-> IF c \in Live(u) THEN Size[c] ELSE 0]
        \in [Charges -> Weights]
  BY DEF Live, Weights
<1>2. QED
  BY <1>1, SumAssumption DEF LiveBytes

\* Row updates keep the type.
LEMMA RowType ==
  ASSUME TypeOK, NEW k \in Keys, Create(k) \/ HardDelete(k) \/ SoftDelete(k)
  PROVE  row' \in [Keys -> {"none", "live", "deleted", "expired"}]
  BY DEF TypeOK, Create, HardDelete, SoftDelete

Retention == [batch : SUBSET Keys, cur : SUBSET Keys, locked : BOOLEAN]

\* What being done with a row does to the run and to the other runs.
LEMMA FinishMoves ==
  ASSUME TypeOK, NEW p \in Purgers, NEW k \in Keys, Finish(p, k)
  PROVE  /\ purge' \in [Purgers -> Retention]
         /\ purge'[p].batch = purge[p].batch \ {k} /\ purge'[p].cur = {}
         /\ purge'[p] = Resting \/ purge'[p].locked = purge[p].locked
         /\ \A q \in Purgers \ {p} : purge'[q] = purge[q]
<1>1. purge \in [Purgers -> Retention] /\ Resting \in Retention
  BY DEF TypeOK, Retention, Resting
<1>2. CASE purge[p].batch = {k}
  BY <1>1, <1>2 DEF Finish, Resting
<1>3. CASE purge[p].batch # {k}
  BY <1>1, <1>3 DEF Finish, Retention
<1> QED
  BY <1>2, <1>3

\* The initial state is well typed.
LEMMA InitType == Init => TypeOK
  BY DEF Init, TypeOK, Resting

\* Every step keeps the state well typed.
LEMMA StepType == TypeOK /\ [Next]_vars => TypeOK'
<1> SUFFICES ASSUME TypeOK, [Next]_vars PROVE TypeOK'
  OBVIOUS
<1> USE DEF Upload
<1>1. CASE UNCHANGED vars
  BY <1>1 DEF TypeOK, vars
<1>2. ASSUME NEW r \in Requests, NEW k \in Keys, BeginUpload(r, k)
      PROVE  TypeOK'
  <2>1. PICK active \in BOOLEAN :
          up' = [up EXCEPT ![r] = [pc |-> "exists", key |-> k, guard |-> active]]
    BY <1>2, Zenon DEF BeginUpload
  <2>2. [pc |-> "exists", key |-> k, guard |-> active] \in Upload
    BY DEF UploadPC
  <2>3. up' \in [Requests -> {Idle} \cup Upload]
    BY <2>1, <2>2 DEF TypeOK
  <2>4. QED
    BY <1>2, <2>3 DEF BeginUpload, TypeOK
<1>3. ASSUME NEW r \in Requests, UploadStep(r) \/ CrashUpload(r)
      PROVE  TypeOK'
  <2>1. ~At(r, "idle")
    BY <1>3 DEF UploadStep, CrashUpload, CheckExists, ReserveQuota, CreateRow,
                PutBlob, UndoRow, UndoUsage, Settle, UndoSettleRow, UndoSettleBlob, At
  <2>2. /\ up[r] \in Upload
        /\ Key(r) \in Keys
        /\ User(Key(r)) \in Users
        /\ SizeOf(Key(r)) \in Nat
    BY <2>1, Uploading, KeyParts
  <2>3. \A pc \in UploadPC : Goto(r, pc) => up' \in [Requests -> {Idle} \cup Upload]
    BY <2>1, GotoType
  <2>4. Return(r) => up' \in [Requests -> {Idle} \cup Upload]
    BY DEF Return, TypeOK
  <2>5. AfterRollback(r) => up' \in [Requests -> {Idle} \cup Upload]
    BY <2>3, <2>4 DEF AfterRollback, UploadPC
  <2>6. CASE CheckExists(r)
    BY <2>3, <2>4, <2>6 DEF CheckExists, TypeOK, UploadPC
  <2>7. CASE ReserveQuota(r)
    BY <2>2, <2>3, <2>4, <2>7, UsageType DEF ReserveQuota, Fails, TypeOK, UploadPC
  <2>8. CASE CreateRow(r)
    BY <2>2, <2>3, <2>5, <2>8, RowType DEF CreateRow, Fails, TypeOK, UploadPC
  <2>9. CASE PutBlob(r)
    BY <2>2, <2>3, <2>9 DEF PutBlob, Fails, TypeOK, UploadPC
  <2>10. CASE UndoRow(r)
    BY <2>2, <2>5, <2>10, RowType DEF UndoRow, TypeOK
  <2>11. CASE UndoUsage(r)
    BY <2>2, <2>4, <2>11, UsageType DEF UndoUsage, TypeOK
  <2>12. CASE Settle(r)
    BY <2>2, <2>3, <2>4, <2>12 DEF Settle, TypeOK, UploadPC
  <2>13. CASE UndoSettleRow(r)
    BY <2>2, <2>3, <2>13, RowType DEF UndoSettleRow, TypeOK, UploadPC
  <2>14. CASE UndoSettleBlob(r)
    BY <2>2, <2>4, <2>14 DEF UndoSettleBlob, TypeOK
  <2>15. CASE CrashUpload(r)
    BY <2>2, <2>15 DEF CrashUpload, TypeOK
  <2>16. QED
    BY <1>3, <2>6, <2>7, <2>8, <2>9, <2>10, <2>11, <2>12, <2>13, <2>14, <2>15
       DEF UploadStep
<1>4. ASSUME NEW d \in Deleters, NEW k \in Keys, DeleteBundle(d, k)
      PROVE  TypeOK'
  <2>1. acked' \subseteq Keys
    BY <1>4 DEF DeleteBundle, TypeOK
  <2>2. QED
    BY <1>4, <2>1, RowType DEF DeleteBundle, TypeOK
<1>5. ASSUME NEW d \in Deleters, ReleaseUsage(d) \/ CrashDelete(d)
      PROVE  TypeOK'
  <2>1. del[d].key \in Keys
    BY <1>5 DEF ReleaseUsage, CrashDelete, TypeOK, Idle
  <2>2. User(del[d].key) \in Users /\ SizeOf(del[d].key) \in Nat
    BY <2>1, KeyParts, ConstantsAssumption DEF SizeOf
  <2>3. usage' \in [Users -> Nat]
    BY <1>5, <2>2, UsageType DEF ReleaseUsage, CrashDelete
  <2>4. QED
    BY <1>5, <2>3 DEF ReleaseUsage, CrashDelete, TypeOK
<1>6. ASSUME NEW k \in Keys, Expire(k)
      PROVE  TypeOK'
  BY <1>6 DEF Expire, TypeOK
<1>7. ASSUME NEW p \in Purgers, PurgeList(p)
      PROVE  TypeOK'
  <2>1. purge' \in [Purgers -> Retention] /\ contested' \subseteq Keys
    BY <1>7 DEF PurgeList, TypeOK, Retention
  <2> QED
    BY <1>7, <2>1 DEF PurgeList, TypeOK, Retention
<1>8. ASSUME NEW p \in Purgers, NEW k \in Keys, PurgeBlob(p, k)
      PROVE  TypeOK'
  <2>1. purge' \in [Purgers -> Retention]
    BY <1>8, FinishMoves DEF PurgeBlob, TypeOK, Retention
  <2> QED
    BY <1>8, <2>1 DEF PurgeBlob, Fails, TypeOK, Retention
<1>9. ASSUME NEW p \in Purgers, NEW k \in Keys, PurgeRow(p, k)
      PROVE  TypeOK'
  BY <1>9, RowType, FinishMoves DEF PurgeRow, TypeOK, Retention
<1>10. ASSUME NEW p \in Purgers, LoseLock(p) \/ CrashPurge(p)
       PROVE  TypeOK'
  <2>1. purge \in [Purgers -> Retention] /\ Resting \in Retention
    BY DEF TypeOK, Retention, Resting
  <2>2. purge' \in [Purgers -> Retention]
    <3>1. CASE LoseLock(p)
      BY <2>1, <3>1 DEF LoseLock, Retention
    <3>2. CASE CrashPurge(p)
      BY <2>1, <3>2 DEF CrashPurge
    <3> QED
      BY <1>10, <3>1, <3>2
  <2> QED
    BY <1>10, <2>2 DEF LoseLock, CrashPurge, TypeOK, Retention
<1>11. CASE Recalculation
  BY <1>11, LiveBytesType DEF Recalculation, RecalculateUsage, RecalculateAllUsage,
                              RecalcRead, TypeOK
<1>12. ASSUME NEW u \in Users, RecalcWrite(u)
       PROVE  TypeOK'
  BY <1>12 DEF RecalcWrite, TypeOK
<1>13. QED
  BY <1>1, <1>2, <1>3, <1>4, <1>5, <1>6, <1>7, <1>8, <1>9, <1>10, <1>11, <1>12
     DEF Next, PurgeStep, RecalcWrites

\* Rows, blobs, counters and requests keep their types: the usage counter in
\* particular stays a natural number however often bytes are given back.
THEOREM TypeCorrect == Spec => []TypeOK
  BY InitType, StepType, PTL DEF Spec

-----------------------------------------------------------------------------
(***************************************************************************)
(* What is stored                                                          *)
(***************************************************************************)

\* The initial state satisfies the invariant.
LEMMA InitStore == Init => StoreInv
  BY DEF Init, StoreInv, OwnedRow, OneOwner, StoredWhenSettling,
         FailedWhenUndoing, AckedIsReleased, ListedIsExpired,
         OrphanOnlyAfterFailedPut, Owner, At, Idle, Resting

\* Every step preserves it.
LEMMA StepStore == IInv /\ [Next]_vars => StoreInv'
<1> SUFFICES ASSUME IInv, [Next]_vars PROVE StoreInv'
  OBVIOUS
<1> USE DEF IInv, StoreInv
<1>1. CASE UNCHANGED vars
  BY <1>1 DEF vars, OwnedRow, OneOwner, StoredWhenSettling,
         FailedWhenUndoing, AckedIsReleased, ListedIsExpired,
         OrphanOnlyAfterFailedPut, Owner, At, Key
<1> USE DEF OwnedRow, OneOwner, StoredWhenSettling, FailedWhenUndoing,
            AckedIsReleased, ListedIsExpired, OrphanOnlyAfterFailedPut,
            Owner, At, Key
<1>k. /\ \A s \in Requests : Owner(s) => Key(s) \in Keys
      /\ acked \subseteq Keys /\ blob \subseteq Keys
      /\ \A p \in Purgers : purge[p].batch \subseteq Keys
  BY Uploading DEF TypeOK
<1>2. ASSUME NEW r \in Requests, NEW k \in Keys, BeginUpload(r, k)
      PROVE  StoreInv'
  <2>1. /\ ~Owner(r)' /\ ~At(r, "settle")' /\ ~At(r, "undoRow")'
        /\ \A s \in Requests \ {r} : up'[s] = up[s]
    BY <1>2 DEF BeginUpload, TypeOK
  <2>2. QED
    BY <1>2, <2>1 DEF BeginUpload
<1>3. ASSUME NEW r \in Requests, UploadStep(r) \/ CrashUpload(r)
      PROVE  StoreInv'
  <2>1. ~At(r, "idle")
    BY <1>3 DEF UploadStep, CrashUpload, CheckExists, ReserveQuota, CreateRow,
                PutBlob, UndoRow, UndoUsage, Settle, UndoSettleRow, UndoSettleBlob
  <2>2. up[r] \in Upload /\ Key(r) \in Keys
    BY <2>1, Uploading
  <2>3. ASSUME NEW pc \in UploadPC, Goto(r, pc)
        PROVE  /\ up'[r].pc = pc /\ up'[r].key = up[r].key
               /\ \A s \in Requests \ {r} : up'[s] = up[s]
    BY <2>2, <2>3 DEF Goto, TypeOK, Upload
  <2>4. Return(r) \/ CrashUpload(r) =>
          up'[r].pc = "idle" /\ \A s \in Requests \ {r} : up'[s] = up[s]
    BY DEF Return, CrashUpload, TypeOK, Idle
  <2>5. AfterRollback(r) =>
          /\ up'[r].pc \in {"idle", "undoUsage"}
          /\ \A s \in Requests \ {r} : up'[s] = up[s]
    BY <2>3, <2>4 DEF AfterRollback, UploadPC
  <2>6. CASE CheckExists(r)
    <3>1. /\ up'[r].pc \in {"idle", "create", "quota"}
          /\ \A s \in Requests \ {r} : up'[s] = up[s]
      BY <2>3, <2>4, <2>6 DEF CheckExists, UploadPC
    <3>2. QED
      BY <2>6, <3>1 DEF CheckExists
  <2>7. CASE ReserveQuota(r)
    <3>1. /\ up'[r].pc \in {"idle", "create"}
          /\ \A s \in Requests \ {r} : up'[s] = up[s]
      BY <2>3, <2>4, <2>7 DEF ReserveQuota, UploadPC
    <3>2. QED
      BY <2>7, <3>1 DEF ReserveQuota
  <2>8. CASE CreateRow(r)
    <3>1. CASE Create(Key(r)) /\ Goto(r, "put")
      <4>1. /\ up'[r].pc = "put" /\ up'[r].key = up[r].key
            /\ \A s \in Requests \ {r} : up'[s] = up[s]
        BY <2>3, <3>1 DEF UploadPC
      <4>2. QED
        BY <2>2, <2>8, <3>1, <4>1 DEF CreateRow, Create, TypeOK
    <3>2. CASE (Create(Key(r)) \/ UNCHANGED row) /\ AfterRollback(r)
      <4>1. /\ \A k \in Keys : row'[k] = row[k] \/ (row[k] = "none" /\ row'[k] = "live")
        BY <2>2, <3>2 DEF Create, TypeOK
      <4>2. QED
        BY <1>k, <2>2, <2>5, <2>8, <3>2, <4>1 DEF CreateRow
    <3>3. QED
      BY <2>8, <3>1, <3>2 DEF CreateRow, Fails
  <2>9. CASE PutBlob(r)
    <3>1. /\ up'[r].key = up[r].key /\ \A s \in Requests \ {r} : up'[s] = up[s]
          /\ \/ /\ up'[r].pc = "settle" /\ blob' = blob \cup {Key(r)}
                /\ putErr' = putErr \ {Key(r)}
             \/ /\ up'[r].pc = "undoRow" /\ (blob' = blob \/ blob' = blob \cup {Key(r)})
                /\ putErr' = putErr \cup {Key(r)}
      BY <2>3, <2>9 DEF PutBlob, Fails, UploadPC
    <3>2. QED
      BY <2>2, <2>9, <3>1 DEF PutBlob
  <2>10. CASE UndoRow(r)
    <3>1. \A k \in Keys : row'[k] = row[k] \/ (k = Key(r) /\ row'[k] = "none")
      BY <2>2, <2>10 DEF UndoRow, HardDelete, TypeOK
    <3>2. (Key(r) \in contested \/ Key(r) \in putErr) /\ Owner(r)
      BY <2>10 DEF UndoRow
    <3>3. QED
      BY <1>k, <2>2, <2>5, <2>10, <3>1, <3>2 DEF UndoRow
  <2>11. CASE UndoUsage(r)
    BY <2>4, <2>11 DEF UndoUsage
  <2>12. CASE Settle(r)
    <3>1. /\ \A s \in Requests \ {r} : up'[s] = up[s]
          /\ \/ /\ up'[r].pc = "idle"
                /\ acked' = IF row[Key(r)] = "live" THEN acked \cup {Key(r)} ELSE acked
             \/ /\ up'[r].pc = "undoSettleRow" /\ up'[r].key = up[r].key
                /\ acked' = acked
      BY <2>3, <2>4, <2>12 DEF Settle, UploadPC
    <3>2. QED
      BY <2>2, <2>12, <3>1 DEF Settle
  <2>13. CASE UndoSettleRow(r)
    <3>1. /\ up'[r].pc = "undoSettleBlob" /\ up'[r].key = up[r].key
          /\ \A s \in Requests \ {r} : up'[s] = up[s]
      BY <2>3, <2>13 DEF UndoSettleRow, UploadPC
    <3>2. QED
      <4>1. \A k \in Keys : \/ row'[k] = row[k]
                            \/ k = Key(r) /\ row[k] = "live" /\ row'[k] = "deleted"
        BY <2>2, <2>13 DEF UndoSettleRow, SoftDelete, TypeOK
      <4>2. Owner(r)
        BY <2>13 DEF UndoSettleRow
      <4>3. QED
        BY <1>k, <2>2, <2>13, <3>1, <4>1, <4>2 DEF UndoSettleRow
  <2>14. CASE UndoSettleBlob(r)
    BY <2>2, <2>4, <2>14 DEF UndoSettleBlob
  <2>15. CASE CrashUpload(r)
    BY <2>2, <2>4, <2>15 DEF CrashUpload
  <2>16. QED
    BY <1>3, <2>6, <2>7, <2>8, <2>9, <2>10, <2>11, <2>12, <2>13, <2>14, <2>15
       DEF UploadStep
<1>4. ASSUME NEW d \in Deleters, NEW k \in Keys, DeleteBundle(d, k)
      PROVE  StoreInv'
  BY <1>4 DEF DeleteBundle, SoftDelete, TypeOK
<1>5. ASSUME NEW d \in Deleters, ReleaseUsage(d) \/ CrashDelete(d)
      PROVE  StoreInv'
  BY <1>5 DEF ReleaseUsage, CrashDelete
<1>6. ASSUME NEW k \in Keys, Expire(k)
      PROVE  StoreInv'
  BY <1>6 DEF Expire, TypeOK
<1>7. ASSUME NEW p \in Purgers, PurgeList(p)
      PROVE  StoreInv'
  <2>1. PICK batch \in SUBSET Keys :
          /\ ListDeletedBefore(batch)
          /\ purge' = [purge EXCEPT ![p] = [batch |-> batch, cur |-> {}, locked |-> TRUE]]
          /\ contested' = contested \cup (batch \cap ListedBesides(p))
    BY <1>7 DEF PurgeList
  <2>2. /\ purge'[p].batch = batch /\ purge'[p].cur = {}
        /\ \A q \in Purgers \ {p} : purge'[q] = purge[q]
        /\ \A k \in batch : row[k] = "expired"
        /\ contested \subseteq contested'
    BY <2>1 DEF TypeOK, ListDeletedBefore
  <2>3. \A q \in Purgers \ {p}, k \in batch : k \in purge[q].batch => k \in contested'
    BY <2>1 DEF ListedBesides
  <2> QED
    BY <1>7, <2>2, <2>3 DEF PurgeList
<1>8. ASSUME NEW p \in Purgers, NEW k \in Keys, PurgeBlob(p, k)
      PROVE  StoreInv'
  <2>1. /\ purge'[p].batch \subseteq purge[p].batch
        /\ purge'[p].cur \subseteq purge'[p].batch
        /\ purge'[p].cur = {} \/ (purge'[p].cur = {k} /\ blob' = blob \ {k})
        /\ \A q \in Purgers \ {p} : purge'[q] = purge[q]
    BY <1>8, FinishMoves DEF PurgeBlob, TypeOK
  <2>2. k \in contested \/ row[k] = "expired"
    BY <1>8 DEF PurgeBlob
  <2>3. /\ blob' = blob \/ blob' = blob \ {k}
        /\ putErr' = putErr \/ (putErr' = putErr \ {k} /\ blob' = blob \ {k})
    BY <1>8 DEF PurgeBlob, Fails
  <2> QED
    BY <1>8, <2>1, <2>2, <2>3 DEF PurgeBlob
<1>9. ASSUME NEW p \in Purgers, NEW k \in Keys, PurgeRow(p, k)
      PROVE  StoreInv'
  <2>1. \A j \in Keys : row'[j] = row[j] \/ (j = k /\ row'[j] = "none")
    BY <1>9 DEF PurgeRow, HardDelete, TypeOK
  <2>2. k \in contested \/ (row[k] = "expired" /\ k \notin blob)
    BY <1>9 DEF PurgeRow
  <2>3. /\ purge'[p].batch = purge[p].batch \ {k} /\ purge'[p].cur = {}
        /\ \A q \in Purgers \ {p} : purge'[q] = purge[q]
    BY <1>9, FinishMoves DEF PurgeRow
  <2>4. k \in contested \/ \A q \in Purgers \ {p} : k \notin purge[q].batch
    BY <1>9 DEF PurgeRow
  <2>5. QED
    BY <1>k, <1>9, <2>1, <2>2, <2>3, <2>4 DEF PurgeRow
<1>10. ASSUME NEW p \in Purgers, LoseLock(p) \/ CrashPurge(p)
       PROVE  StoreInv'
  <2>1. /\ purge'[p].batch \subseteq purge[p].batch
        /\ \/ purge'[p].cur = purge[p].cur /\ purge'[p].batch = purge[p].batch
           \/ purge'[p].cur = {}
        /\ \A q \in Purgers \ {p} : purge'[q] = purge[q]
    BY <1>10 DEF LoseLock, CrashPurge, Resting, TypeOK
  <2> QED
    BY <1>10, <2>1 DEF LoseLock, CrashPurge
<1>11. CASE Recalculation
  BY <1>11 DEF Recalculation, RecalculateUsage, RecalculateAllUsage, RecalcRead
<1>12. ASSUME NEW u \in Users, RecalcWrite(u)
       PROVE  StoreInv'
  BY <1>12 DEF RecalcWrite
<1>13. QED
  BY <1>1, <1>2, <1>3, <1>4, <1>5, <1>6, <1>7, <1>8, <1>9, <1>10, <1>11, <1>12
     DEF Next, PurgeStep, RecalcWrites

\* The invariant holds in every reachable state.
THEOREM Invariance == Spec => []IInv
<1>1. Init => IInv
  BY InitType, InitStore DEF IInv
<1>2. IInv /\ [Next]_vars => IInv'
  BY StepType, StepStore DEF IInv
<1>3. QED
  BY <1>1, <1>2, PTL DEF Spec

\* What an upload was acknowledged for stays downloadable until its owner
\* deletes it, whatever fails, is retried, is purged or crashes.
THEOREM AckedStored == Spec => []AckedIsStored
<1>1. IInv => AckedIsStored
  BY DEF IInv, StoreInv, AckedIsReleased, AckedIsStored, DownloadBundle
<1>2. QED
  BY <1>1, Invariance, PTL

\* A blob has lost its metadata row only after a Put that reported an error.
THEOREM OrphansExplained == Spec => []OrphanOnlyAfterFailedPut
<1>1. IInv => OrphanOnlyAfterFailedPut
  BY DEF IInv, StoreInv
<1>2. QED
  BY <1>1, Invariance, PTL

-----------------------------------------------------------------------------
(***************************************************************************)
(* What storage_usage covers                                               *)
(*                                                                         *)
(* The counters are kept by the server itself when there is no Enterprise  *)
(* hook; they are right as long as no recalculation overwrites them, no    *)
(* delete overtakes an upload, the purge keeps its lock, and the two       *)
(* statements that insert and remove the row of an upload do what they     *)
(* report.  Other calls may fail, replies may be lost and processes may    *)
(* stop.                                                                   *)
(***************************************************************************)
QuotaConditions ==
  /\ ~HookConfigured /\ ~Reconciling /\ ~DeleteInFlight /\ ~LockLoss
  /\ "create" \notin Lost
  /\ "hardDelete" \notin Failing

\* No upload has a guard, and none is past its answer with a row of its own.
Unguarded ==
  \A r \in Requests : ~At(r, "idle") =>
    ~up[r].guard /\ ~At(r, "undoSettleRow") /\ ~At(r, "undoSettleBlob")

\* Only acknowledged bundles are deleted, and those have no owner.
OwnedIsLive == \A r \in Requests : Owner(r) => row[Key(r)] = "live"

NoRecalculation == recalc.users = {}

WithinLimit == \A u \in Users : usage[u] <= Limit

\* A run that keeps its lock is the only one with rows listed.
OneRun ==
  /\ contested = {}
  /\ \A p \in Purgers : purge[p] # Resting => purge[p].locked
  /\ \A p, q \in Purgers : purge[p].locked /\ purge[q].locked => p = q

QuotaInv ==
  /\ IInv
  /\ Unguarded /\ OwnedIsLive /\ NoRecalculation /\ OneRun
  /\ WithinLimit /\ UsageCoversStored


\* What each kind of charge amounts to.
RowCharge(u, b) == IF row[<<u, b>>] = "live" THEN Size[b] ELSE 0

UpCharge(u, r) ==
  IF up[r].pc \in {"create", "undoUsage"} /\ User(up[r].key) = u THEN SizeOf(up[r].key) ELSE 0

DelCharge(u, d) ==
  IF del[d].pc = "usage" /\ User(del[d].key) = u THEN SizeOf(del[d].key) ELSE 0

LEMMA WeightsAreNat == Weights \subseteq Nat
  BY ConstantsAssumption DEF Weights

\* A sum changes by what its terms change.
LEMMA OneTerm ==
  ASSUME NEW f \in [Charges -> Weights], NEW g \in [Charges -> Weights], NEW c \in Charges,
         \A e \in Charges \ {c} : g[e] = f[e]
  PROVE  Sum(g) = Sum(f) - f[c] + g[c]
<1>1. g = [f EXCEPT ![c] = g[c]]
  OBVIOUS
<1>2. g[c] \in Weights
  OBVIOUS
<1> QED
  BY <1>1, <1>2, SumAssumption

LEMMA TwoTerms ==
  ASSUME NEW f \in [Charges -> Weights], NEW g \in [Charges -> Weights],
         NEW c \in Charges, NEW d \in Charges \ {c},
         \A e \in Charges \ {c, d} : g[e] = f[e]
  PROVE  Sum(g) = Sum(f) - f[c] - f[d] + g[c] + g[d]
<1> DEFINE h == [f EXCEPT ![c] = g[c]]
<1>1. h \in [Charges -> Weights] /\ h[c] = g[c] /\ h[d] = f[d]
  OBVIOUS
<1>2. Sum(h) = Sum(f) - f[c] + h[c]
  BY <1>1, OneTerm
<1>3. \A e \in Charges \ {d} : g[e] = h[e]
  OBVIOUS
<1>4. Sum(g) = Sum(h) - h[d] + g[d]
  BY <1>1, <1>3, OneTerm
<1>5. f[c] \in Nat /\ f[d] \in Nat /\ g[c] \in Nat /\ g[d] \in Nat /\ Sum(f) \in Nat
  BY SumAssumption, WeightsAreNat
<1> HIDE DEF h
<1> QED
  BY <1>1, <1>2, <1>4, <1>5

\* The charges before and after a step.
LEMMA ChargesNow ==
  ASSUME TypeOK, NEW u \in Users
  PROVE  /\ Charged(u) \in [Charges -> Weights]
         /\ \A b \in Bundles : b \in Charges /\ Charged(u)[b] = RowCharge(u, b)
         /\ \A r \in Requests : r \in Charges /\ Charged(u)[r] = UpCharge(u, r)
         /\ \A d \in Deleters : d \in Charges /\ Charged(u)[d] = DelCharge(u, d)
<1>1. \A r \in Requests : up[r].pc \in {"create", "undoUsage"} => SizeOf(up[r].key) \in Weights
  BY KeyParts DEF TypeOK, Idle, SizeOf, Weights
<1>2. \A d \in Deleters : del[d].pc = "usage" => SizeOf(del[d].key) \in Weights
  BY KeyParts DEF TypeOK, Idle, SizeOf, Weights
<1>3. \A c \in Charges : Charged(u)[c] \in Weights
  BY <1>1, <1>2 DEF Charged, Live, Weights
<1>4. Charged(u) \in [Charges -> Weights]
  BY <1>3 DEF Charged
<1>5. \A b \in Bundles : b \in Charges /\ Charged(u)[b] = RowCharge(u, b)
  BY DisjointAssumption DEF Charges, Charged, Live, RowCharge
<1>6. \A r \in Requests : r \in Charges /\ Charged(u)[r] = UpCharge(u, r)
  BY DisjointAssumption DEF Charges, Charged, Live, UpCharge
<1>7. \A d \in Deleters : d \in Charges /\ Charged(u)[d] = DelCharge(u, d)
  BY DisjointAssumption DEF Charges, Charged, Live, DelCharge
<1> QED
  BY <1>4, <1>5, <1>6, <1>7

LEMMA ChargesNext ==
  ASSUME TypeOK', NEW u \in Users
  PROVE  /\ Charged(u)' \in [Charges -> Weights]
         /\ \A b \in Bundles : b \in Charges /\ Charged(u)'[b] = RowCharge(u, b)'
         /\ \A r \in Requests : r \in Charges /\ Charged(u)'[r] = UpCharge(u, r)'
         /\ \A d \in Deleters : d \in Charges /\ Charged(u)'[d] = DelCharge(u, d)'
<1>1. \A r \in Requests : up'[r].pc \in {"create", "undoUsage"} => SizeOf(up'[r].key) \in Weights
  BY KeyParts DEF TypeOK, Idle, SizeOf, Weights
<1>2. \A d \in Deleters : del'[d].pc = "usage" => SizeOf(del'[d].key) \in Weights
  BY KeyParts DEF TypeOK, Idle, SizeOf, Weights
<1>3. \A c \in Charges : Charged(u)'[c] \in Weights
  BY <1>1, <1>2 DEF Charged, Live, Weights
<1>4. Charged(u)' \in [Charges -> Weights]
  BY <1>3 DEF Charged
<1>5. \A b \in Bundles : b \in Charges /\ Charged(u)'[b] = RowCharge(u, b)'
  BY DisjointAssumption DEF Charges, Charged, Live, RowCharge
<1>6. \A r \in Requests : r \in Charges /\ Charged(u)'[r] = UpCharge(u, r)'
  BY DisjointAssumption DEF Charges, Charged, Live, UpCharge
<1>7. \A d \in Deleters : d \in Charges /\ Charged(u)'[d] = DelCharge(u, d)'
  BY DisjointAssumption DEF Charges, Charged, Live, DelCharge
<1> QED
  BY <1>4, <1>5, <1>6, <1>7

LEMMA ChargesKept ==
  ASSUME TypeOK, TypeOK', NEW u \in Users,
         \A b \in Bundles : RowCharge(u, b)' = RowCharge(u, b),
         \A r \in Requests : UpCharge(u, r)' = UpCharge(u, r),
         \A d \in Deleters : DelCharge(u, d)' = DelCharge(u, d)
  PROVE  Sum(Charged(u))' = Sum(Charged(u))
<1>1. \A c \in Charges : Charged(u)'[c] = Charged(u)[c]
  BY ChargesNow, ChargesNext DEF Charges
<1>2. Charged(u)' = Charged(u)
  BY <1>1, ChargesNow, ChargesNext
<1> QED
  BY <1>2

LEMMA UploadCharge ==
  ASSUME TypeOK, TypeOK', NEW u \in Users, NEW r \in Requests,
         \A b \in Bundles : RowCharge(u, b)' = RowCharge(u, b),
         \A q \in Requests \ {r} : UpCharge(u, q)' = UpCharge(u, q),
         \A d \in Deleters : DelCharge(u, d)' = DelCharge(u, d)
  PROVE  Sum(Charged(u))' = Sum(Charged(u)) - UpCharge(u, r) + UpCharge(u, r)'
<1>1. \A c \in Charges \ {r} : Charged(u)'[c] = Charged(u)[c]
  BY ChargesNow, ChargesNext DEF Charges
<1> QED
  BY <1>1, ChargesNow, ChargesNext, OneTerm

LEMMA DeleteCharge ==
  ASSUME TypeOK, TypeOK', NEW u \in Users, NEW d \in Deleters,
         \A b \in Bundles : RowCharge(u, b)' = RowCharge(u, b),
         \A r \in Requests : UpCharge(u, r)' = UpCharge(u, r),
         \A e \in Deleters \ {d} : DelCharge(u, e)' = DelCharge(u, e)
  PROVE  Sum(Charged(u))' = Sum(Charged(u)) - DelCharge(u, d) + DelCharge(u, d)'
<1>1. \A c \in Charges \ {d} : Charged(u)'[c] = Charged(u)[c]
  BY ChargesNow, ChargesNext DEF Charges
<1> QED
  BY <1>1, ChargesNow, ChargesNext, OneTerm

\* A byte passes from an upload to its row, or back.
LEMMA UploadAndRow ==
  ASSUME TypeOK, TypeOK', NEW u \in Users, NEW r \in Requests, NEW b \in Bundles,
         \A c \in Bundles \ {b} : RowCharge(u, c)' = RowCharge(u, c),
         \A q \in Requests \ {r} : UpCharge(u, q)' = UpCharge(u, q),
         \A d \in Deleters : DelCharge(u, d)' = DelCharge(u, d)
  PROVE  Sum(Charged(u))' = Sum(Charged(u)) - UpCharge(u, r) - RowCharge(u, b)
                              + UpCharge(u, r)' + RowCharge(u, b)'
<1>1. \A c \in Charges \ {r, b} : Charged(u)'[c] = Charged(u)[c]
  BY ChargesNow, ChargesNext DEF Charges
<1>2. r # b
  BY DisjointAssumption
<1> QED
  BY <1>1, <1>2, ChargesNow, ChargesNext, TwoTerms

\* And from a row to its delete.
LEMMA DeleteAndRow ==
  ASSUME TypeOK, TypeOK', NEW u \in Users, NEW d \in Deleters, NEW b \in Bundles,
         \A c \in Bundles \ {b} : RowCharge(u, c)' = RowCharge(u, c),
         \A r \in Requests : UpCharge(u, r)' = UpCharge(u, r),
         \A e \in Deleters \ {d} : DelCharge(u, e)' = DelCharge(u, e)
  PROVE  Sum(Charged(u))' = Sum(Charged(u)) - DelCharge(u, d) - RowCharge(u, b)
                              + DelCharge(u, d)' + RowCharge(u, b)'
<1>1. \A c \in Charges \ {d, b} : Charged(u)'[c] = Charged(u)[c]
  BY ChargesNow, ChargesNext DEF Charges
<1>2. d # b
  BY DisjointAssumption
<1> QED
  BY <1>1, <1>2, ChargesNow, ChargesNext, TwoTerms

\* Charges and sums are numbers.
LEMMA ChargeTypes ==
  ASSUME TypeOK, TypeOK', NEW u \in Users
  PROVE  /\ Sum(Charged(u)) \in Nat /\ Sum(Charged(u))' \in Nat
         /\ \A b \in Bundles : RowCharge(u, b) \in Nat /\ RowCharge(u, b)' \in Nat
         /\ \A r \in Requests : UpCharge(u, r) \in Nat /\ UpCharge(u, r)' \in Nat
         /\ \A d \in Deleters : DelCharge(u, d) \in Nat /\ DelCharge(u, d)' \in Nat
<1>1. \A c \in Charges : Charged(u)[c] \in Nat /\ Charged(u)'[c] \in Nat
  BY ChargesNow, ChargesNext, WeightsAreNat
<1> QED
  BY <1>1, ChargesNow, ChargesNext, SumAssumption

\* The steps of an upload, a delete and the purge that change the accounts.
LEMMA UploadMoves ==
  ASSUME TypeOK, NEW r \in Requests, ~At(r, "idle")
  PROVE  /\ \A pc \in UploadPC : Goto(r, pc) =>
              /\ up'[r].pc = pc /\ up'[r].key = up[r].key /\ up'[r].guard = up[r].guard
              /\ \A q \in Requests \ {r} : up'[q] = up[q]
         /\ Return(r) \/ CrashUpload(r) =>
              up'[r].pc = "idle" /\ \A q \in Requests \ {r} : up'[q] = up[q]
<1>1. up[r] \in Upload
  BY Uploading
<1>2. ASSUME NEW pc \in UploadPC, Goto(r, pc)
      PROVE  /\ up'[r].pc = pc /\ up'[r].key = up[r].key /\ up'[r].guard = up[r].guard
             /\ \A q \in Requests \ {r} : up'[q] = up[q]
  BY <1>1, <1>2 DEF Goto, TypeOK, Upload
<1> QED
  BY <1>2 DEF Return, CrashUpload, TypeOK, Idle

LEMMA QuotaSideStep ==
  ASSUME QuotaConditions, QuotaInv, TypeOK', [Next]_vars
  PROVE  Unguarded' /\ OwnedIsLive' /\ NoRecalculation' /\ WithinLimit'
<1> DEFINE Goal == Unguarded' /\ OwnedIsLive' /\ NoRecalculation' /\ WithinLimit'
<1>c. contested = {}
  BY DEF QuotaInv, OneRun
<1> USE DEF QuotaConditions, QuotaInv, IInv
<1> USE DEF Unguarded, OwnedIsLive, NoRecalculation, WithinLimit, Owner, At, Key
<1>k. /\ \A s \in Requests : Owner(s) => Key(s) \in Keys
      /\ Limit \in Nat
  BY Uploading, ConstantsAssumption
<1>1. CASE UNCHANGED vars
  BY <1>1 DEF vars
<1>2. ASSUME NEW r \in Requests, NEW k \in Keys, BeginUpload(r, k)
      PROVE  Goal
  <2>1. /\ up'[r].pc = "exists" /\ up'[r].guard = FALSE
        /\ \A q \in Requests \ {r} : up'[q] = up[q]
    BY <1>2 DEF BeginUpload, TypeOK
  <2> QED
    BY <1>2, <2>1 DEF BeginUpload
<1>3. ASSUME NEW r \in Requests, UploadStep(r) \/ CrashUpload(r)
      PROVE  Goal
  <2>1. ~At(r, "idle")
    BY <1>3 DEF UploadStep, CrashUpload, CheckExists, ReserveQuota, CreateRow,
                PutBlob, UndoRow, UndoUsage, Settle, UndoSettleRow, UndoSettleBlob
  <2>2. /\ Key(r) \in Keys /\ User(Key(r)) \in Users /\ SizeOf(Key(r)) \in Nat /\ ~up[r].guard
    BY <2>1, Uploading, KeyParts
  <2>3. /\ \A pc \in UploadPC : Goto(r, pc) =>
             /\ up'[r].pc = pc /\ up'[r].key = up[r].key /\ up'[r].guard = up[r].guard
             /\ \A q \in Requests \ {r} : up'[q] = up[q]
        /\ Return(r) \/ CrashUpload(r) =>
             up'[r].pc = "idle" /\ \A q \in Requests \ {r} : up'[q] = up[q]
    BY <2>1, UploadMoves
  <2>4. CASE CheckExists(r)
    BY <2>2, <2>3, <2>4 DEF CheckExists, UploadPC
  <2>5. CASE ReserveQuota(r)
    <3>1. WithinLimit'
      BY <2>2, <2>5 DEF ReserveQuota, Fails, TryAddBundleUsage, FitsQuota, TypeOK
    <3> QED
      BY <2>2, <2>3, <2>5, <3>1 DEF ReserveQuota, UploadPC
  <2>6. CASE CreateRow(r)
    <3>1. CASE Create(Key(r)) /\ Goto(r, "put")
      <4>1. \A k \in Keys : row[k] = "live" => row'[k] = "live"
        BY <2>2, <3>1 DEF Create, TypeOK
      <4>2. row'[Key(r)] = "live"
        BY <2>2, <3>1 DEF Create, TypeOK
      <4> QED
        BY <1>k, <2>2, <2>3, <2>6, <3>1, <4>1, <4>2 DEF CreateRow, UploadPC
    <3>2. CASE UNCHANGED row /\ AfterRollback(r)
      BY <2>2, <2>3, <2>6, <3>2 DEF CreateRow, AfterRollback, UploadPC
    <3> QED
      BY <2>6, <3>1, <3>2 DEF CreateRow, Fails
  <2>7. CASE PutBlob(r)
    BY <2>2, <2>3, <2>7 DEF PutBlob, UploadPC
  <2>8. CASE UndoRow(r)
    <3>1. \A q \in Requests \ {r} : Owner(q) => Key(q) # Key(r)
      BY <1>c, <2>8 DEF UndoRow, StoreInv, OneOwner
    <3>2. \A k \in Keys \ {Key(r)} : row'[k] = row[k]
      BY <2>2, <2>8 DEF UndoRow, HardDelete, TypeOK
    <3> QED
      BY <1>k, <2>2, <2>3, <2>8, <3>1, <3>2 DEF UndoRow, AfterRollback, UploadPC
  <2>9. CASE UndoUsage(r)
    <3>1. WithinLimit'
      BY <1>k, <2>2, <2>9 DEF UndoUsage, RemoveBundleUsage, Monus, TypeOK
    <3> QED
      BY <2>3, <2>9, <3>1 DEF UndoUsage
  <2>10. CASE Settle(r)
    BY <2>2, <2>3, <2>10 DEF Settle
  <2>11. CASE UndoSettleRow(r) \/ UndoSettleBlob(r)
    BY <2>1, <2>11 DEF UndoSettleRow, UndoSettleBlob
  <2>12. CASE CrashUpload(r)
    BY <2>3, <2>12 DEF CrashUpload
  <2> QED
    BY <1>3, <2>4, <2>5, <2>6, <2>7, <2>8, <2>9, <2>10, <2>11, <2>12 DEF UploadStep
<1>4. ASSUME NEW d \in Deleters, NEW k \in Keys, DeleteBundle(d, k)
      PROVE  Goal
  <2>1. \A r \in Requests : Owner(r) => Key(r) # k
    BY <1>c, <1>4 DEF DeleteBundle, StoreInv, AckedIsReleased
  <2> QED
    BY <1>k, <1>4, <2>1 DEF DeleteBundle, SoftDelete, TypeOK
<1>5. ASSUME NEW d \in Deleters, ReleaseUsage(d) \/ CrashDelete(d)
      PROVE  Goal
  <2>1. del[d].key \in Keys
    BY <1>5 DEF ReleaseUsage, CrashDelete, TypeOK, Idle
  <2>2. User(del[d].key) \in Users /\ SizeOf(del[d].key) \in Nat
    BY <2>1, KeyParts, ConstantsAssumption DEF SizeOf
  <2>3. WithinLimit'
    BY <1>k, <1>5, <2>2 DEF ReleaseUsage, CrashDelete, RemoveBundleUsage, Monus, TypeOK
  <2> QED
    BY <1>5, <2>3 DEF ReleaseUsage, CrashDelete
<1>6. ASSUME NEW k \in Keys, Expire(k)
      PROVE  Goal
  BY <1>k, <1>6 DEF Expire, TypeOK
<1>7. ASSUME NEW p \in Purgers, NEW k \in Keys, PurgeRow(p, k)
      PROVE  Goal
  <2>1. row[k] = "expired"
    BY <1>c, <1>7 DEF PurgeRow, StoreInv, ListedIsExpired
  <2> QED
    BY <1>k, <1>7, <2>1 DEF PurgeRow, HardDelete, TypeOK
<1>8. CASE UNCHANGED <<row, usage, up, recalc>>
  BY <1>8
<1>9. ~Recalculation /\ ~RecalcWrites
  BY DEF Recalculation, RecalculateUsage, RecalculateAllUsage, RecalcRead, RecalcWrites, RecalcWrite
<1> HIDE DEF Goal
<1> QED
  BY <1>1, <1>2, <1>3, <1>4, <1>5, <1>6, <1>7, <1>8, <1>9
     DEF Next, PurgeStep, PurgeList, PurgeBlob, LoseLock, CrashPurge, Goal

\* While no lock is lost there is one run, and no key is contested.
LEMMA OneRunStep ==
  ASSUME QuotaConditions, QuotaInv, [Next]_vars
  PROVE  OneRun'
<1> USE DEF OneRun
<1>1. OneRun /\ TypeOK /\ ~LockLoss
  BY DEF QuotaInv, IInv, QuotaConditions
<1>2. ASSUME NEW p \in Purgers, PurgeList(p)
      PROVE  OneRun'
  <2>1. ListedBesides(p) = {}
    BY <1>1, <1>2 DEF PurgeList, ListedBesides, Resting, TypeOK
  <2> QED
    BY <1>1, <1>2, <2>1 DEF PurgeList, TypeOK
<1>3. ASSUME NEW p \in Purgers, NEW k \in Keys, PurgeBlob(p, k) \/ PurgeRow(p, k)
      PROVE  OneRun'
  <2>1. purge[p].locked
    BY <1>1, <1>3 DEF PurgeBlob, PurgeRow, Resting
  <2>2. /\ purge'[p] = Resting \/ purge'[p].locked
        /\ \A q \in Purgers \ {p} : purge'[q] = purge[q]
    BY <1>1, <1>3, <2>1, FinishMoves DEF PurgeBlob, PurgeRow, TypeOK
  <2>3. contested' = contested
    BY <1>3 DEF PurgeBlob, PurgeRow
  <2> QED
    BY <1>1, <2>1, <2>2, <2>3
<1>4. ASSUME NEW p \in Purgers, CrashPurge(p)
      PROVE  OneRun'
  BY <1>1, <1>4 DEF CrashPurge, TypeOK, Resting
<1>5. CASE UNCHANGED <<purge, contested>>
  BY <1>1, <1>5
<1>6. ASSUME NEW r \in Requests, UploadStep(r) \/ CrashUpload(r)
      PROVE  UNCHANGED <<purge, contested>>
  BY <1>6 DEF UploadStep, CrashUpload, CheckExists, ReserveQuota, CreateRow,
              PutBlob, UndoRow, UndoUsage, Settle, UndoSettleRow, UndoSettleBlob
<1> HIDE DEF OneRun
<1> QED
  BY <1>1, <1>2, <1>3, <1>4, <1>5, <1>6
     DEF Next, BeginUpload, DeleteBundle, ReleaseUsage, CrashDelete, Expire, PurgeStep,
         LoseLock, Recalculation, RecalculateUsage, RecalculateAllUsage, RecalcRead,
         RecalcWrites, RecalcWrite, vars

\* Bytes are taken before the row is inserted and given back after it is gone;
\* in between they are charged to the request that will do so.
LEMMA UsageStep ==
  ASSUME QuotaConditions, QuotaInv, TypeOK', [Next]_vars
  PROVE  UsageCoversStored'
<1> SUFFICES ASSUME NEW u \in Users
             PROVE  Sum(Charged(u))' <= usage'[u]
  BY DEF UsageCoversStored
<1> DEFINE Goal == Sum(Charged(u))' <= usage'[u]
<1>a. /\ TypeOK /\ Sum(Charged(u)) <= usage[u]
      /\ usage[u] \in Nat /\ usage'[u] \in Nat
  BY DEF QuotaInv, IInv, UsageCoversStored, TypeOK
<1>b. /\ Sum(Charged(u)) \in Nat /\ Sum(Charged(u))' \in Nat
      /\ \A b \in Bundles : RowCharge(u, b) \in Nat /\ RowCharge(u, b)' \in Nat
      /\ \A r \in Requests : UpCharge(u, r) \in Nat /\ UpCharge(u, r)' \in Nat
      /\ \A d \in Deleters : DelCharge(u, d) \in Nat /\ DelCharge(u, d)' \in Nat
  BY <1>a, ChargeTypes
<1> USE <1>a, <1>b
<1>r. UNCHANGED row => \A b \in Bundles : RowCharge(u, b)' = RowCharge(u, b)
  BY DEF RowCharge
<1>u. UNCHANGED up => \A r \in Requests : UpCharge(u, r)' = UpCharge(u, r)
  BY DEF UpCharge
<1>d. UNCHANGED del => \A d \in Deleters : DelCharge(u, d)' = DelCharge(u, d)
  BY DEF DelCharge
<1>1. CASE UNCHANGED <<row, usage, up, del>>
  <2>1. Sum(Charged(u))' = Sum(Charged(u))
    BY <1>1, <1>r, <1>u, <1>d, ChargesKept
  <2> QED
    BY <1>1, <2>1
<1>2. ASSUME NEW r \in Requests, NEW k \in Keys, BeginUpload(r, k)
      PROVE  Goal
  <2>1. /\ up[r].pc = "idle" /\ up'[r].pc = "exists"
        /\ \A q \in Requests \ {r} : up'[q] = up[q]
    BY <1>2 DEF BeginUpload, TypeOK, At
  <2>2. \A q \in Requests : UpCharge(u, q)' = UpCharge(u, q)
    BY <2>1 DEF UpCharge
  <2>3. UNCHANGED <<row, del, usage>>
    BY <1>2 DEF BeginUpload
  <2>4. Sum(Charged(u))' = Sum(Charged(u))
    BY <2>2, <2>3, <1>r, <1>d, ChargesKept
  <2> QED
    BY <2>3, <2>4
<1>3. ASSUME NEW r \in Requests, UploadStep(r) \/ CrashUpload(r)
      PROVE  Goal
  <2>1. ~At(r, "idle")
    BY <1>3 DEF UploadStep, CrashUpload, CheckExists, ReserveQuota, CreateRow, At,
                PutBlob, UndoRow, UndoUsage, Settle, UndoSettleRow, UndoSettleBlob
  <2>2. /\ Key(r) \in Keys /\ User(Key(r)) \in Users /\ Bundle(Key(r)) \in Bundles
        /\ SizeOf(Key(r)) \in Nat /\ Key(r) = up[r].key /\ ~up[r].guard
    BY <2>1, Uploading, KeyParts DEF QuotaInv, Unguarded, Key
  <2>b. PICK b \in Bundles : b = Bundle(Key(r))
    BY <2>2
  <2>3. /\ \A pc \in UploadPC : Goto(r, pc) =>
             /\ up'[r].pc = pc /\ up'[r].key = up[r].key
             /\ \A q \in Requests \ {r} : up'[q] = up[q]
        /\ Return(r) \/ CrashUpload(r) =>
             up'[r].pc = "idle" /\ \A q \in Requests \ {r} : up'[q] = up[q]
    BY <2>1, UploadMoves
  <2>4. AfterRollback(r) =>
          /\ up'[r].pc = "undoUsage" /\ up'[r].key = up[r].key
          /\ \A q \in Requests \ {r} : up'[q] = up[q]
    BY <2>2, <2>3 DEF AfterRollback, UploadPC
  <2>5. UNCHANGED del
    BY <1>3 DEF UploadStep, CrashUpload, CheckExists, ReserveQuota, CreateRow,
                PutBlob, UndoRow, UndoUsage, Settle, UndoSettleRow, UndoSettleBlob
  \* Nothing but the charge of r changes.
  <2>6. ASSUME UNCHANGED row, \A q \in Requests \ {r} : up'[q] = up[q]
        PROVE  Sum(Charged(u))' = Sum(Charged(u)) - UpCharge(u, r) + UpCharge(u, r)'
    <3>1. \A q \in Requests \ {r} : UpCharge(u, q)' = UpCharge(u, q)
      BY <2>6 DEF UpCharge
    <3> QED
      BY <2>5, <2>6, <3>1, <1>r, <1>d, UploadCharge
  \* The charge of r and that of its row.
  <2>7. ASSUME NEW s, row' = [row EXCEPT ![Key(r)] = s], \A q \in Requests \ {r} : up'[q] = up[q]
        PROVE  Sum(Charged(u))' =
                 Sum(Charged(u)) - UpCharge(u, r) - RowCharge(u, b)
                   + UpCharge(u, r)' + RowCharge(u, b)'
    <3>1. \A q \in Requests \ {r} : UpCharge(u, q)' = UpCharge(u, q)
      BY <2>7 DEF UpCharge
    <3>2. \A c \in Bundles \ {b} : row'[<<u, c>>] = row[<<u, c>>]
      BY <2>2, <2>b, <2>7 DEF TypeOK, Keys, Bundle
    <3>3. \A c \in Bundles \ {b} : RowCharge(u, c)' = RowCharge(u, c)
      BY <3>2 DEF RowCharge
    <3> QED
      BY <2>2, <2>5, <3>1, <3>3, <1>d, UploadAndRow
  <2>8. /\ User(Key(r)) = u => <<u, b>> = Key(r)
        /\ User(Key(r)) # u => <<u, b>> # Key(r)
        /\ <<u, b>> \in Keys
    BY <2>2, <2>b DEF Keys, User, Bundle
  <2>9. CASE CheckExists(r)
    <3>1. UpCharge(u, r) = 0 /\ UpCharge(u, r)' = 0
      BY <2>2, <2>3, <2>9 DEF CheckExists, UploadPC, UpCharge, At
    <3> QED
      BY <2>2, <2>3, <2>6, <2>9, <3>1 DEF CheckExists, UploadPC
  <2>10. CASE ReserveQuota(r)
    <3>1. UpCharge(u, r) = 0
      BY <2>10 DEF ReserveQuota, UpCharge, At
    <3>2. CASE TryAddBundleUsage(User(Key(r)), SizeOf(Key(r))) /\ Goto(r, "create")
      <4>1. UpCharge(u, r)' = IF User(Key(r)) = u THEN SizeOf(Key(r)) ELSE 0
        BY <2>2, <2>3, <3>2 DEF UpCharge, UploadPC
      <4>2. usage'[u] = usage[u] + UpCharge(u, r)'
        BY <2>2, <3>2, <4>1 DEF TryAddBundleUsage, TypeOK
      <4> QED
        BY <2>3, <2>6, <2>10, <3>1, <3>2, <4>2 DEF ReserveQuota, UploadPC
    <3>3. CASE /\ Return(r)
               /\ UNCHANGED usage \/ TryAddBundleUsage(User(Key(r)), SizeOf(Key(r)))
      <4>1. UpCharge(u, r)' = 0
        BY <2>3, <3>3 DEF UpCharge
      <4>2. usage'[u] >= usage[u]
        BY <2>2, <3>3 DEF TryAddBundleUsage, TypeOK
      <4> QED
        BY <2>3, <2>6, <2>10, <3>1, <3>3, <4>1, <4>2 DEF ReserveQuota
    <3> QED
      BY <2>10, <3>2, <3>3 DEF ReserveQuota, Fails
  <2>11. CASE CreateRow(r)
    <3>1. UpCharge(u, r) = IF User(Key(r)) = u THEN SizeOf(Key(r)) ELSE 0
      BY <2>2, <2>11 DEF CreateRow, At, UpCharge
    <3>2. CASE Create(Key(r)) /\ Goto(r, "put")
      <4>1. UpCharge(u, r)' = 0
        BY <2>3, <3>2 DEF UpCharge, UploadPC
      <4>2. RowCharge(u, b)' - RowCharge(u, b) = UpCharge(u, r)
        <5>1. CASE User(Key(r)) = u
          <6>1. row[<<u, b>>] = "none" /\ row'[<<u, b>>] = "live"
            BY <2>2, <2>8, <3>2, <5>1 DEF Create, TypeOK
          <6> QED
            BY <2>2, <2>b, <3>1, <5>1, <6>1 DEF RowCharge, SizeOf
        <5>2. CASE User(Key(r)) # u
          <6>1. row'[<<u, b>>] = row[<<u, b>>]
            BY <2>2, <2>8, <3>2, <5>2 DEF Create, TypeOK
          <6> QED
            BY <3>1, <5>2, <6>1 DEF RowCharge
        <5> QED
          BY <5>1, <5>2
      <4>3. Sum(Charged(u))' = Sum(Charged(u)) - UpCharge(u, r) - RowCharge(u, b)
                                 + UpCharge(u, r)' + RowCharge(u, b)'
        BY <2>3, <2>7, <3>2 DEF Create, UploadPC
      <4>4. UNCHANGED usage
        BY <2>11 DEF CreateRow
      <4> QED
        BY <4>1, <4>2, <4>3, <4>4
    <3>3. CASE UNCHANGED row /\ AfterRollback(r)
      <4>1. UpCharge(u, r)' = UpCharge(u, r)
        BY <2>2, <2>4, <3>1, <3>3 DEF UpCharge
      <4> QED
        BY <2>4, <2>6, <2>11, <3>3, <4>1 DEF CreateRow
    <3> QED
      BY <2>11, <3>2, <3>3 DEF CreateRow, Fails, QuotaConditions
  <2>12. CASE PutBlob(r)
    <3>1. UpCharge(u, r) = 0 /\ UpCharge(u, r)' = 0
      BY <2>3, <2>12 DEF PutBlob, UploadPC, UpCharge, At
    <3> QED
      BY <2>3, <2>6, <2>12, <3>1 DEF PutBlob, UploadPC
  <2>13. CASE UndoRow(r)
    <3>1. UpCharge(u, r) = 0 /\ row[Key(r)] = "live"
      BY <2>13 DEF UndoRow, At, UpCharge, QuotaInv, OwnedIsLive, Owner
    <3>2. HardDelete(Key(r)) /\ AfterRollback(r)
      BY <2>13 DEF UndoRow, QuotaConditions
    <3>3. UpCharge(u, r)' = IF User(Key(r)) = u THEN SizeOf(Key(r)) ELSE 0
      BY <2>2, <2>4, <3>2 DEF UpCharge
    <3>4. RowCharge(u, b) - RowCharge(u, b)' = UpCharge(u, r)'
      <4>1. CASE User(Key(r)) = u
        BY <2>b, <2>2, <2>8, <3>1, <3>2, <3>3, <4>1 DEF HardDelete, RowCharge, TypeOK, SizeOf
      <4>2. CASE User(Key(r)) # u
        <5>1. row'[<<u, b>>] = row[<<u, b>>]
          BY <2>2, <2>8, <3>2, <4>2 DEF HardDelete, TypeOK
        <5> QED
          BY <3>3, <4>2, <5>1 DEF RowCharge
      <4> QED
        BY <4>1, <4>2
    <3>5. Sum(Charged(u))' = Sum(Charged(u)) - UpCharge(u, r) - RowCharge(u, b)
                               + UpCharge(u, r)' + RowCharge(u, b)'
      BY <2>4, <2>7, <3>2 DEF HardDelete
    <3>6. UNCHANGED usage
      BY <2>13 DEF UndoRow
    <3> QED
      BY <3>1, <3>4, <3>5, <3>6
  <2>14. CASE UndoUsage(r)
    <3>1. UpCharge(u, r) = IF User(Key(r)) = u THEN SizeOf(Key(r)) ELSE 0
      BY <2>2, <2>14 DEF UndoUsage, At, UpCharge
    <3>2. UpCharge(u, r)' = 0
      BY <2>3, <2>14 DEF UndoUsage, UpCharge
    <3>3. usage'[u] >= usage[u] - UpCharge(u, r)
      BY <2>2, <2>14, <3>1 DEF UndoUsage, RemoveBundleUsage, Monus, TypeOK
    <3> QED
      BY <2>3, <2>6, <2>14, <3>2, <3>3 DEF UndoUsage
  <2>15. CASE Settle(r)
    <3>1. UpCharge(u, r) = 0 /\ UpCharge(u, r)' = 0
      BY <2>2, <2>3, <2>15 DEF Settle, UpCharge, At
    <3> QED
      BY <2>2, <2>3, <2>6, <2>15, <3>1 DEF Settle
  <2>16. ~UndoSettleRow(r) /\ ~UndoSettleBlob(r)
    BY <2>1 DEF UndoSettleRow, UndoSettleBlob, QuotaInv, Unguarded
  <2>17. CASE CrashUpload(r)
    <3>1. UpCharge(u, r)' = 0
      BY <2>3, <2>17 DEF UpCharge
    <3> QED
      BY <2>3, <2>6, <2>17, <3>1 DEF CrashUpload
  <2> HIDE DEF Goal
  <2> QED
    BY <1>3, <2>9, <2>10, <2>11, <2>12, <2>13, <2>14, <2>15, <2>16, <2>17 DEF UploadStep
<1>4. ASSUME NEW d \in Deleters, NEW k \in Keys, DeleteBundle(d, k)
      PROVE  Goal
  <2>1. /\ User(k) \in Users /\ Bundle(k) \in Bundles /\ SizeOf(k) \in Nat
        /\ User(k) = u => <<u, Bundle(k)>> = k
        /\ User(k) # u => <<u, Bundle(k)>> # k
        /\ <<u, Bundle(k)>> \in Keys
    BY KeyParts, ConstantsAssumption DEF Keys, User, Bundle, SizeOf
  <2>2. \A b \in Bundles \ {Bundle(k)} : row'[<<u, b>>] = row[<<u, b>>]
    BY <1>4 DEF DeleteBundle, SoftDelete, TypeOK, Keys, Bundle
  <2>3. /\ \A b \in Bundles \ {Bundle(k)} : RowCharge(u, b)' = RowCharge(u, b)
        /\ RowCharge(u, Bundle(k)) - RowCharge(u, Bundle(k))' = IF User(k) = u THEN SizeOf(k) ELSE 0
    BY <1>4, <2>1, <2>2 DEF RowCharge, DeleteBundle, SoftDelete, TypeOK, SizeOf
  <2>4. /\ \A e \in Deleters \ {d} : DelCharge(u, e)' = DelCharge(u, e)
        /\ DelCharge(u, d) = 0
        /\ DelCharge(u, d)' <= IF User(k) = u THEN SizeOf(k) ELSE 0
    BY <1>4, <2>1 DEF DelCharge, DeleteBundle, TypeOK
  <2>5. UNCHANGED <<up, usage>>
    BY <1>4 DEF DeleteBundle
  <2> QED
    BY <2>1, <2>3, <2>4, <2>5, <1>u, DeleteAndRow
<1>5. ASSUME NEW d \in Deleters, ReleaseUsage(d) \/ CrashDelete(d)
      PROVE  Goal
  <2>1. del[d].key \in Keys /\ del[d].pc = "usage"
    BY <1>5 DEF ReleaseUsage, CrashDelete, TypeOK, Idle
  <2>2. User(del[d].key) \in Users /\ SizeOf(del[d].key) \in Nat
    BY <2>1, KeyParts, ConstantsAssumption DEF SizeOf
  <2>3. /\ \A e \in Deleters \ {d} : DelCharge(u, e)' = DelCharge(u, e)
        /\ DelCharge(u, d) = IF User(del[d].key) = u THEN SizeOf(del[d].key) ELSE 0
        /\ DelCharge(u, d)' = 0
    BY <1>5, <2>1 DEF DelCharge, ReleaseUsage, CrashDelete, TypeOK, Idle
  <2>4. usage'[u] >= usage[u] - DelCharge(u, d)
    BY <1>5, <2>2, <2>3 DEF ReleaseUsage, CrashDelete, RemoveBundleUsage, Monus, TypeOK
  <2>5. UNCHANGED <<row, up>>
    BY <1>5 DEF ReleaseUsage, CrashDelete
  <2> QED
    BY <2>3, <2>4, <2>5, <1>r, <1>u, DeleteCharge
<1>6. ASSUME NEW k \in Keys, Expire(k) \/ \E p \in Purgers : PurgeRow(p, k)
      PROVE  Goal
  <2>1. row[k] \in {"deleted", "expired"}
    BY <1>6 DEF Expire, PurgeRow, QuotaInv, OneRun, IInv, StoreInv, ListedIsExpired
  <2>2. \A j \in Keys : row'[j] = "live" <=> row[j] = "live"
    BY <1>6, <2>1 DEF Expire, PurgeRow, HardDelete, TypeOK
  <2>3. \A b \in Bundles : RowCharge(u, b)' = RowCharge(u, b)
    BY <2>2 DEF RowCharge, Keys
  <2>4. UNCHANGED <<up, del, usage>>
    BY <1>6 DEF Expire, PurgeRow
  <2>5. Sum(Charged(u))' = Sum(Charged(u))
    BY <2>3, <2>4, <1>u, <1>d, ChargesKept
  <2> QED
    BY <2>4, <2>5
<1>7. ~Recalculation /\ ~RecalcWrites
  BY DEF Recalculation, RecalculateUsage, RecalculateAllUsage, RecalcRead, RecalcWrites,
         RecalcWrite, QuotaInv, NoRecalculation, QuotaConditions
<1> HIDE DEF Goal
<1>8. QED
  BY <1>1, <1>2, <1>3, <1>4, <1>5, <1>6, <1>7
     DEF Next, PurgeStep, PurgeList, PurgeBlob, LoseLock, CrashPurge, vars, Goal

LEMMA QuotaInit ==
  ASSUME Init
  PROVE  QuotaInv
<1>1. IInv
  BY InitType, InitStore DEF IInv
<1>2. Unguarded /\ OwnedIsLive /\ NoRecalculation /\ OneRun /\ WithinLimit
  BY ConstantsAssumption
     DEF Init, Unguarded, OwnedIsLive, NoRecalculation, OneRun, WithinLimit, At, Owner,
         Idle, Resting
<1>3. ASSUME NEW u \in Users
      PROVE  Sum(Charged(u)) <= usage[u]
  <2>1. \A c \in Charges : Charged(u)[c] = 0
    BY DEF Init, Charged, Live, Idle, Keys
  <2>2. Charged(u) = [c \in Charges |-> 0]
    BY <2>1 DEF Charged
  <2> QED
    BY <2>2, SumAssumption DEF Init
<1> QED
  BY <1>1, <1>2, <1>3 DEF QuotaInv, UsageCoversStored

LEMMA QuotaStep ==
  ASSUME QuotaConditions
  PROVE  QuotaInv /\ [Next]_vars => QuotaInv'
<1> SUFFICES ASSUME QuotaInv, [Next]_vars
             PROVE  QuotaInv'
  OBVIOUS
<1>1. IInv'
  BY StepType, StepStore DEF QuotaInv, IInv
<1> QED
  BY <1>1, QuotaSideStep, OneRunStep, UsageStep DEF QuotaInv, IInv

LEMMA QuotaInvariance ==
  ASSUME QuotaConditions
  PROVE  Spec => []QuotaInv
<1>1. Init => QuotaInv
  BY QuotaInit
<1>2. QuotaInv /\ [Next]_vars => QuotaInv'
  BY QuotaStep
<1> QED
  BY <1>1, <1>2, PTL DEF Spec

\* storage_usage is never below what is stored and reserved, whichever of the
\* calls fail, replies are lost or processes stop, on the conditions above.
THEOREM UsageCovered ==
  ASSUME QuotaConditions
  PROVE  Spec => []UsageCoversStored
<1>1. QuotaInv => UsageCoversStored
  BY DEF QuotaInv
<1> QED
  BY <1>1, QuotaInvariance, PTL

\* TryAddBundleUsage alone keeps every user within the limit of the tier, however
\* many uploads and deletes run at once.
THEOREM QuotaHolds ==
  ASSUME QuotaConditions
  PROVE  Spec => []QuotaNotOversold
<1>1. ASSUME QuotaInv, NEW u \in Users
      PROVE  LiveBytes(u) <= Limit
  <2> DEFINE f == [c \in Charges |-> IF c \in Live(u) THEN Size[c] ELSE 0]
  <2>1. TypeOK /\ f \in [Charges -> Weights]
    BY <1>1 DEF QuotaInv, IInv, Live, Weights
  <2>2. Charged(u) \in [Charges -> Weights]
    BY <2>1, ChargesNow
  <2>3. \A c \in Charges : f[c] <= Charged(u)[c]
    <3>1. \A c \in Live(u) : c \in Charges => f[c] = Charged(u)[c]
      BY DisjointAssumption DEF Charged, Live
    <3>2. \A c \in Charges : Charged(u)[c] \in Nat
      BY <2>2, WeightsAreNat
    <3> QED
      BY <3>1, <3>2
  <2>4. Sum(f) <= Sum(Charged(u))
    BY <2>1, <2>2, <2>3, SumAssumption
  <2>5. Sum(Charged(u)) <= usage[u] /\ usage[u] <= Limit
    BY <1>1 DEF QuotaInv, UsageCoversStored, WithinLimit
  <2>6. Sum(f) \in Nat /\ Sum(Charged(u)) \in Nat /\ usage[u] \in Nat /\ Limit \in Nat
    BY <2>1, <2>2, SumAssumption, ConstantsAssumption DEF TypeOK
  <2>7. LiveBytes(u) = Sum(f)
    BY DEF LiveBytes
  <2> HIDE DEF f
  <2> QED
    BY <2>4, <2>5, <2>6, <2>7
<1>2. QuotaInv => QuotaNotOversold
  BY <1>1 DEF QuotaNotOversold
<1> QED
  BY <1>2, QuotaInvariance, PTL

=============================================================================
