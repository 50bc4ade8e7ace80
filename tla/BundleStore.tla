----------------------------- MODULE BundleStore -----------------------------
(***************************************************************************)
(* Bundle storage: the metadata rows in PostgreSQL, the blobs in S3 and    *)
(* the per-user usage counters, as they are changed by concurrent uploads, *)
(* deletes, the retention purge and the quota reconciliation.              *)
(*                                                                         *)
(* No transaction spans two of these stores, so every call of a service    *)
(* method to the database or to the blob store is a step of its own, and a *)
(* process may crash between two of them.                                  *)
(***************************************************************************)
EXTENDS Integers, FiniteSets

CONSTANTS
  Users,          \* user ids
  Bundles,        \* client-chosen bundle ids
  Requests,       \* concurrent UploadBundle executions
  Deleters,       \* concurrent DeleteBundle executions
  Purgers,        \* runs of the retention task, on one or more instances
  Size,           \* size_bytes of each bundle
  Limit,          \* StorageLimitBytes of the users' tier
  BatchSize,      \* retentionCleanupBatchSize
  Sum(_),         \* SQL SUM of a column, given as a function on Charges
  HookConfigured, \* is an Enterprise UsageReservationHook wired in?
  Reconciling,    \* does any quota recalculation run?
  DeleteInFlight, \* may a delete hit a bundle whose upload has not answered?
  Failing,        \* calls that may report an error without taking effect
  Lost,           \* calls that may take effect and still report an error
  Crashes,        \* may a server process stop between two calls?
  LockLoss        \* may a run lose the connection that holds its advisory lock?

Calls == {"tryAdd", "create", "put", "hardDelete", "softDelete", "removeUsage",
          "settle", "blobDelete"}

(***************************************************************************)
(* What a byte may be charged to: a live row, an upload that has reserved  *)
(* quota but holds no row, or a delete that has not yet given back quota.  *)
(***************************************************************************)
Charges == Bundles \cup Requests \cup Deleters

Weights == {0} \cup {Size[b] : b \in Bundles}

ASSUME ConstantsAssumption ==
  /\ Size \in [Bundles -> Nat \ {0}]
  /\ Limit \in Nat
  /\ BatchSize \in Nat \ {0}
  /\ {HookConfigured, Reconciling, DeleteInFlight, Crashes, LockLoss} \subseteq BOOLEAN
  /\ Failing \subseteq Calls
  /\ Lost \subseteq Calls

ASSUME DisjointAssumption ==
  /\ Bundles \cap Requests = {}
  /\ Bundles \cap Deleters = {}
  /\ Requests \cap Deleters = {}

ASSUME SumAssumption ==
  /\ Sum([c \in Charges |-> 0]) = 0
  /\ \A f \in [Charges -> Weights] :
       /\ Sum(f) \in Nat
       /\ \A c \in Charges, w \in Weights :
            Sum([f EXCEPT ![c] = w]) = Sum(f) - f[c] + w
       /\ \A g \in [Charges -> Weights] :
            (\A c \in Charges : f[c] <= g[c]) => Sum(f) <= Sum(g)

VARIABLES
  row,     \* bundles table: none, live, soft-deleted, or soft-deleted past grace
  blob,    \* keys present in the blob store
  usage,   \* storage_usage.total_bytes of each user
  up,      \* the upload requests: program counter, key, reservation guard
  del,     \* the delete requests
  purge,   \* the retention runs: rows listed, the one whose blob is gone, the lock
  recalc,  \* a recalculation: values read and not yet written
  acked,   \* history: uploads answered 201 and not deleted since
  putErr,  \* history: keys whose last Put reported an error
  contested \* history: keys that two retention runs had listed at once

vars == <<row, blob, usage, up, del, purge, recalc, acked, putErr, contested>>

Keys == Users \X Bundles
User(k) == k[1]
Bundle(k) == k[2]

Idle == [pc |-> "idle"]
Resting == [batch |-> {}, cur |-> {}, locked |-> FALSE]

UploadPC == {"exists", "quota", "create", "put", "undoRow", "undoUsage", "settle",
             "undoSettleRow", "undoSettleBlob"}

TypeOK ==
  /\ row \in [Keys -> {"none", "live", "deleted", "expired"}]
  /\ blob \subseteq Keys
  /\ usage \in [Users -> Nat]
  /\ up \in [Requests ->
               {Idle} \cup [pc : UploadPC, key : Keys, guard : BOOLEAN]]
  /\ del \in [Deleters -> {Idle} \cup [pc : {"usage"}, key : Keys]]
  /\ purge \in [Purgers -> [batch : SUBSET Keys, cur : SUBSET Keys, locked : BOOLEAN]]
  /\ recalc \in [users : SUBSET Users, bytes : [Users -> Nat]]
  /\ acked \subseteq Keys
  /\ putErr \subseteq Keys
  /\ contested \subseteq Keys

Init ==
  /\ row = [k \in Keys |-> "none"]
  /\ blob = {}
  /\ usage = [u \in Users |-> 0]
  /\ up = [r \in Requests |-> Idle]
  /\ del = [d \in Deleters |-> Idle]
  /\ purge = [p \in Purgers |-> Resting]
  /\ recalc = [users |-> {}, bytes |-> [u \in Users |-> 0]]
  /\ acked = {}
  /\ putErr = {}
  /\ contested = {}

-----------------------------------------------------------------------------
(***************************************************************************)
(* The repository's statements, each one atomic.                           *)
(***************************************************************************)
ExistsByID(b) == \E u \in Users : row[<<u, b>>] # "none"

\* Mutant: an upsert, which takes over the row of another upload.
Upsert(k) == row' = [row EXCEPT ![k] = "live"]

Create(k) ==
  /\ row[k] = "none"
  /\ row' = [row EXCEPT ![k] = "live"]

SoftDelete(k) ==
  /\ row[k] = "live"
  /\ row' = [row EXCEPT ![k] = "deleted"]

HardDelete(k) == row' = [row EXCEPT ![k] = "none"]

Monus(a, b) == IF a >= b THEN a - b ELSE 0

\* Mutant: the bytes of the upload itself are not counted.
FitsQuotaBefore(u, size) == usage[u] < Limit

FitsQuota(u, size) == usage[u] + size <= Limit

TryAddBundleUsage(u, size) ==
  /\ FitsQuota(u, size)
  /\ usage' = [usage EXCEPT ![u] = @ + size]

RemoveBundleUsage(u, size) == usage' = [usage EXCEPT ![u] = Monus(@, size)]

Live(u) == {b \in Bundles : row[<<u, b>>] = "live"}

\* GetByID finds the row and the blob store has the object.
DownloadBundle(k) == row[k] = "live" /\ k \in blob

LiveBytes(u) == Sum([c \in Charges |-> IF c \in Live(u) THEN Size[c] ELSE 0])

ListDeletedBefore(batch) ==
  LET expired == {k \in Keys : row[k] = "expired"}
  IN  /\ batch # {}
      /\ batch \subseteq expired
      /\ Cardinality(batch) <= BatchSize
      /\ batch = expired \/ Cardinality(batch) = BatchSize

(***************************************************************************)
(* How a call answers.  Statement is what the call does when it works; a   *)
(* call that reports an error has done nothing, or has done everything and *)
(* lost its reply.                                                         *)
(***************************************************************************)
Fails(call, Statement, unchanged) ==
  \/ call \in Failing /\ unchanged
  \/ call \in Lost /\ Statement

-----------------------------------------------------------------------------
(***************************************************************************)
(* UploadBundle                                                            *)
(***************************************************************************)
Key(r) == up[r].key
SizeOf(k) == Size[Bundle(k)]
At(r, pc) == up[r].pc = pc
Goto(r, pc) == up' = [up EXCEPT ![r].pc = pc]

\* Does r hold the row it created?
Owner(r) ==
  up[r].pc \in {"put", "undoRow", "settle", "undoSettleRow", "undoSettleBlob"}

\* reserve(): with a hook, a reservation is acquired or the hook declines to
\* track this upload; without one the guard stays inactive.  What the hook keeps
\* is not the server's state: only the guard, which decides the path, is.
BeginUpload(r, k) ==
  /\ At(r, "idle")
  /\ \E active \in (IF HookConfigured THEN BOOLEAN ELSE {FALSE}) :
       up' = [up EXCEPT ![r] = [pc |-> "exists", key |-> k, guard |-> active]]
  /\ UNCHANGED <<row, blob, usage, del, purge, recalc, acked, putErr, contested>>

\* Return from UploadBundle.  The deferred ReleaseStorage, which answers nothing,
\* goes to the hook unless the reservation was settled.
Return(r) == up' = [up EXCEPT ![r] = Idle]

\* The three reads before the reservation: id, device and tier.  Any of them
\* may refuse the upload: the id is taken, the device unknown or revoked, the
\* user gone, or the query failed.
CheckExists(r) ==
  /\ At(r, "exists")
  /\ \/ /\ ~ExistsByID(Bundle(Key(r)))
        /\ Goto(r, IF up[r].guard THEN "create" ELSE "quota")
     \/ Return(r)
  /\ UNCHANGED <<row, blob, usage, del, purge, recalc, acked, putErr, contested>>

ReserveQuota(r) ==
  /\ At(r, "quota")
  /\ \/ /\ TryAddBundleUsage(User(Key(r)), SizeOf(Key(r)))
        /\ Goto(r, "create")
     \/ /\ \/ ~FitsQuota(User(Key(r)), SizeOf(Key(r))) /\ UNCHANGED usage
           \/ Fails("tryAdd", TryAddBundleUsage(User(Key(r)), SizeOf(Key(r))),
                    UNCHANGED usage)
        /\ Return(r)
  /\ UNCHANGED <<row, blob, del, purge, recalc, acked, putErr, contested>>

AfterRollback(r) == IF up[r].guard THEN Return(r) ELSE Goto(r, "undoUsage")

CreateRow(r) ==
  /\ At(r, "create")
  /\ \/ Create(Key(r)) /\ Goto(r, "put")
     \/ /\ \/ row[Key(r)] # "none" /\ UNCHANGED row
           \/ Fails("create", Create(Key(r)), UNCHANGED row)
        /\ AfterRollback(r)
  /\ UNCHANGED <<blob, usage, del, purge, recalc, acked, putErr, contested>>

PutBlob(r) ==
  /\ At(r, "put")
  /\ \/ /\ blob' = blob \cup {Key(r)}
        /\ putErr' = putErr \ {Key(r)}
        /\ Goto(r, "settle")
     \/ /\ Fails("put", blob' = blob \cup {Key(r)}, UNCHANGED blob)
        /\ putErr' = putErr \cup {Key(r)}
        /\ Goto(r, "undoRow")
  /\ UNCHANGED <<row, usage, del, purge, recalc, acked, contested>>

UndoRow(r) ==
  /\ At(r, "undoRow")
  /\ HardDelete(Key(r)) \/ ("hardDelete" \in Failing /\ UNCHANGED row)
  /\ AfterRollback(r)
  /\ UNCHANGED <<blob, usage, del, purge, recalc, acked, putErr, contested>>

UndoUsage(r) ==
  /\ At(r, "undoUsage")
  /\ \/ RemoveBundleUsage(User(Key(r)), SizeOf(Key(r)))
     \/ "removeUsage" \in Failing /\ UNCHANGED usage
  /\ Return(r)
  /\ UNCHANGED <<row, blob, del, purge, recalc, acked, putErr, contested>>

\* Settle the reservation, if there is one, and answer 201.
Settle(r) ==
  /\ At(r, "settle")
  /\ \/ /\ Return(r)
        /\ acked' = IF row[Key(r)] = "live" THEN acked \cup {Key(r)} ELSE acked
     \/ /\ up[r].guard
        /\ "settle" \in Failing
        /\ Goto(r, "undoSettleRow")
        /\ UNCHANGED acked
  /\ UNCHANGED <<row, blob, usage, del, purge, recalc, putErr, contested>>

UndoSettleRow(r) ==
  /\ At(r, "undoSettleRow")
  /\ \/ SoftDelete(Key(r))
     \/ (row[Key(r)] # "live" \/ "softDelete" \in Failing) /\ UNCHANGED row
  /\ Goto(r, "undoSettleBlob")
  /\ UNCHANGED <<blob, usage, del, purge, recalc, acked, putErr, contested>>

UndoSettleBlob(r) ==
  /\ At(r, "undoSettleBlob")
  /\ \/ blob' = blob \ {Key(r)} /\ putErr' = putErr \ {Key(r)}
     \/ "blobDelete" \in Failing /\ UNCHANGED <<blob, putErr>>
  /\ Return(r)
  /\ UNCHANGED <<row, usage, del, purge, recalc, acked, contested>>

\* The process serving r stops: nothing is rolled back, the reservation is
\* not released, and a Put under way may or may not have been stored.
CrashUpload(r) ==
  /\ Crashes
  /\ ~At(r, "idle")
  /\ up' = [up EXCEPT ![r] = Idle]
  /\ \/ UNCHANGED blob
     \/ At(r, "put") /\ blob' = blob \cup {Key(r)}
  /\ UNCHANGED <<row, usage, del, purge, recalc, acked, putErr, contested>>

-----------------------------------------------------------------------------
(***************************************************************************)
(* DeleteBundle                                                            *)
(***************************************************************************)
DeleteBundle(d, k) ==
  /\ del[d].pc = "idle"
  /\ DeleteInFlight \/ k \in acked
  /\ SoftDelete(k)
  /\ acked' = acked \ {k}
  /\ \/ del' = [del EXCEPT ![d] = [pc |-> "usage", key |-> k]]
     \/ "softDelete" \in Lost /\ UNCHANGED del
  /\ UNCHANGED <<blob, usage, up, purge, recalc, putErr, contested>>

ReleaseUsage(d) ==
  /\ del[d].pc = "usage"
  /\ \/ RemoveBundleUsage(User(del[d].key), SizeOf(del[d].key))
     \/ "removeUsage" \in Failing /\ UNCHANGED usage
  /\ del' = [del EXCEPT ![d] = Idle]
  /\ UNCHANGED <<row, blob, up, purge, recalc, acked, putErr, contested>>

CrashDelete(d) ==
  /\ Crashes
  /\ del[d].pc = "usage"
  /\ del' = [del EXCEPT ![d] = Idle]
  /\ UNCHANGED <<row, blob, usage, up, purge, recalc, acked, putErr, contested>>

-----------------------------------------------------------------------------
(***************************************************************************)
(* purgeExpiredBundles.  The scheduler starts a run only while it holds    *)
(* the task's advisory lock.  The lock lives on a connection the run does  *)
(* not use: when that connection drops, PostgreSQL lets the lock go, the   *)
(* run goes on with the rows it listed and another instance may start one. *)
(***************************************************************************)

\* deleted_at passes now - grace.  The grace period (30 days by default) is
\* taken to be longer than any request lasts.
Expire(k) ==
  /\ row[k] = "deleted"
  /\ ~\E r \in Requests : Owner(r) /\ Key(r) = k
  /\ row' = [row EXCEPT ![k] = "expired"]
  /\ UNCHANGED <<blob, usage, up, del, purge, recalc, acked, putErr, contested>>

\* Rows the other runs have listed and not finished.
ListedBesides(p) == UNION {purge[q].batch : q \in Purgers \ {p}}

PurgeList(p) ==
  /\ purge[p] = Resting
  /\ ~\E q \in Purgers : purge[q].locked
  /\ \E batch \in SUBSET Keys :
       /\ ListDeletedBefore(batch)
       /\ purge' = [purge EXCEPT ![p] = [batch |-> batch, cur |-> {}, locked |-> TRUE]]
       /\ contested' = contested \cup (batch \cap ListedBesides(p))
  /\ UNCHANGED <<row, blob, usage, up, del, recalc, acked, putErr>>

LoseLock(p) ==
  /\ LockLoss
  /\ purge[p].locked
  /\ purge' = [purge EXCEPT ![p].locked = FALSE]
  /\ UNCHANGED <<row, blob, usage, up, del, recalc, acked, putErr, contested>>

\* The run is done with k; after its last row it returns and unlocks.
Finish(p, k) ==
  purge' = [purge EXCEPT ![p] =
              IF @.batch = {k} THEN Resting
              ELSE [batch |-> @.batch \ {k}, cur |-> {}, locked |-> @.locked]]

\* Mutant: the row goes even when the blob delete failed.
PurgeBlobIgnoringError(p, k) ==
  /\ k \in purge[p].batch
  /\ purge[p].cur = {}
  /\ blob' = blob \ {k} \/ ("blobDelete" \in Failing /\ UNCHANGED blob)
  /\ purge' = [purge EXCEPT ![p].cur = {k}]
  /\ UNCHANGED <<row, usage, up, del, recalc, acked, putErr, contested>>

PurgeBlob(p, k) ==
  /\ k \in purge[p].batch
  /\ purge[p].cur = {}
  /\ \/ /\ blob' = blob \ {k}
        /\ putErr' = putErr \ {k}
        /\ purge' = [purge EXCEPT ![p].cur = {k}]
     \/ /\ Fails("blobDelete", blob' = blob \ {k}, UNCHANGED blob)
        /\ Finish(p, k)
        /\ UNCHANGED putErr
  /\ UNCHANGED <<row, usage, up, del, recalc, acked, contested>>

\* Mutant: the bytes, given back by the delete, are given back again.
PurgeRowAndUsage(p, k) ==
  /\ purge[p].cur = {k}
  /\ HardDelete(k)
  /\ RemoveBundleUsage(User(k), SizeOf(k))
  /\ Finish(p, k)
  /\ UNCHANGED <<blob, up, del, recalc, acked, putErr, contested>>

PurgeRow(p, k) ==
  /\ purge[p].cur = {k}
  /\ HardDelete(k) \/ ("hardDelete" \in Failing /\ UNCHANGED row)
  /\ Finish(p, k)
  /\ UNCHANGED <<blob, usage, up, del, recalc, acked, putErr, contested>>

CrashPurge(p) ==
  /\ Crashes
  /\ purge[p].batch # {}
  /\ purge' = [purge EXCEPT ![p] = Resting]
  /\ UNCHANGED <<row, blob, usage, up, del, recalc, acked, putErr, contested>>

-----------------------------------------------------------------------------
(***************************************************************************)
(* RecalculateUsage (one user) and RecalculateAllUsage (every user).  The  *)
(* upsert computes its values from the statement's snapshot and writes     *)
(* each row once it holds that row's lock; uploads commit in between.      *)
(***************************************************************************)
RecalcRead(S) ==
  /\ Reconciling
  /\ recalc.users = {}
  /\ recalc' = [users |-> S,
                bytes |-> [u \in Users |-> IF u \in S THEN LiveBytes(u) ELSE 0]]
  /\ UNCHANGED <<row, blob, usage, up, del, purge, acked, putErr, contested>>

\* Mutant: the upsert keeps the larger of the old and the new value.
RecalcWriteGreatest(u) ==
  /\ u \in recalc.users
  /\ usage' = [usage EXCEPT ![u] = IF @ > recalc.bytes[u] THEN @ ELSE recalc.bytes[u]]
  /\ recalc' = [users |-> recalc.users \ {u},
                bytes |-> [recalc.bytes EXCEPT ![u] = 0]]
  /\ UNCHANGED <<row, blob, up, del, purge, acked, putErr, contested>>

RecalcWrite(u) ==
  /\ u \in recalc.users
  /\ usage' = [usage EXCEPT ![u] = recalc.bytes[u]]
  /\ recalc' = [users |-> recalc.users \ {u},
                bytes |-> [recalc.bytes EXCEPT ![u] = 0]]
  /\ UNCHANGED <<row, blob, up, del, purge, acked, putErr, contested>>

RecalculateUsage == \E u \in Users : RecalcRead({u})
RecalculateAllUsage == RecalcRead(Users)

-----------------------------------------------------------------------------
UploadStep(r) ==
  \/ CheckExists(r) \/ ReserveQuota(r) \/ CreateRow(r) \/ PutBlob(r)
  \/ UndoRow(r) \/ UndoUsage(r)
  \/ Settle(r) \/ UndoSettleRow(r) \/ UndoSettleBlob(r)

PurgeStep(p) == \E k \in Keys : PurgeBlob(p, k) \/ PurgeRow(p, k)
Recalculation == RecalculateUsage \/ RecalculateAllUsage
RecalcWrites == \E u \in Users : RecalcWrite(u)

Next ==
  \/ \E r \in Requests, k \in Keys : BeginUpload(r, k)
  \/ \E r \in Requests : UploadStep(r) \/ CrashUpload(r)
  \/ \E d \in Deleters, k \in Keys : DeleteBundle(d, k)
  \/ \E d \in Deleters : ReleaseUsage(d) \/ CrashDelete(d)
  \/ \E k \in Keys : Expire(k)
  \/ \E p \in Purgers : PurgeList(p) \/ PurgeStep(p) \/ LoseLock(p) \/ CrashPurge(p)
  \/ Recalculation \/ RecalcWrites

Spec == Init /\ [][Next]_vars

(***************************************************************************)
(* A request that has started runs on, and the scheduler starts the        *)
(* reconcile task at every tick.  Nothing obliges a client to send         *)
(* another request.                                                        *)
(***************************************************************************)
Fairness ==
  /\ \A r \in Requests : WF_vars(UploadStep(r))
  /\ \A d \in Deleters : WF_vars(ReleaseUsage(d))
  /\ WF_vars(RecalculateAllUsage)
  /\ WF_vars(RecalcWrites)

FairSpec == Spec /\ Fairness

-----------------------------------------------------------------------------
(***************************************************************************)
(* Properties                                                              *)
(***************************************************************************)

\* A bundle whose upload was answered 201 stays listed and downloadable until
\* its owner deletes it: no rollback, purge, crash or lost reply of another
\* request removes its row or its blob.  One hazard is set apart: when the purge
\* lost its lock and a second run listed the same row, the older run's list is
\* stale, and its Delete and HardDelete, which ask nothing, may hit a bundle
\* uploaded again under the same id.
AckedIsStored == \A k \in acked \ contested : DownloadBundle(k)

\* The purge and the roll-backs leave no blob without a metadata row, except
\* after a Put that reported an error although the object had been stored:
\* UploadBundle then removes the row and does not delete the object.  Two runs of
\* the purge on one row are set apart here too.
OrphanOnlyAfterFailedPut ==
  \A k \in blob \ contested : row[k] = "none" => k \in putErr

\* Bytes that u's usage must still cover: live rows, reservations of uploads
\* without a row, and deletes that have yet to give their bytes back.
Charged(u) ==
  [c \in Charges |->
     CASE c \in Live(u) -> Size[c]
       [] c \in Requests /\ up[c].pc \in {"create", "undoUsage"}
            -> IF User(up[c].key) = u THEN SizeOf(up[c].key) ELSE 0
       [] c \in Deleters /\ del[c].pc = "usage"
            -> IF User(del[c].key) = u THEN SizeOf(del[c].key) ELSE 0
       [] OTHER -> 0]

\* storage_usage never falls below what is stored and reserved: a crash or a
\* failed decrement may over-count a user, nothing under-counts one.  It needs a
\* Create and a HardDelete that tell the truth: an upload whose Create was
\* committed and reported an error gives back the bytes of a live row.
UsageCoversStored == \A u \in Users : Sum(Charged(u)) <= usage[u]

\* TryAddBundleUsage is the authoritative check: whatever uploads, deletes
\* and failures interleave, no user stores more than the tier's limit.
QuotaNotOversold == \A u \in Users : LiveBytes(u) <= Limit

\* Drift of the counters is transient: once requests stop coming, the periodic
\* reconcile brings storage_usage back to what the live rows add up to.
Quiescent ==
  /\ \A r \in Requests : At(r, "idle")
  /\ \A d \in Deleters : del[d].pc = "idle"

DriftCorrected ==
  \A u \in Users :
    <>[]Quiescent => <>[](usage[u] = LiveBytes(u))

=============================================================================
