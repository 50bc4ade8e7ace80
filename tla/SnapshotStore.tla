---------------------------- MODULE SnapshotStore ----------------------------
(***************************************************************************)
(* The snapshots of one user: UploadSnapshot with its pruning of old       *)
(* snapshots, and the retention purge of the pruned ones.  Users do not    *)
(* share any of this state, so one user stands for all of them.            *)
(***************************************************************************)
EXTENDS Integers, FiniteSets

CONSTANTS
  Snapshots,    \* client-chosen snapshot ids
  Requests,     \* concurrent UploadSnapshot executions
  Size,         \* size_bytes of each snapshot
  Limit,        \* StorageLimitBytes of the user's tier
  MaxSnapshots, \* MaxSnapshots of the user's tier
  Total(_),     \* SQL SUM over a set of snapshots
  HookConfigured, \* is an Enterprise UsageReservationHook wired in?
  Failing,      \* calls that may report an error without taking effect
  Lost,         \* calls that may take effect and still report an error
  Crashes       \* may a server process stop between two calls?

Calls == {"tryAdd", "create", "put", "hardDelete", "prune", "removeUsage",
          "blobDelete", "settle", "softDelete"}

ASSUME ConstantsAssumption ==
  /\ IsFiniteSet(Snapshots) /\ IsFiniteSet(Requests)
  /\ Size \in [Snapshots -> Nat \ {0}]
  /\ Limit \in Nat
  /\ MaxSnapshots \in Nat \ {0}
  /\ Failing \subseteq Calls
  /\ Lost \subseteq Calls
  /\ {HookConfigured, Crashes} \subseteq BOOLEAN

ASSUME TotalAssumption ==
  /\ \A s \in Snapshots : Total({s}) = Size[s]
  /\ \A S, T \in SUBSET Snapshots :
       /\ Total(S) \in Nat
       /\ S \cap T = {} => Total(S \cup T) = Total(S) + Total(T)

VARIABLES
  rows,    \* rows of the snapshots table
  later,   \* created_at: pairs of rows, the second created after the first
  deleted, \* rows with deleted_at set
  expired, \* rows whose deleted_at is past the grace period
  blob,    \* snapshots present in the blob store
  usage,   \* storage_usage.total_bytes
  up,      \* the upload requests: program counter, snapshot, guard, counts
  purging, \* retention run: the row whose blob was just deleted
  acked,   \* history: uploads answered 201
  marks    \* history: what this behaviour has met, a subset of Marks

table == <<rows, later>>
vars == <<table, deleted, expired, blob, usage, up, purging, acked, marks>>

Idle == [pc |-> "idle"]
UploadPC == {"quota", "create", "put", "undoRow", "undoUsage", "prune",
             "undoPruneRow", "undoPruneBlob", "release", "settle",
             "undoSettleRow", "undoSettleBlob"}

\* "hook": an upload was accounted by the Enterprise hook; "overlap": an upload
\* began while another was under way; "undone": an upload was taken back after
\* its pruning; "fault": a process stopped, a reply was lost or a roll-back failed.
Marks == {"hook", "overlap", "undone", "fault"}
Mark(M) == marks' = marks \cup M

LiveRows == rows \ deleted

Uploads ==
  [pc : UploadPC, snap : Snapshots, guard : BOOLEAN, count : Nat, pruned : SUBSET Snapshots]

TypeOK ==
  /\ rows \subseteq Snapshots /\ later \subseteq rows \X rows
  /\ expired \subseteq deleted /\ deleted \subseteq rows
  /\ blob \subseteq Snapshots
  /\ usage \in Nat
  /\ up \in [Requests -> {Idle} \cup Uploads]
  /\ purging \subseteq Snapshots
  /\ acked \subseteq Snapshots
  /\ marks \subseteq Marks

Init ==
  /\ rows = {} /\ later = {}
  /\ deleted = {} /\ expired = {} /\ blob = {}
  /\ usage = 0
  /\ up = [r \in Requests |-> Idle]
  /\ purging = {}
  /\ acked = {}
  /\ marks = {}

-----------------------------------------------------------------------------
(***************************************************************************)
(* The repository's statements                                             *)
(***************************************************************************)
CountByUser == Cardinality(LiveRows)

Create(s) ==
  /\ s \notin rows
  /\ rows' = rows \cup {s}
  /\ later' = later \cup (rows \X {s})

SoftDelete(s) == s \in LiveRows /\ deleted' = deleted \cup {s}

HardDelete(s) ==
  /\ rows' = rows \ {s}
  /\ later' = {p \in later : p[1] # s /\ p[2] # s}
  /\ deleted' = deleted \ {s}
  /\ expired' = expired \ {s}

\* Mutant: ORDER BY created_at ASC.
Oldest(keep) == {s \in LiveRows : Cardinality({t \in LiveRows : <<t, s>> \in later}) < keep}

NewerThan(s) == {t \in LiveRows : <<s, t>> \in later}

\* ORDER BY created_at DESC LIMIT keep
Newest(keep) == {s \in LiveRows : Cardinality(NewerThan(s)) < keep}

\* Mutant: one snapshot fewer is kept.
PruneOneMore(keep) == LiveRows \ Newest(keep - 1)

PruneOldest(keep) == LiveRows \ Newest(keep)

TryAddSnapshotUsage(size) == usage + size <= Limit /\ usage' = usage + size

RemoveSnapshotUsage(size) ==
  usage' = IF usage >= size THEN usage - size ELSE 0

GetLatest == Newest(1)

DownloadSnapshot(s) == s \in LiveRows /\ s \in blob

-----------------------------------------------------------------------------
(***************************************************************************)
(* UploadSnapshot                                                          *)
(***************************************************************************)
Snap(r) == up[r].snap
At(r, pc) == up[r].pc = pc
Goto(r, pc) == up' = [up EXCEPT ![r].pc = pc]

\* The deferred ReleaseStorage answers nothing, and what the hook still holds is
\* outside this server's state.
Return(r) == up' = [up EXCEPT ![r] = Idle]

\* Does r hold the row it created?
Holds(r) ==
  up[r].pc \in {"put", "undoRow", "prune", "undoPruneRow", "release", "settle",
                "undoSettleRow", "undoSettleBlob"}

\* Is an upload under way already?
Overlapping == \E r \in Requests : ~At(r, "idle")

\* reserve(), and the count of live snapshots, read long before the pruning
\* that it decides.  An upload without a reservation takes the quota path; one
\* that is refused here has released what it reserved and changed nothing.
BeginUpload(r, s) ==
  /\ At(r, "idle")
  /\ \E active \in (IF HookConfigured THEN BOOLEAN ELSE {FALSE}) :
       /\ up' = [up EXCEPT ![r] = [pc |-> IF active THEN "create" ELSE "quota",
                                   snap |-> s, guard |-> active,
                                   count |-> CountByUser, pruned |-> {}]]
       /\ Mark((IF active THEN {"hook"} ELSE {}) \cup (IF Overlapping THEN {"overlap"} ELSE {}))
  /\ UNCHANGED <<table, deleted, expired, blob, usage, purging, acked>>

ReserveQuota(r) ==
  /\ At(r, "quota")
  /\ \/ TryAddSnapshotUsage(Size[Snap(r)]) /\ Goto(r, "create")
     \/ /\ usage + Size[Snap(r)] > Limit \/ "tryAdd" \in Failing
        /\ Return(r) /\ UNCHANGED usage
     \/ "tryAdd" \in Lost /\ TryAddSnapshotUsage(Size[Snap(r)]) /\ Return(r)
  /\ UNCHANGED <<table, deleted, expired, blob, purging, acked, marks>>

AfterRollback(r) == IF up[r].guard THEN Return(r) ELSE Goto(r, "undoUsage")

CreateRow(r) ==
  /\ At(r, "create")
  /\ \/ Create(Snap(r)) /\ Goto(r, "put") /\ UNCHANGED marks
     \/ /\ \/ /\ Snap(r) \in rows \/ "create" \in Failing
              /\ UNCHANGED <<table, marks>>
           \/ "create" \in Lost /\ Create(Snap(r)) /\ Mark({"fault"})
        /\ AfterRollback(r)
  /\ UNCHANGED <<deleted, expired, blob, usage, purging, acked>>

\* Mutant: off by one.
TooMany(r) == up[r].count > MaxSnapshots

NeedsPruning(r) == up[r].count >= MaxSnapshots

PutBlob(r) ==
  /\ At(r, "put")
  /\ \/ /\ blob' = blob \cup {Snap(r)}
        /\ Goto(r, IF NeedsPruning(r) THEN "prune" ELSE "settle")
     \/ /\ \/ "put" \in Failing /\ UNCHANGED blob
           \/ "put" \in Lost /\ blob' = blob \cup {Snap(r)}
        /\ Goto(r, "undoRow")
  /\ UNCHANGED <<table, deleted, expired, usage, purging, acked, marks>>

\* The row is removed after a failed Put, or after a failed prune together
\* with the blob that had been stored.
UndoRow(r) ==
  /\ At(r, "undoRow") \/ At(r, "undoPruneRow")
  /\ \/ HardDelete(Snap(r)) /\ UNCHANGED marks
     \/ /\ "hardDelete" \in Failing
        /\ Mark({"fault"})
        /\ UNCHANGED <<table, deleted, expired>>
  /\ IF At(r, "undoRow") THEN AfterRollback(r) ELSE Goto(r, "undoPruneBlob")
  /\ UNCHANGED <<blob, usage, purging, acked>>

UndoPruneBlob(r) ==
  /\ At(r, "undoPruneBlob")
  /\ blob' = blob \ {Snap(r)} \/ ("blobDelete" \in Failing /\ UNCHANGED blob)
  /\ AfterRollback(r)
  /\ UNCHANGED <<table, deleted, expired, usage, purging, acked, marks>>

UndoUsage(r) ==
  /\ At(r, "undoUsage")
  /\ \/ RemoveSnapshotUsage(Size[Snap(r)])
     \/ "removeUsage" \in Failing /\ UNCHANGED usage
  /\ Return(r)
  /\ UNCHANGED <<table, deleted, expired, blob, purging, acked, marks>>

Prune(r) ==
  /\ At(r, "prune")
  /\ LET pruned == PruneOldest(MaxSnapshots)
     IN  \/ /\ deleted' = deleted \cup pruned
            /\ up' = [up EXCEPT ![r].pc = "release", ![r].pruned = pruned]
            /\ UNCHANGED marks
         \/ /\ "prune" \in Failing
            /\ Goto(r, "undoPruneRow")
            /\ UNCHANGED <<deleted, marks>>
         \/ /\ "prune" \in Lost
            /\ deleted' = deleted \cup pruned
            /\ Goto(r, "undoPruneRow")
            /\ Mark({"undone", "fault"})
  /\ UNCHANGED <<table, expired, blob, usage, purging, acked>>

\* Give back the bytes of each pruned snapshot; an error ends the request.
ReleasePruned(r) ==
  /\ At(r, "release")
  /\ \/ up[r].pruned = {} /\ Goto(r, "settle") /\ UNCHANGED usage
     \/ \E s \in up[r].pruned :
          /\ RemoveSnapshotUsage(Size[s])
          /\ up' = [up EXCEPT ![r].pruned = @ \ {s}]
     \/ /\ up[r].pruned # {} /\ "removeUsage" \in Failing
        /\ Return(r) /\ UNCHANGED usage
  /\ UNCHANGED <<table, deleted, expired, blob, purging, acked, marks>>

\* Settle the reservation, if there is one, and answer 201.
Settle(r) ==
  /\ At(r, "settle")
  /\ \/ Return(r) /\ acked' = acked \cup {Snap(r)} /\ UNCHANGED marks
     \/ /\ up[r].guard /\ "settle" \in Failing
        /\ Goto(r, "undoSettleRow")
        /\ Mark({"undone"})
        /\ UNCHANGED acked
  /\ UNCHANGED <<table, deleted, expired, blob, usage, purging>>

UndoSettleRow(r) ==
  /\ At(r, "undoSettleRow")
  /\ \/ SoftDelete(Snap(r)) /\ UNCHANGED marks
     \/ Snap(r) \notin LiveRows /\ UNCHANGED <<deleted, marks>>
     \/ "softDelete" \in Failing /\ Mark({"fault"}) /\ UNCHANGED deleted
  /\ Goto(r, "undoSettleBlob")
  /\ UNCHANGED <<table, expired, blob, usage, purging, acked>>

UndoSettleBlob(r) ==
  /\ At(r, "undoSettleBlob")
  /\ blob' = blob \ {Snap(r)} \/ ("blobDelete" \in Failing /\ UNCHANGED blob)
  /\ Return(r)
  /\ UNCHANGED <<table, deleted, expired, usage, purging, acked, marks>>

CrashUpload(r) ==
  /\ Crashes /\ ~At(r, "idle")
  /\ up' = [up EXCEPT ![r] = Idle]
  /\ \/ UNCHANGED blob
     \/ At(r, "put") /\ blob' = blob \cup {Snap(r)}
  /\ Mark({"fault"})
  /\ UNCHANGED <<table, deleted, expired, usage, purging, acked>>

-----------------------------------------------------------------------------
(***************************************************************************)
(* purgeExpiredSnapshots, on one listed row after the other                *)
(***************************************************************************)
Expire(s) ==
  /\ s \in deleted \ expired
  /\ ~\E r \in Requests : Holds(r) /\ Snap(r) = s
  /\ expired' = expired \cup {s}
  /\ UNCHANGED <<table, deleted, blob, usage, up, purging, acked, marks>>

\* A blob delete that reports an error skips the row until a later run.
PurgeBlob(s) ==
  /\ s \in expired /\ purging = {}
  /\ blob' = blob \ {s}
  /\ purging' = {s} \/ ("blobDelete" \in Lost /\ UNCHANGED purging)
  /\ UNCHANGED <<table, deleted, expired, usage, up, acked, marks>>

\* Mutant: the bytes, given back when the row was pruned, are given back again.
PurgeRowAndUsage(s) ==
  /\ purging = {s}
  /\ HardDelete(s)
  /\ purging' = {}
  /\ RemoveSnapshotUsage(Size[s])
  /\ UNCHANGED <<blob, up, acked, marks>>

PurgeRow(s) ==
  /\ purging = {s}
  /\ \/ HardDelete(s)
     \/ "hardDelete" \in Failing /\ UNCHANGED <<table, deleted, expired>>
  /\ purging' = {}
  /\ UNCHANGED <<blob, usage, up, acked, marks>>

CrashPurge ==
  /\ Crashes /\ purging # {}
  /\ purging' = {}
  /\ UNCHANGED <<table, deleted, expired, blob, usage, up, acked, marks>>

-----------------------------------------------------------------------------
UploadStep(r) ==
  \/ ReserveQuota(r) \/ CreateRow(r) \/ PutBlob(r) \/ UndoRow(r)
  \/ UndoPruneBlob(r) \/ UndoUsage(r) \/ Prune(r) \/ ReleasePruned(r)
  \/ Settle(r) \/ UndoSettleRow(r) \/ UndoSettleBlob(r)

Next ==
  \/ \E r \in Requests, s \in Snapshots : BeginUpload(r, s)
  \/ \E r \in Requests : UploadStep(r) \/ CrashUpload(r)
  \/ \E s \in Snapshots : Expire(s) \/ PurgeBlob(s) \/ PurgeRow(s)
  \/ CrashPurge

Spec == Init /\ [][Next]_vars

-----------------------------------------------------------------------------
(***************************************************************************)
(* Properties                                                              *)
(***************************************************************************)
RestorePoints == {s \in Snapshots : DownloadSnapshot(s)}

\* What the comment in UploadSnapshot promises: "a failed upload never reduces the
\* user's restore points".  As many snapshots can be restored as were acknowledged,
\* up to the tier's number.
FailedUploadsCostNothing ==
  \/ Cardinality(RestorePoints) >= MaxSnapshots
  \/ Cardinality(RestorePoints) >= Cardinality(acked)

\* What is true of it, for uploads one after the other, none stopped and no
\* roll-back failed.  A settlement that fails after the pruning does reduce the
\* restore points: the new snapshot is taken back and the one pruned for it stays
\* pruned.  However often that happens, it costs one restore point.
RestorePointsKept ==
  marks \cap {"fault", "overlap"} = {} =>
    LET points == Cardinality(RestorePoints) + (IF "undone" \in marks THEN 1 ELSE 0)
    IN  points >= MaxSnapshots \/ points >= Cardinality(acked)

\* Weaker, but through crashes, lost replies and failed roll-backs too: a user
\* who was ever told that a snapshot is stored can restore one.  The exception
\* is a pruning that was committed and reported an error, or a settlement that
\* fails after it: the new snapshot is taken back, the old ones stay pruned.
SomeRestorePoint ==
  acked # {} /\ marks \cap {"undone", "overlap"} = {} => RestorePoints # {}

\* When no upload is under way the user keeps no more than MaxSnapshots live
\* snapshots.  The pruning is decided from a count read at the start of the upload:
\* uploads that overlapped may all have counted one too few, and the user then keeps
\* one snapshot too many for each but the first of those that can overlap, until an
\* upload prunes.  A fault can leave more.
SnapshotLimit ==
  (\A r \in Requests : At(r, "idle")) /\ "fault" \notin marks
    => CountByUser <= MaxSnapshots
                      + (IF "overlap" \in marks THEN Cardinality(Requests) - 1 ELSE 0)

\* Bytes usage must still cover: live rows, uploads that hold a reservation
\* but no row, and pruned snapshots whose bytes are not given back yet.  Uploads
\* that the Enterprise hook accounts for do not count towards usage, and of two
\* overlapping uploads one may prune the other's row and both give its bytes back.
Reserving == {r \in Requests : up[r].pc \in {"create", "undoUsage", "undoPruneBlob"}}
Pruning == {r \in Requests : At(r, "release")}

UsageCoversStored ==
  marks \cap {"hook", "overlap", "fault"} = {} =>
    Total(LiveRows) + Total({Snap(r) : r \in Reserving})
      + Total(UNION {up[r].pruned : r \in Pruning}) <= usage

=============================================================================
