----------------------------- MODULE OpsChecks -----------------------------
(***************************************************************************)
(* The operators' checks: the dependency check with its storage probe, the *)
(* consistency check of rows against objects, and the restore rehearsal,   *)
(* which takes a manifest and verifies a restored deployment against it.   *)
(* A check is a sequence of calls while clients upload and delete, the     *)
(* purge runs, and objects get lost.  It never changes a row or a blob.    *)
(* Of the uploads, deletes and the purge only what a check can see is      *)
(* here; BundleStore and SnapshotStore have the rest.                      *)
(***************************************************************************)
EXTENDS Integers, FiniteSets

CONSTANTS
  Bundles, Snapshots, \* items, by the table and the prefix they live under
  DefaultLimit,       \* DefaultOpsConsistencyLimit, DefaultOpsRestoreLimit (1000)
  Limits,             \* limits an operator asks for, in the range the code accepts
  MaxFindings,        \* maxOpsRestoreFindings (50)
  MaxMoves            \* bound: what others do while one check runs

Items == Bundles \cup Snapshots
Kinds == <<"bundle", "snapshot">>
OfKind(k) == IF k = "bundle" THEN Bundles ELSE Snapshots

VARIABLES
  rows,     \* live rows of both tables
  later,    \* created_at: pairs of rows, the second created after the first
  pending,  \* rows that are soft-deleted and not purged yet
  blob,     \* objects: none, or of the right or of a wrong size
  probe,    \* is there an object of this check under ops/probes/?
  manifest, \* the restore manifest an operator keeps
  exam,     \* the check that runs
  faults,   \* history: what has been wrong ever since the check began
  report    \* the report just given

opsVars == <<rows, later, pending, blob, probe, manifest, exam, faults, report>>

Quiet == [pc |-> "idle"]
Ops == {"dependency", "consistency", "baseline", "verify"}
Statuses == {"ok", "degraded", "unhealthy"}
NoManifest == [taken |-> FALSE, objects |-> {}, truncated |-> FALSE]

OpsTypeOK ==
  /\ rows \subseteq Items /\ later \subseteq rows \X rows
  /\ pending \subseteq Items \ rows
  /\ blob \in [Items -> {"none", "right", "wrong"}]
  /\ probe \in BOOLEAN
  /\ manifest \in [taken : BOOLEAN, objects : SUBSET Items, truncated : BOOLEAN]
  /\ exam \in {Quiet} \cup
       [pc : {"count", "list", "objects", "size", "compare", "orphans", "ping",
              "storage", "put", "stat", "read", "remove", "report"},
        op : Ops, limit : 1..DefaultLimit, kind : 1..2, total : Nat,
        todo : SUBSET Items, listed : SUBSET Items, truncated : BOOLEAN, few : BOOLEAN,
        found : SUBSET {"issue", "orphan", "failed"}, status : Statuses,
        crowded : BOOLEAN, moves : 0..MaxMoves]
  /\ faults \subseteq {"object", "orphan", "row"} \X Items
  /\ report.status \in {"none"} \cup Statuses

NoReport == [status |-> "none", missed |-> {}, crowded |-> FALSE]

OpsInit ==
  /\ rows = {} /\ later = {} /\ pending = {}
  /\ blob = [i \in Items |-> "none"]
  /\ probe = FALSE
  /\ manifest = NoManifest
  /\ exam = Quiet
  /\ faults = {}
  /\ report = NoReport

-----------------------------------------------------------------------------
(***************************************************************************)
(* What is wrong with the store, from where each check stands              *)
(***************************************************************************)
FaultsFor(op) ==
  LET expected == IF op = "verify" THEN manifest.objects ELSE rows
      object == {"object"} \X {i \in expected : blob[i] # "right"}
      orphan == {"orphan"} \X {i \in Items \ expected :
                   blob[i] # "none" /\ ~(op = "verify" /\ manifest.truncated)}
      row == {"row"} \X {i \in Items : (i \in rows) # (i \in expected)}
  IN  CASE op = "dependency" -> {}
        [] op = "consistency" -> object
        [] OTHER -> object \cup orphan \cup row

\* A step of somebody else: only what is wrong before and after it counts.
Meanwhile(e) ==
  /\ report' = NoReport
  /\ UNCHANGED <<probe, manifest>>
  /\ IF exam = Quiet THEN UNCHANGED <<exam, faults>>
     ELSE /\ exam.moves < MaxMoves
          /\ exam' = [e EXCEPT !.moves = @ + 1]
          /\ faults' = faults \cap FaultsFor(exam.op)'

\* Rows that come between CountAll and the listing make the count too small.
Crowded(i) ==
  IF exam # Quiet /\ exam.pc = "list" /\ i \in OfKind(Kinds[exam.kind])
    THEN [exam EXCEPT !.crowded = TRUE] ELSE exam

CreateRow(i) ==
  /\ i \notin rows \cup pending
  /\ rows' = rows \cup {i}
  /\ later' = later \cup (rows \X {i})
  /\ UNCHANGED <<pending, blob>>
  /\ Meanwhile(Crowded(i))

\* The Put of an upload, or an operator who puts an object back.
PutBlob(i) ==
  /\ i \in rows \cup pending
  /\ blob[i] # "right"
  /\ blob' = [blob EXCEPT ![i] = "right"]
  /\ UNCHANGED <<rows, later, pending>>
  /\ Meanwhile(exam)

\* A roll-back removes the row; a soft delete keeps it for the purge.
RemoveRow(i) ==
  /\ i \in rows
  /\ rows' = rows \ {i}
  /\ later' = {p \in later : p[1] # i /\ p[2] # i}
  /\ \/ UNCHANGED pending
     \/ pending' = pending \cup {i}
  /\ UNCHANGED blob
  /\ Meanwhile(exam)

PurgeItem(i) ==
  /\ i \in pending
  /\ pending' = pending \ {i}
  /\ blob' = [blob EXCEPT ![i] = "none"]
  /\ UNCHANGED <<rows, later>>
  /\ Meanwhile(exam)

\* The object store loses an object, or a backup puts back another version of it.
Damage(i) ==
  /\ blob[i] = "right"
  /\ \E b \in {"none", "wrong"} : blob' = [blob EXCEPT ![i] = b]
  /\ UNCHANGED <<rows, later, pending>>
  /\ Meanwhile(exam)

-----------------------------------------------------------------------------
(***************************************************************************)
(* Statuses                                                                *)
(***************************************************************************)
Rank == [ok |-> 0, degraded |-> 1, unhealthy |-> 2]

\* opsOverall, consistencyOverall and restoreOverall: the worst of the parts.
Worse(a, b) == IF Rank[b] > Rank[a] THEN b ELSE a

\* Mutant: a bounded sample counts like a complete one.
FinalizeSample(found, truncated, few) ==
  CASE found # {} -> "unhealthy"
    [] few -> "degraded"
    [] OTHER -> "ok"

\* finalizeConsistencyArtifact: what was found in the sample, then whether the
\* sample was complete, then whether the objects are at least as many as the rows.
FinalizeArtifact(found, truncated, few) ==
  CASE found # {} -> "unhealthy"
    [] truncated \/ few -> "degraded"
    [] OTHER -> "ok"

RestoreOverall(found) ==
  IF found \cap {"issue", "failed"} # {} THEN "unhealthy"
  ELSE IF "orphan" \in found THEN "degraded" ELSE "ok"

-----------------------------------------------------------------------------
untouched == <<rows, later, pending, blob, manifest, faults, report>>
During(pc) == exam # Quiet /\ exam.pc = pc
To(e) == exam' = e /\ UNCHANGED <<untouched, probe>>
Kind == Kinds[exam.kind]

\* The next kind, or what follows the last one.
AfterKind(e) ==
  IF e.kind = 1
    THEN [e EXCEPT !.kind = 2, !.pc = "count", !.few = FALSE, !.total = 0,
                   !.truncated = @ /\ e.op # "consistency",
                   !.found = IF e.op = "consistency" THEN {} ELSE @]
    ELSE [e EXCEPT !.kind = 1, !.few = FALSE, !.total = 0,
                   !.pc = CASE e.op = "consistency" -> "report"
                            [] e.op = "baseline" -> "orphans"
                            [] e.op = "verify" -> "compare"]

\* A consistency check closes one kind after the other; the findings of a rehearsal
\* are summed up at its end.
CloseKind(e) ==
  AfterKind([e EXCEPT !.status = Worse(@,
    IF e.op = "consistency" THEN FinalizeArtifact(e.found, e.truncated, e.few)
    ELSE IF e.truncated THEN "degraded" ELSE "ok")])

\* A table or a listing that cannot be read.
KindFails(e) == AfterKind([e EXCEPT !.status = "unhealthy", !.todo = {}])

\* A new baseline is to replace the manifest the operator has.
BeginCheck(op, limit) ==
  /\ exam = Quiet
  /\ op = "verify" => manifest.taken
  /\ LET wide == Cardinality(manifest.objects)
         bound == IF op = "verify" /\ wide > limit /\ wide <= DefaultLimit
                    THEN wide ELSE limit
     IN  exam' = [pc |-> IF op = "dependency" THEN "ping" ELSE "count", op |-> op,
                  limit |-> bound, kind |-> 1, total |-> 0, todo |-> {}, listed |-> {},
                  truncated |-> FALSE, few |-> FALSE, found |-> {}, status |-> "ok",
                  crowded |-> FALSE, moves |-> 0]
  /\ faults' = FaultsFor(op)
  /\ report' = NoReport
  /\ manifest' = IF op = "baseline" THEN NoManifest ELSE manifest
  /\ UNCHANGED <<rows, later, pending, blob, probe>>

\* The rows of the kind.
Live == rows \cap OfKind(Kind)

\* CountAll, and SumSizeAll for the display.
CountAll ==
  /\ During("count")
  /\ \/ To([exam EXCEPT !.pc = "list", !.total = Cardinality(Live)])
     \/ To(KindFails(exam))

\* The newest rows of the kind, up to the limit.
Sample == {i \in Live : Cardinality({j \in Live : <<i, j>> \in later}) < exam.limit}

\* Whether there are more rows is decided by the count made before.
ListForOps ==
  /\ During("list")
  /\ \/ LET e == [exam EXCEPT !.truncated = @ \/ exam.total > Cardinality(Sample),
                              !.listed = @ \cup Sample,
                              !.todo = IF exam.op = "verify" THEN {} ELSE Sample]
        IN  To(CASE exam.op = "consistency" -> [e EXCEPT !.pc = "objects"]
                 [] exam.op = "baseline" -> [e EXCEPT !.pc = "size"]
                 [] exam.op = "verify" -> CloseKind(e))
     \/ To(KindFails(exam))

ListObjects ==
  /\ During("objects")
  /\ LET n == Cardinality({i \in OfKind(Kind) : blob[i] # "none"})
     IN  \/ To([exam EXCEPT !.pc = "size", !.truncated = @ \/ n >= DefaultLimit,
                            !.few = n < exam.total])
         \/ To(KindFails(exam))

\* The object of a row or of an entry of the manifest is not there, or has not its size.
Differs(i) == blob[i] # "right"

\* The next row or entry: its object is looked at, or the object store does not tell.
CheckObject(i) ==
  /\ During("size")
  /\ i \in exam.todo
  /\ LET e == [exam EXCEPT !.todo = @ \ {i}]
     IN  \/ To([e EXCEPT !.found = IF Differs(i) THEN @ \cup {"issue"} ELSE @])
         \/ To([e EXCEPT !.found = @ \cup {"failed"}])

\* The deadline passes in the loop of a consistency check: the rest is left out.
StopAtDeadline ==
  /\ During("size")
  /\ exam.op = "consistency" /\ exam.todo # {}
  /\ To([exam EXCEPT !.todo = {}, !.found = @ \cup {"failed"}])

AllChecked ==
  /\ During("size")
  /\ exam.todo = {}
  /\ To(IF exam.op = "verify" THEN [exam EXCEPT !.pc = "orphans"] ELSE CloseKind(exam))

-----------------------------------------------------------------------------
(***************************************************************************)
(* The rest of a restore rehearsal                                         *)
(***************************************************************************)
\* compareRestoreMetadata, unless there were more rows than could be listed.
CompareMetadata ==
  /\ During("compare")
  /\ To([exam EXCEPT !.pc = "size", !.todo = manifest.objects,
                     !.found = IF ~exam.truncated /\ exam.listed # manifest.objects
                                 THEN @ \cup {"issue"} ELSE @])

Expected == IF exam.op = "verify" THEN manifest.objects ELSE exam.listed

\* A truncated sample or manifest says nothing about orphans.
Incomplete == exam.truncated \/ (exam.op = "verify" /\ manifest.truncated)

Orphans == {i \in OfKind(Kind) \ Expected : blob[i] # "none"}

\* The list of findings is bounded: once the bundles have filled it nothing of the
\* snapshots is added.
HasRoom == exam.total < MaxFindings

\* findRestoreOrphans, prefix by prefix.
FindOrphans ==
  /\ During("orphans")
  /\ LET next(n) == [exam EXCEPT !.kind = IF @ = 1 THEN 2 ELSE 1,
                                 !.pc = IF exam.kind = 1 THEN @ ELSE "ping",
                                 !.total = IF exam.kind = 1 THEN n ELSE 0]
     IN  IF Incomplete THEN To([exam EXCEPT !.pc = "ping"])
         ELSE \/ To([next(Cardinality(Orphans)) EXCEPT !.found =
                       IF HasRoom /\ Orphans # {} THEN @ \cup {"orphan"} ELSE @])
              \/ To([next(1) EXCEPT !.found = IF HasRoom THEN @ \cup {"failed"} ELSE @])

-----------------------------------------------------------------------------
(***************************************************************************)
(* Dependencies                                                            *)
(***************************************************************************)
\* checkPostgres and checkRedis.  Redis is optional: without it its check is disabled,
\* which counts as ok, and it is never worse than degraded.
PingDependencies ==
  /\ During("ping")
  /\ \E postgres \in {"ok", "unhealthy"}, redis \in {"ok", "degraded"} :
       To([exam EXCEPT !.pc = IF exam.op = "dependency" THEN "storage" ELSE "report",
                       !.status = Worse(@, Worse(postgres, redis))])

\* Without a listing the probe is skipped, and both are required.
ListStorage ==
  /\ During("storage")
  /\ \/ To([exam EXCEPT !.pc = "put"])
     \/ To([exam EXCEPT !.pc = "report", !.status = "unhealthy"])

\* A Put that reports an error may have stored the object; nothing removes it then.
PutProbe ==
  /\ During("put")
  /\ \/ probe' = TRUE /\ exam' = [exam EXCEPT !.pc = "stat"]
     \/ /\ probe' \in BOOLEAN
        /\ exam' = [exam EXCEPT !.pc = "report", !.status = "unhealthy"]
  /\ UNCHANGED untouched

\* Size and Get with the comparison of what they return.  A failure is followed by a
\* Delete whose own failure is ignored.
ReadProbe(pc, next) ==
  /\ During(pc)
  /\ \/ exam' = [exam EXCEPT !.pc = next] /\ UNCHANGED probe
     \/ /\ probe' \in BOOLEAN
        /\ exam' = [exam EXCEPT !.pc = "report", !.status = "unhealthy"]
  /\ UNCHANGED untouched

DeleteProbe ==
  /\ During("remove")
  /\ \/ probe' = FALSE /\ exam' = [exam EXCEPT !.pc = "report"]
     \/ /\ probe' \in BOOLEAN
        /\ exam' = [exam EXCEPT !.pc = "report", !.status = Worse(@, "degraded")]
  /\ UNCHANGED untouched

-----------------------------------------------------------------------------
Verdict ==
  IF exam.op \in {"baseline", "verify"}
    THEN Worse(exam.status, RestoreOverall(exam.found)) ELSE exam.status

\* The report is given out and kept; storing it in the history and alerting are
\* best effort.  A manifest goes to the operator.
Report ==
  /\ During("report")
  /\ report' = [status |-> Verdict, crowded |-> exam.crowded,
                missed |-> IF exam.op = "dependency"
                             THEN IF probe THEN {"probe"} ELSE {} ELSE faults]
  /\ manifest' = IF exam.op = "baseline"
                   THEN [taken |-> TRUE, objects |-> exam.listed,
                         truncated |-> exam.truncated]
                   ELSE manifest
  /\ exam' = Quiet
  /\ faults' = {}
  /\ probe' = FALSE
  /\ UNCHANGED <<rows, later, pending, blob>>

OpsNext ==
  \/ \E i \in Items : CreateRow(i) \/ PutBlob(i) \/ RemoveRow(i) \/ PurgeItem(i) \/ Damage(i)
  \/ \E op \in Ops, limit \in Limits : BeginCheck(op, limit)
  \/ CountAll \/ ListForOps \/ ListObjects \/ (\E i \in Items : CheckObject(i))
  \/ StopAtDeadline \/ AllChecked \/ CompareMetadata \/ FindOrphans
  \/ PingDependencies \/ ListStorage
  \/ PutProbe \/ ReadProbe("stat", "read") \/ ReadProbe("read", "remove") \/ DeleteProbe
  \/ Report

OpsSpec == OpsInit /\ [][OpsNext]_opsVars

-----------------------------------------------------------------------------
\* A report of ok is true.  Nothing was wrong with the checked deployment all the
\* time from the beginning of the check to its end: no live row without its object,
\* no entry of the manifest without row and object, no orphan in a rehearsal with a
\* complete manifest, no probe object left behind.  The one gap is a row inserted
\* between the count and the listing, newest first: it takes the place of an old row
\* in the sample, and the count does not tell that there are more.
OkIsTrue == report.status = "ok" => report.missed = {} \/ report.crowded

=============================================================================
