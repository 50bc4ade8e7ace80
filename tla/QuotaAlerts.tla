---------------------------- MODULE QuotaAlerts ----------------------------
(***************************************************************************)
(* What a user is told about the storage quota: the read-through cache of  *)
(* the usage in Redis and the notifications of a crossed threshold.  The   *)
(* counter in PostgreSQL is written by statements of its own; each write   *)
(* but the periodic one is followed by a Del of the cached entry, and a    *)
(* notification compares usages read through the cache.  BundleStore and   *)
(* SnapshotStore have the uploads and deletes in full; here they are their *)
(* effect on the usage.                                                    *)
(***************************************************************************)
EXTENDS Integers, FiniteSets

CONSTANTS
  Callers,            \* requests at a time
  StorageLimit,       \* storageLimitBytes
  WarningThreshold,   \* quota_warning_threshold, percent
  ExhaustedThreshold, \* quota_exhausted_threshold, percent
  Sizes               \* sizes of bundles and snapshots

None == -1
Usages == 0..StorageLimit

VARIABLES
  usage,    \* total_bytes of storage_usage
  stored,   \* bytes of the live rows
  cache,    \* the cached usage, or None
  call,     \* each caller's request
  told,     \* history: what the last notification but a warning said
  untold    \* history: has something happened that may cost a notification?

quotaVars == <<usage, stored, cache, call, told, untold>>

NoCall == [pc |-> "none"]
Writers == {"upload", "delete", "recalculate"}

QuotaTypeOK ==
  /\ usage \in Usages /\ stored \in Usages
  /\ cache \in Usages \cup {None}
  /\ \A c \in Callers : call[c] = NoCall \/
       call[c] \in [pc : {"get", "select", "fill", "reserve", "row", "release", "del", "use"},
                    op : Writers \cup {"read"}, size : 0..StorageLimit,
                    before : Usages \cup {None}, value : Usages \cup {None},
                    stage : {"before", "after", "undo", "prune", "end"}]
  /\ told \in {"nothing", "exhausted", "restored"}
  /\ untold \in BOOLEAN

QuotaInit ==
  /\ usage = 0 /\ stored = 0 /\ cache = None
  /\ call = [c \in Callers |-> NoCall]
  /\ told = "nothing" /\ untold = FALSE

-----------------------------------------------------------------------------
\* usagePercent, with the integer division of the code.
Percent(bytes) ==
  LET p == (bytes * 100) \div StorageLimit
  IN  IF p > 100 THEN 100 ELSE p

Exhausted(bytes) == Percent(bytes) >= ExhaustedThreshold

quotaIncreaseEvent(before, after) ==
  IF ~Exhausted(before) /\ Exhausted(after) THEN "exhausted"
  ELSE IF Percent(before) < WarningThreshold /\ Percent(after) >= WarningThreshold
            /\ ~Exhausted(after) THEN "warning"
  ELSE "none"

quotaRestored(before, after) == Exhausted(before) /\ ~Exhausted(after)

-----------------------------------------------------------------------------
Busy(c) == call[c] # NoCall
At(c, pc) == Busy(c) /\ call[c].pc = pc
Writes(c) == Busy(c) /\ call[c].op \in Writers
Set(c, r) == call' = [call EXCEPT ![c] = r]
Goto(c, pc) == Set(c, [call[c] EXCEPT !.pc = pc])
Return(c) == Set(c, NoCall)

Minus(a, b) == IF a > b THEN a - b ELSE 0

\* Writers that overlap see each other's bytes in the usage after.
Begin(c, r) ==
  /\ ~Busy(c)
  /\ Set(c, r)
  /\ untold' = (untold \/ (r.op \in Writers /\ \E d \in Callers : Writes(d)))
  /\ UNCHANGED <<usage, cache, told>>

Request(op, pc, size, stage) ==
  [pc |-> pc, op |-> op, size |-> size, before |-> None, value |-> None, stage |-> stage]

GetQuota(c) == Begin(c, Request("read", "get", 0, "end")) /\ UNCHANGED stored

Upload(c, size) == Begin(c, Request("upload", "reserve", size, "after")) /\ UNCHANGED stored

\* The row is soft-deleted before its bytes are given back.
Delete(c, size) ==
  /\ size <= stored
  /\ Begin(c, Request("delete", "get", size, "before"))
  /\ stored' = stored - size

RecalculateUsage(c) ==
  Begin(c, Request("recalculate", "get", 0, "before")) /\ UNCHANGED stored

-----------------------------------------------------------------------------
(***************************************************************************)
(* QuotaRepo.GetUsage                                                      *)
(***************************************************************************)
\* A GET that fails is a miss.
GetCached(c) ==
  /\ At(c, "get")
  /\ \/ cache # None /\ Set(c, [call[c] EXCEPT !.pc = "use", !.value = cache])
     \/ Goto(c, "select")
  /\ UNCHANGED <<usage, stored, cache, told, untold>>

SelectUsage(c) ==
  /\ At(c, "select")
  /\ Set(c, [call[c] EXCEPT !.pc = "fill", !.value = usage])
  /\ UNCHANGED <<usage, stored, cache, told, untold>>

\* Without the usage nobody is told; a delete goes on, the others return.
SelectFails(c) ==
  /\ At(c, "select")
  /\ IF call[c].op = "delete" /\ call[c].stage = "before"
       THEN Goto(c, "release") ELSE Return(c)
  /\ untold' = (untold \/ Writes(c))
  /\ UNCHANGED <<usage, stored, cache, told>>

\* SET, which may fail, of a value that may be out of date by now.
CacheUsage(c) ==
  /\ At(c, "fill")
  /\ Goto(c, "use")
  /\ \/ cache' = call[c].value /\ untold' = (untold \/ call[c].value # usage)
     \/ UNCHANGED <<cache, untold>>
  /\ UNCHANGED <<usage, stored, told>>

CacheExpires ==
  /\ cache # None
  /\ cache' = None
  /\ UNCHANGED <<usage, stored, call, told, untold>>

-----------------------------------------------------------------------------
(***************************************************************************)
(* Writes of the counter, each followed by invalidateUsageCache            *)
(***************************************************************************)
TryAddUsage(c) ==
  /\ At(c, "reserve")
  /\ IF usage + call[c].size <= StorageLimit
       THEN usage' = usage + call[c].size /\ Goto(c, "del")
       ELSE UNCHANGED usage /\ Return(c)
  /\ UNCHANGED <<stored, cache, told, untold>>

\* A row that cannot be inserted, a blob that cannot be put: the bytes are given back
\* by the repository, with no word to the user.
Store(c) ==
  /\ At(c, "row")
  /\ \/ /\ stored + call[c].size \in Usages
        /\ stored' = stored + call[c].size
        /\ \E stage \in {"end", "prune"} :
             Set(c, [call[c] EXCEPT !.stage = stage,
                                    !.pc = IF stage = "prune" THEN "release" ELSE "get"])
     \/ /\ UNCHANGED stored
        /\ Set(c, [call[c] EXCEPT !.pc = "release", !.stage = "undo"])
  /\ UNCHANGED <<usage, cache, told, untold>>

\* RemoveUsage of a roll-back or a delete.
RemoveUsage(c) ==
  /\ At(c, "release")
  /\ call[c].stage # "prune" /\ call[c].op # "recalculate"
  /\ usage' = Minus(usage, call[c].size)
  /\ Goto(c, "del")
  /\ UNCHANGED <<stored, cache, told, untold>>

\* A snapshot upload prunes: the bytes of an old one go, also with no word.
PruneUsage(c, size) ==
  /\ At(c, "release") /\ call[c].stage = "prune"
  /\ size <= stored
  /\ stored' = stored - size
  /\ usage' = Minus(usage, size)
  /\ Goto(c, "del")
  /\ untold' = (untold \/ (told = "exhausted" /\ ~Exhausted(usage')))
  /\ UNCHANGED <<cache, told>>

\* The statement of RecalculateUsage; nobody is told of a correction.
WriteRecalculated(c) ==
  /\ At(c, "release") /\ call[c].op = "recalculate"
  /\ usage' = stored
  /\ Goto(c, "del")
  /\ untold' = (untold \/ (told = "exhausted") # Exhausted(usage'))
  /\ UNCHANGED <<stored, cache, told>>

\* The periodic correction of every user's counter: one statement, no Del of the cached
\* entries and no word to anybody.
RecalculateAllUsage ==
  /\ usage' = stored
  /\ untold' = (untold \/ usage' # usage)
  /\ UNCHANGED <<stored, cache, call, told>>

\* A statement that reports an error, done or not: the request ends without a Del.
Written(c) ==
  CASE At(c, "reserve") -> {usage + call[c].size} \cap Usages
    [] At(c, "release") /\ call[c].op = "recalculate" -> {stored}
    [] At(c, "release") /\ call[c].stage = "prune" -> {Minus(usage, size) : size \in Sizes}
    [] At(c, "release") -> {Minus(usage, call[c].size)}
    [] OTHER -> {}

WriteFails(c) ==
  /\ At(c, "reserve") \/ At(c, "release")
  /\ usage' \in Written(c) \cup {usage}
  /\ Return(c)
  /\ untold' = TRUE
  /\ UNCHANGED <<stored, cache, told>>

\* What a request does after its Del.
AfterDel(r) ==
  CASE r.op = "upload" /\ r.stage = "after" -> [r EXCEPT !.pc = "row"]
    [] r.op = "upload" /\ r.stage = "prune" -> [r EXCEPT !.pc = "get", !.stage = "end"]
    [] r.op = "delete" /\ r.before # None -> [r EXCEPT !.pc = "get", !.stage = "end"]
    [] OTHER -> NoCall

\* Mutant: only uploads invalidate the cached entry.
UploadsInvalidate(c) ==
  /\ At(c, "del")
  /\ cache' = IF call[c].op = "upload" THEN None ELSE cache
  /\ Set(c, AfterDel(call[c]))
  /\ UNCHANGED <<usage, stored, told, untold>>

InvalidateUsageCache(c) ==
  /\ At(c, "del")
  /\ cache' = None
  /\ Set(c, AfterDel(call[c]))
  /\ UNCHANGED <<usage, stored, told, untold>>

\* The Del fails, silently.
InvalidateFails(c) ==
  /\ At(c, "del")
  /\ cache # None
  /\ Set(c, AfterDel(call[c]))
  /\ untold' = TRUE
  /\ UNCHANGED <<usage, stored, cache, told>>

-----------------------------------------------------------------------------
Tell(event) ==
  told' = IF event \in {"exhausted", "restored"} THEN event ELSE told

\* The usage has been read: shown, kept as the usage before, or compared.
UseUsage(c) ==
  /\ At(c, "use")
  /\ LET r == call[c]
     IN  IF r.stage = "before"
           THEN /\ Set(c, [r EXCEPT !.pc = "release", !.before = r.value, !.value = None])
                /\ UNCHANGED told
           ELSE /\ Return(c)
                /\ CASE r.op = "upload" ->
                          Tell(quotaIncreaseEvent(Minus(r.value, r.size), r.value))
                     [] r.op = "delete" ->
                          Tell(IF quotaRestored(r.before, r.value) THEN "restored" ELSE "none")
                     [] OTHER -> UNCHANGED told
  /\ UNCHANGED <<usage, stored, cache, untold>>

\* The process dies, or its request is cancelled.
Crash(c) ==
  /\ Busy(c)
  /\ Return(c)
  /\ untold' = (untold \/ Writes(c))
  /\ UNCHANGED <<usage, stored, cache, told>>

QuotaNext ==
  \/ \E c \in Callers :
       \/ GetQuota(c) \/ RecalculateUsage(c)
       \/ \E size \in Sizes : Upload(c, size) \/ Delete(c, size) \/ PruneUsage(c, size)
       \/ GetCached(c) \/ SelectUsage(c) \/ SelectFails(c) \/ CacheUsage(c)
       \/ TryAddUsage(c) \/ Store(c) \/ RemoveUsage(c) \/ WriteRecalculated(c) \/ WriteFails(c)
       \/ InvalidateUsageCache(c) \/ InvalidateFails(c) \/ UseUsage(c) \/ Crash(c)
  \/ CacheExpires \/ RecalculateAllUsage

QuotaSpec == QuotaInit /\ [][QuotaNext]_quotaVars

-----------------------------------------------------------------------------
\* A user is told.  When no write is under way, the last notification says
\* "exhausted" exactly while the usage is at or above the threshold, whatever reads
\* the cache served in between and however often entries expired.  Only these cost a
\* notification: writes that overlap, a read that fills the cache with a value a
\* write has overtaken, a statement or a Del that fails, a crash, a usage that falls
\* or is corrected by pruning or by a recalculation, and a periodic recalculation
\* that moves the counter under a write.
UserIsTold ==
  ~untold /\ (\A c \in Callers : ~Writes(c)) =>
    /\ (told = "exhausted") = Exhausted(usage)
    /\ cache \in {None, usage}

=============================================================================
