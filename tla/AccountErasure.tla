--------------------------- MODULE AccountErasure ---------------------------
(***************************************************************************)
(* Account deletion and what follows it: DeleteAccount as the sequence of  *)
(* statements it is, the client requests it meets, and the retention task  *)
(* that purges expired rows and then runs the erasure jobs.                *)
(*                                                                         *)
(* Rows and blobs are seen here as far as erasure goes; their uploads,     *)
(* counters and single deletes are the subject of BundleStore and          *)
(* SnapshotStore.                                                          *)
(***************************************************************************)
EXTENDS Naturals, FiniteSets

CONSTANTS
  Accounts,  \* user ids
  Bundles,   \* bundle ids
  Snapshots, \* snapshot ids
  Requests,  \* concurrent client requests that write
  Workers,   \* instances running the retention-cleanup task
  NoOne,     \* no worker, or no account
  BatchSize, \* erasureJobBatchSize
  MaxFaults  \* bound: failing calls, lost replies, crashes and lost locks

Items == Bundles \cup Snapshots
Keys == Accounts \X Items

(***************************************************************************)
(* What else an account has: refresh tokens, devices, second factors (TOTP *)
(* state, backup codes, passkeys), preferences and quota rows.             *)
(***************************************************************************)
Records == {"session", "device", "factor", "profile"}

\* The order in which erasure deletes them.
Turn == [session |-> 1, device |-> 2, factor |-> 3, profile |-> 4]

ASSUME ConstantsAssumption ==
  /\ NoOne \notin Workers \cup Accounts
  /\ BatchSize \in Nat \ {0}
  /\ MaxFaults \in Nat
  /\ IsFiniteSet(Accounts)
  /\ Items \cap Records = {}

VARIABLES
  user,     \* users.status: active, deleted, and erased once anonymised
  rec,      \* the account's other records: active, revoked or gone
  row,      \* metadata rows: none, live, soft-deleted, deleted past the grace
  blob,     \* keys present in the blob store
  job,      \* account_erasure_jobs.status
  since,    \* the order of requested_at, and so of eligible_at
  eligible, \* jobs whose eligible_at has passed
  del,      \* the next statement of a running DeleteAccount
  req,      \* client requests that have passed their checks
  lock,     \* the holder of the task's advisory lock
  at,       \* where each worker is
  todo,     \* rows a worker has listed and not yet purged, with the delete that is next
  batch,    \* jobs a worker has listed and not yet tried
  cur,      \* the job it is running
  faults,   \* history: faults so far
  stray     \* history: blobs a roll-back or a purge lost track of

account == <<user, rec>>
data == <<row, blob, stray>>
jobs == <<job, since, eligible>>
runs == <<lock, at, todo, batch, cur>>
vars == <<account, data, jobs, del, req, runs, faults>>

Idle == [pc |-> "idle"]
Open == {"pending", "running", "failed"}

\* The statements of DeleteAccount after the job is created, in their order.
NextStatement ==
  [session |-> "device", device |-> "factor", factor |-> "bundles",
   bundles |-> "bundleUsage", bundleUsage |-> "snapshots",
   snapshots |-> "snapshotUsage", snapshotUsage |-> "summary",
   summary |-> "user", user |-> "idle"]

\* A request past its checks, about to insert its row or to store its blob.
Writes ==
  [pc : {"write"}, acct : Accounts, what : Items \cup {"device"}]
  \cup [pc : {"put"}, acct : Accounts, what : Items]

\* Where a worker that runs a job can be.
Serving == {"check", "wipe", "count", "anonymize", "complete", "fail"}

TypeOK ==
  /\ user \in [Accounts -> {"active", "deleted", "erased"}]
  /\ rec \in [Accounts -> [Records -> {"active", "revoked", "gone"}]]
  /\ row \in [Keys -> {"none", "live", "deleted", "expired"}]
  /\ blob \subseteq Keys
  /\ job \in [Accounts -> {"none", "completed"} \cup Open]
  /\ since \in [Accounts -> Nat]
  /\ eligible \subseteq Accounts
  /\ del \in [Accounts -> {"idle"} \cup DOMAIN NextStatement]
  /\ req \in [Requests -> {Idle} \cup Writes]
  /\ lock \in Workers \cup {NoOne}
  /\ at \in [Workers -> {"idle", "purge", "next"} \cup Serving]
  /\ todo \in [Workers -> SUBSET (Keys \X {"blob", "row"})]
  /\ batch \in [Workers -> SUBSET Accounts]
  /\ cur \in [Workers -> Accounts \cup {NoOne}]
  /\ faults \in 0..MaxFaults
  /\ stray \subseteq Keys

Init ==
  /\ user = [a \in Accounts |-> "active"]
  /\ rec = [a \in Accounts |-> [x \in Records |-> "active"]]
  /\ row = [k \in Keys |-> "none"]
  /\ blob = {} /\ stray = {}
  /\ job = [a \in Accounts |-> "none"]
  /\ since = [a \in Accounts |-> 0]
  /\ eligible = {}
  /\ del = [a \in Accounts |-> "idle"]
  /\ req = [r \in Requests |-> Idle]
  /\ lock = NoOne
  /\ at = [w \in Workers |-> "idle"]
  /\ todo = [w \in Workers |-> {}]
  /\ batch = [w \in Workers |-> {}]
  /\ cur = [w \in Workers |-> NoOne]
  /\ faults = 0

\* A call that reports an error, with or without effect, a process that stops,
\* or a session that drops.
Fault == faults < MaxFaults /\ faults' = faults + 1
NoFault == UNCHANGED faults

-----------------------------------------------------------------------------
(***************************************************************************)
(* DeleteAccount                                                           *)
(***************************************************************************)
Requested == {a \in Accounts : job[a] # "none"}

\* The user is found, the policy allows the deletion and the job is inserted;
\* a partial unique index admits one open job per user, so that every request
\* after the first ends here.
BeginDelete(a) ==
  /\ del[a] = "idle"
  /\ user[a] = "active"
  /\ job[a] \notin Open
  /\ job' = [job EXCEPT ![a] = "pending"]
  /\ since' = [since EXCEPT ![a] = Cardinality(Requested)]
  /\ \/ del' = [del EXCEPT ![a] = "session"] /\ NoFault
     \/ Fault /\ UNCHANGED del
  /\ UNCHANGED <<account, data, eligible, req, runs>>

SetRecord(a, x, s) == rec' = [rec EXCEPT ![a][x] = s]

SoftDeleteAllByUser(a, S) ==
  row' = [k \in Keys |-> IF k[1] = a /\ k[2] \in S /\ row[k] = "live"
                         THEN "deleted" ELSE row[k]]

\* What the next statement does.  The bytes given back and the summary of the job are
\* not looked at by the erasure: they are calls that may fail.
Statement(a) ==
  \/ /\ del[a] \in {"session", "device"}
     /\ SetRecord(a, del[a], "revoked")
     /\ UNCHANGED <<user, row>>
  \/ /\ del[a] = "factor"
     /\ SetRecord(a, "factor", "gone")
     /\ UNCHANGED <<user, row>>
  \/ /\ del[a] = "bundles"
     /\ SoftDeleteAllByUser(a, Bundles)
     /\ UNCHANGED account
  \/ /\ del[a] = "snapshots"
     /\ SoftDeleteAllByUser(a, Snapshots)
     /\ UNCHANGED account
  \/ /\ del[a] \in {"bundleUsage", "snapshotUsage", "summary"}
     /\ UNCHANGED <<account, row>>
  \/ /\ del[a] = "user"
     /\ user' = [user EXCEPT ![a] = "deleted"]
     /\ UNCHANGED <<rec, row>>

\* There are bytes to give back if a row was live.
Following(a) ==
  LET next == NextStatement[del[a]]
      Live(S) == \E i \in S : row[<<a, i>>] = "live"
  IN  IF \/ del[a] = "bundles" /\ ~Live(Bundles)
         \/ del[a] = "snapshots" /\ ~Live(Snapshots)
      THEN NextStatement[next] ELSE next

\* An error ends the request: what it has done stays done, the job stays open.
DeleteAccount(a) ==
  /\ del[a] # "idle"
  /\ \/ Statement(a) /\ del' = [del EXCEPT ![a] = Following(a)] /\ NoFault
     \/ /\ Statement(a) \/ UNCHANGED <<account, row>>
        /\ del' = [del EXCEPT ![a] = "idle"]
        /\ Fault
  /\ UNCHANGED <<blob, stray, jobs, req, runs>>

-----------------------------------------------------------------------------
(***************************************************************************)
(* Client requests: their checks, and later their writes                   *)
(***************************************************************************)
\* A device registration reads the user; an upload of a bundle reads its id, the
\* device and the user, one of a snapshot the user.  A login, which reads the
\* user and inserts a refresh token, is like a registration and left out.
BeginRequest(r, a, x) ==
  /\ req[r] = Idle
  /\ user[a] = "active"
  /\ x \in Bundles => row[<<a, x>>] = "none" /\ rec[a]["device"] = "active"
  /\ req' = [req EXCEPT ![r] = [pc |-> "write", acct |-> a, what |-> x]]
  /\ UNCHANGED <<account, data, jobs, del, runs, faults>>

EndRequest(r) == req' = [req EXCEPT ![r] = Idle]

RegisterDevice(r) ==
  /\ req[r].pc = "write" /\ req[r].what = "device"
  /\ SetRecord(req[r].acct, "device", "active")
  /\ EndRequest(r)
  /\ UNCHANGED <<user, data, jobs, del, runs, faults>>

ItemKey(r) == <<req[r].acct, req[r].what>>

CreateRow(r) ==
  /\ req[r].pc = "write" /\ req[r].what \in Items
  /\ IF row[ItemKey(r)] = "none"
     THEN /\ row' = [row EXCEPT ![ItemKey(r)] = "live"]
          /\ req' = [req EXCEPT ![r].pc = "put"]
     ELSE EndRequest(r) /\ UNCHANGED row
  /\ UNCHANGED <<account, blob, stray, jobs, del, runs, faults>>

PutBlob(r) ==
  /\ req[r].pc = "put"
  /\ blob' = blob \cup {ItemKey(r)}
  /\ stray' = stray \cup {k \in {ItemKey(r)} : row[k] = "none"}
  /\ EndRequest(r)
  /\ UNCHANGED <<account, row, jobs, del, runs, faults>>

\* The Put reports an error, after storing the object or not, and the row is
\* removed unless that fails as well.  The object is not removed.
PutFails(r) ==
  /\ req[r].pc = "put"
  /\ Fault
  /\ row' \in {row, [row EXCEPT ![ItemKey(r)] = "none"]}
  /\ blob' \in {blob, blob \cup {ItemKey(r)}}
  /\ stray' = stray \cup {k \in {ItemKey(r)} : k \in blob' /\ row'[k] = "none"}
  /\ EndRequest(r)
  /\ UNCHANGED <<account, jobs, del, runs>>

\* The server stops: a row may be left without its blob.
CrashRequest(r) ==
  /\ req[r] # Idle
  /\ Fault
  /\ EndRequest(r)
  /\ UNCHANGED <<account, data, jobs, del, runs>>

-----------------------------------------------------------------------------
(***************************************************************************)
(* Time.  The grace period is taken to be longer than any request lasts.   *)
(***************************************************************************)
Busy(a) ==
  \/ del[a] # "idle"
  \/ \E r \in Requests : req[r] # Idle /\ req[r].acct = a

\* eligible_at passes, and with it the grace of the rows that were soft-deleted
\* under the timestamp of the request.
PassGrace(a) ==
  /\ job[a] # "none" /\ a \notin eligible
  /\ ~Busy(a)
  /\ eligible' = eligible \cup {a}
  /\ row' = [k \in Keys |-> IF k[1] = a /\ row[k] = "deleted" THEN "expired" ELSE row[k]]
  /\ UNCHANGED <<account, blob, stray, job, since, del, req, runs, faults>>

-----------------------------------------------------------------------------
(***************************************************************************)
(* The retention-cleanup task: purge, then RunErasureJobs                  *)
(***************************************************************************)
Move(w, pc) == at' = [at EXCEPT ![w] = pc]

Return(w) ==
  /\ Move(w, "idle")
  /\ todo' = [todo EXCEPT ![w] = {}]
  /\ batch' = [batch EXCEPT ![w] = {}]
  /\ cur' = [cur EXCEPT ![w] = NoOne]
  /\ lock' = IF lock = w THEN NoOne ELSE lock

Expired == {k \in Keys : row[k] = "expired"}
Eligible == {a \in eligible : job[a] \in {"pending", "failed"}}

\* The page of expired rows is taken to hold all of them.  A pass that finds
\* nothing to do changes nothing.
StartRun(w) ==
  /\ at[w] = "idle" /\ lock = NoOne
  /\ Expired # {} \/ Eligible # {}
  /\ lock' = w
  /\ Move(w, "purge")
  /\ todo' = [todo EXCEPT ![w] = Expired \X {"blob"}]
  /\ UNCHANGED <<account, data, jobs, del, req, batch, cur, faults>>

\* Blob, then row, one item after the other.  A failure skips the row and leaves it
\* to a later run.
PurgeBlob(w, k) ==
  /\ at[w] = "purge" /\ <<k, "blob">> \in todo[w]
  /\ \A j \in Keys : <<j, "row">> \notin todo[w]
  /\ \/ /\ blob' = blob \ {k}
        /\ stray' = stray \ {k}
        /\ todo' = [todo EXCEPT ![w] = (@ \ {<<k, "blob">>}) \cup {<<k, "row">>}]
        /\ NoFault
     \/ /\ Fault
        /\ blob' \in {blob, blob \ {k}}
        /\ todo' = [todo EXCEPT ![w] = @ \ {<<k, "blob">>}]
        /\ UNCHANGED stray
  /\ UNCHANGED <<account, row, jobs, del, req, lock, at, batch, cur>>

\* HardDelete names the row by its id.  If the id was uploaded anew meanwhile, after
\* another run had purged it, this takes the new row and leaves its blob.
PurgeRow(w, k) ==
  /\ at[w] = "purge" /\ <<k, "row">> \in todo[w]
  /\ todo' = [todo EXCEPT ![w] = @ \ {<<k, "row">>}]
  /\ \/ /\ row' = [row EXCEPT ![k] = "none"]
        /\ stray' = stray \cup (blob \cap {k})
        /\ NoFault
     \/ Fault /\ UNCHANGED <<row, stray>>
  /\ UNCHANGED <<account, blob, jobs, del, req, lock, at, batch, cur>>

\* Mutant: ORDER BY requested_at DESC.
Newest(S) == {a \in S : \A b \in S : since[b] <= since[a]}

Oldest(S) == {a \in S : \A b \in S : since[a] <= since[b]}

\* ORDER BY eligible_at, requested_at LIMIT BatchSize
ListEligible(w) ==
  /\ at[w] = "purge" /\ todo[w] = {}
  /\ Move(w, "next")
  /\ \E S \in SUBSET Eligible :
       /\ Cardinality(S) <= BatchSize
       /\ Cardinality(S) = BatchSize \/ S = Eligible
       /\ \A a \in S : Oldest((Eligible \ S) \cup {a}) = {a}
       /\ batch' = [batch EXCEPT ![w] = S]
  /\ UNCHANGED <<account, data, jobs, del, req, lock, todo, cur, faults>>

\* Mutant: the update has no condition on the status.
ClaimListed(a) == a \in eligible

Claimable(a) == a \in eligible /\ job[a] \in {"pending", "failed"}

MarkRunning(w, a) ==
  /\ at[w] = "next" /\ a \in Oldest(batch[w])
  /\ \/ /\ Claimable(a)
        /\ job' = [job EXCEPT ![a] = "running"]
        /\ \/ /\ Move(w, "check")
              /\ cur' = [cur EXCEPT ![w] = a]
              /\ batch' = [batch EXCEPT ![w] = @ \ {a}]
              /\ NoFault /\ UNCHANGED <<lock, todo>>
           \/ Return(w) /\ Fault
     \/ /\ ~Claimable(a)
        /\ batch' = [batch EXCEPT ![w] = @ \ {a}]
        /\ NoFault /\ UNCHANGED <<job, lock, at, todo, cur>>
  /\ UNCHANGED <<account, data, since, eligible, del, req>>

FinishRun(w) ==
  /\ at[w] = "next" /\ batch[w] = {}
  /\ Return(w)
  /\ UNCHANGED <<account, data, jobs, del, req, faults>>

(***************************************************************************)
(* completeErasureJob.  An error anywhere goes to MarkFailed.              *)
(***************************************************************************)
\* Mutant: any tombstone will do.
AnyUser(a) == TRUE

\* The second test of the code, that the user was deleted before the job became
\* eligible, follows from the length of the grace period.
SoftDeleted(a) == user[a] # "active"

CheckUser(w) ==
  /\ at[w] = "check"
  /\ Move(w, IF SoftDeleted(cur[w]) THEN "wipe" ELSE "fail")
  /\ UNCHANGED <<account, data, jobs, del, req, lock, todo, batch, cur, faults>>

\* The deletes by user, one after the other.
Wiped(a, n) ==
  [rec EXCEPT ![a] = [x \in Records |->
     IF Turn[x] <= n THEN "gone" ELSE rec[a][x]]]

WipeRecords(w) ==
  /\ at[w] = "wipe"
  /\ \/ rec' = Wiped(cur[w], 4) /\ Move(w, "count") /\ NoFault
     \/ \E n \in 0..4 : rec' = Wiped(cur[w], n) /\ Move(w, "fail") /\ Fault
  /\ UNCHANGED <<user, data, jobs, del, req, lock, todo, batch, cur>>

\* Mutant: only live rows are counted.
CountByUser(a) == {i \in Items : row[<<a, i>>] = "live"}

CountByUserIncludingDeleted(a) == {i \in Items : row[<<a, i>>] # "none"}

CountArtifacts(w) ==
  /\ at[w] = "count"
  /\ \/ /\ CountByUserIncludingDeleted(cur[w]) = {}
        /\ Move(w, "anonymize") /\ NoFault
     \/ /\ CountByUserIncludingDeleted(cur[w]) # {}
        /\ Move(w, "fail") /\ NoFault
     \/ Move(w, "fail") /\ Fault
  /\ UNCHANGED <<account, data, jobs, del, req, lock, todo, batch, cur>>

AnonymizeDeletedUser(a) ==
  user' = [user EXCEPT ![a] = IF @ = "active" THEN @ ELSE "erased"]

\* A fault with effect is also a reporter that fails after the statement.
Anonymize(w) ==
  /\ at[w] = "anonymize"
  /\ \/ AnonymizeDeletedUser(cur[w]) /\ Move(w, "complete") /\ NoFault
     \/ /\ AnonymizeDeletedUser(cur[w]) \/ UNCHANGED user
        /\ Move(w, "fail") /\ Fault
  /\ UNCHANGED <<rec, data, jobs, del, req, lock, todo, batch, cur>>

SetJob(a, s) == job' = [job EXCEPT ![a] = s]

MarkCompleted(w) ==
  /\ at[w] = "complete"
  /\ \/ /\ SetJob(cur[w], "completed")
        /\ Move(w, "next")
        /\ cur' = [cur EXCEPT ![w] = NoOne]
        /\ NoFault
     \/ /\ SetJob(cur[w], "completed") \/ UNCHANGED job
        /\ Move(w, "fail")
        /\ Fault /\ UNCHANGED cur
  /\ UNCHANGED <<account, data, since, eligible, del, req, lock, todo, batch>>

\* Its own error is ignored.
MarkFailed(w) ==
  /\ at[w] = "fail"
  /\ \/ SetJob(cur[w], "failed") /\ NoFault
     \/ UNCHANGED job /\ Fault
  /\ Move(w, "next")
  /\ cur' = [cur EXCEPT ![w] = NoOne]
  /\ UNCHANGED <<account, data, since, eligible, del, req, lock, todo, batch>>

\* A crash, a shutdown between two jobs, or a listing that failed.
Interrupt(w) ==
  /\ at[w] # "idle"
  /\ Fault
  /\ Return(w)
  /\ UNCHANGED <<account, data, jobs, del, req>>

\* The session holding the advisory lock drops while the task runs on.
LoseLock ==
  /\ lock # NoOne
  /\ Fault
  /\ lock' = NoOne
  /\ UNCHANGED <<account, data, jobs, del, req, at, todo, batch, cur>>

-----------------------------------------------------------------------------
RequestStep(r) == RegisterDevice(r) \/ CreateRow(r) \/ PutBlob(r) \/ PutFails(r)

RunStep(w) ==
  \/ \E k \in Keys : PurgeBlob(w, k) \/ PurgeRow(w, k)
  \/ ListEligible(w) \/ FinishRun(w)
  \/ \E a \in Accounts : MarkRunning(w, a)
  \/ CheckUser(w) \/ WipeRecords(w) \/ CountArtifacts(w) \/ Anonymize(w)
  \/ MarkCompleted(w) \/ MarkFailed(w)

Next ==
  \/ \E a \in Accounts : BeginDelete(a) \/ DeleteAccount(a) \/ PassGrace(a)
  \/ \E r \in Requests, a \in Accounts, x \in Items \cup {"device"} :
       BeginRequest(r, a, x)
  \/ \E r \in Requests : RequestStep(r) \/ CrashRequest(r)
  \/ \E w \in Workers : StartRun(w) \/ RunStep(w) \/ Interrupt(w)
  \/ LoseLock

Spec == Init /\ [][Next]_vars

\* Requests and runs that have started go on, the task's ticker keeps firing on
\* some instance, and time passes.
Fairness ==
  /\ \A a \in Accounts : WF_vars(DeleteAccount(a)) /\ WF_vars(PassGrace(a))
  /\ \A r \in Requests : WF_vars(RequestStep(r))
  /\ WF_vars(\E w \in Workers : StartRun(w))
  /\ \A w \in Workers : WF_vars(RunStep(w))

FairSpec == Spec /\ Fairness

-----------------------------------------------------------------------------
(***************************************************************************)
(* Properties                                                              *)
(***************************************************************************)

\* MarkRunning is the race gate (docs/operations.md:26): however locks are lost
\* and marks overwritten, one worker at a time runs the job of an account, and
\* nobody takes it from under that worker.
OneRunPerJob ==
  \A w \in Workers : cur[w] # NoOne =>
    /\ job[cur[w]] = "running" \/ (job[cur[w]] = "completed" /\ at[w] = "fail")
    /\ \A v \in Workers \ {w} : cur[v] # cur[w]

\* What the certificate says is so, and stays so: the account of a completed job
\* is anonymised, its records are gone and no metadata row of it is left.  A
\* blob is left only if a roll-back or a purge had lost track of it before.
CertificateIsTrue ==
  \A a \in Accounts : job[a] = "completed" =>
    /\ user[a] = "erased"
    /\ \A x \in Records : rec[a][x] = "gone"
    /\ \A i \in Items : row[<<a, i>>] = "none"
    /\ \A i \in Items : <<a, i>> \in blob => <<a, i>> \in stray

\* A deletion that stopped half-way leaves an active user with an open job.  The
\* erasure runs that keep trying it never take anything from that user.
ActiveIsSpared ==
  [][\A a \in Accounts : user[a] = "active" =>
       /\ user'[a] # "erased"
       /\ \A x \in Records : rec'[a][x] = "gone" /\ rec[a][x] # "gone" => del[a] = x]_vars

\* An account a request left a live row in after its rows were soft-deleted, or
\* whose deletion stopped half-way: its job fails at every run, and a new
\* deletion is refused because the job is open.
Stuck(a) ==
  /\ job[a] \in Open /\ ~Busy(a)
  /\ user[a] = "active" \/ \E i \in Items : row[<<a, i>>] = "live"

Stranded(a) == job[a] = "running" /\ \A w \in Workers : cur[w] # a

\* A deleted account is erased in the end, unless a worker was interrupted in
\* its job, or a job at least as old is stuck: failing jobs are listed again, and
\* oldest first, so that they hold up the batch.
ErasureCompletes ==
  \A a \in Accounts :
    (user[a] = "deleted") ~>
      \/ job[a] = "completed"
      \/ Stranded(a)
      \/ \E b \in Accounts : since[b] <= since[a] /\ Stuck(b)

=============================================================================
