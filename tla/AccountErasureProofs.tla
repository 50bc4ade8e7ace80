------------------------ MODULE AccountErasureProofs ------------------------
(***************************************************************************)
(* What holds of deletion and erasure for any number of accounts, items,   *)
(* requests and workers, and any number of faults.                         *)
(***************************************************************************)
EXTENDS AccountErasure, FiniteSetTheorems, TLAPS

\* A worker has a job from the mark to the end of its run.
Engaged == \A w \in Workers : cur[w] # NoOne <=> at[w] \in Serving

Untouched(a) == \A r \in Requests : req[r] # Idle => req[r].acct # a

\* Once the grace has passed no deletion is on its way, nor will one begin, and
\* no request writes to an account that has lost its user.
Settled ==
  \A a \in eligible :
    /\ job[a] # "none"
    /\ del[a] = "idle"
    /\ user[a] # "active" => Untouched(a)

RecordsGone(a) == \A x \in Records : rec[a][x] = "gone"
RowsGone(a) == \A i \in Items : row[<<a, i>>] = "none"

\* What the steps of completeErasureJob behind a worker have established.
Progress ==
  \A w \in Workers : cur[w] # NoOne =>
    /\ cur[w] \in eligible
    /\ at[w] \in {"wipe", "count", "anonymize", "complete"} => user[cur[w]] # "active"
    /\ at[w] \in {"count", "anonymize", "complete"} => RecordsGone(cur[w])
    /\ at[w] \in {"anonymize", "complete"} => RowsGone(cur[w])
    /\ at[w] = "complete" => user[cur[w]] = "erased"

\* The account of a completed job.
Certified ==
  \A a \in Accounts : job[a] = "completed" =>
    a \in eligible /\ user[a] = "erased" /\ RecordsGone(a) /\ RowsGone(a)

\* A blob without its row is one that was lost track of.
Tracked == \A k \in Keys : k \in blob /\ row[k] = "none" => k \in stray

IInv ==
  /\ TypeOK /\ Engaged /\ OneRunPerJob
  /\ Settled /\ Progress /\ Certified /\ Tracked

Places == {"idle", "purge", "next"} \cup Serving

USE DEF account, data, jobs, runs

-----------------------------------------------------------------------------
(***************************************************************************)
(* Requests, jobs and the tables they write                                *)
(***************************************************************************)
\* A request that is past its checks names an account and what it writes.
LEMMA Writing ==
  ASSUME TypeOK, NEW r \in Requests, req[r] # Idle
  PROVE  /\ req[r].acct \in Accounts
         /\ req[r].what \in Items \cup {"device"}
         /\ req[r].pc \in {"write", "put"}
         /\ req[r].pc = "put" => req[r].what \in Items
BY DEF TypeOK, Idle, Writes

LEMMA NotIdle ==
  ASSUME NEW r \in Requests, req[r].pc \in {"write", "put"}
  PROVE  req[r] # Idle
BY DEF Idle

\* The row a request writes is one of the tables'.
LEMMA KeyType ==
  ASSUME TypeOK, NEW r \in Requests, req[r] # Idle, req[r].what \in Items
  PROVE  ItemKey(r) \in Keys
BY Writing DEF ItemKey, Keys

LEMMA EndRequestType ==
  ASSUME TypeOK, NEW r \in Requests, EndRequest(r)
  PROVE  req' \in [Requests -> {Idle} \cup Writes]
BY DEF TypeOK, EndRequest

\* A worker in a job has an account in hand.
LEMMA Current ==
  ASSUME TypeOK, Engaged, NEW w \in Workers, at[w] \in Serving
  PROVE  cur[w] \in Accounts
BY DEF TypeOK, Engaged

LEMMA MoveType ==
  ASSUME TypeOK, NEW w \in Workers, NEW pc \in Places, Move(w, pc)
  PROVE  at' \in [Workers -> Places]
BY DEF TypeOK, Move, Places, Serving

LEMMA ReturnType ==
  ASSUME TypeOK, NEW w \in Workers, Return(w)
  PROVE  /\ at' \in [Workers -> Places]
         /\ todo' \in [Workers -> SUBSET (Keys \X {"blob", "row"})]
         /\ batch' \in [Workers -> SUBSET Accounts]
         /\ cur' \in [Workers -> Accounts \cup {NoOne}]
         /\ lock' \in Workers \cup {NoOne}
BY DEF TypeOK, Return, Move, Places, Serving

LEMMA FaultType ==
  ASSUME TypeOK, Fault \/ NoFault
  PROVE  faults' \in 0..MaxFaults
BY ConstantsAssumption DEF TypeOK, Fault, NoFault

LEMMA SetRecordType ==
  ASSUME TypeOK, NEW a \in Accounts, NEW x \in Records, NEW s \in {"active", "revoked", "gone"},
         SetRecord(a, x, s)
  PROVE  rec' \in [Accounts -> [Records -> {"active", "revoked", "gone"}]]
<1>1. [rec[a] EXCEPT ![x] = s] \in [Records -> {"active", "revoked", "gone"}]
  BY DEF TypeOK
<1>2. rec' = [rec EXCEPT ![a] = [rec[a] EXCEPT ![x] = s]]
  BY DEF SetRecord
<1> QED
  BY <1>1, <1>2 DEF TypeOK

LEMMA StatementType ==
  ASSUME TypeOK, NEW a \in Accounts, Statement(a)
  PROVE  /\ user' \in [Accounts -> {"active", "deleted", "erased"}]
         /\ rec' \in [Accounts -> [Records -> {"active", "revoked", "gone"}]]
         /\ row' \in [Keys -> {"none", "live", "deleted", "expired"}]
<1>1. CASE del[a] \in {"session", "device"} /\ SetRecord(a, del[a], "revoked") /\ UNCHANGED <<user, row>>
  <2>1. del[a] \in Records
    BY <1>1 DEF Records
  <2> QED
    BY <1>1, <2>1, SetRecordType DEF TypeOK
<1>2. CASE SetRecord(a, "factor", "gone") /\ UNCHANGED <<user, row>>
  <2>1. "factor" \in Records
    BY DEF Records
  <2> QED
    BY <1>2, <2>1, SetRecordType DEF TypeOK
<1>3. ASSUME NEW S, SoftDeleteAllByUser(a, S), UNCHANGED account
      PROVE  row' \in [Keys -> {"none", "live", "deleted", "expired"}]
  BY <1>3 DEF TypeOK, SoftDeleteAllByUser
<1>4. CASE user' = [user EXCEPT ![a] = "deleted"] /\ UNCHANGED <<rec, row>>
  BY <1>4 DEF TypeOK
<1> QED
  BY <1>1, <1>2, <1>3, <1>4 DEF Statement, TypeOK

\* One statement is followed by another or by the end.
LEMMA StatementOrder ==
  ASSUME NEW s \in DOMAIN NextStatement
  PROVE  NextStatement[s] \in {"idle"} \cup DOMAIN NextStatement
<1>1. DOMAIN NextStatement = {"session", "device", "factor", "bundles", "bundleUsage",
                              "snapshots", "snapshotUsage", "summary", "user"}
  BY DEF NextStatement
<1> QED
  BY <1>1 DEF NextStatement

LEMMA WipedType ==
  ASSUME TypeOK, NEW a \in Accounts, NEW n
  PROVE  Wiped(a, n) \in [Accounts -> [Records -> {"active", "revoked", "gone"}]]
<1>1. [x \in Records |-> IF Turn[x] <= n THEN "gone" ELSE rec[a][x]]
        \in [Records -> {"active", "revoked", "gone"}]
  BY DEF TypeOK
<1> QED
  BY <1>1 DEF TypeOK, Wiped

\* Types are kept by every step.
LEMMA TypeStep ==
  ASSUME TypeOK, Engaged, [Next]_vars
  PROVE  TypeOK'
<1> USE DEF TypeOK
<1>1. ASSUME NEW a \in Accounts, BeginDelete(a)
      PROVE  TypeOK'
  <2>1. Cardinality(Requested) \in Nat
    BY ConstantsAssumption, FS_Subset, FS_CardinalityType DEF Requested
  <2>2. faults' \in 0..MaxFaults
    BY <1>1, FaultType DEF BeginDelete
  <2>3. del' \in [Accounts -> {"idle"} \cup DOMAIN NextStatement]
    BY <1>1 DEF BeginDelete, NextStatement
  <2> QED
    BY <1>1, <2>1, <2>2, <2>3 DEF BeginDelete, Open
<1>2. ASSUME NEW a \in Accounts, DeleteAccount(a)
      PROVE  TypeOK'
  <2>1. faults' \in 0..MaxFaults
    BY <1>2, FaultType DEF DeleteAccount
  <2>2. del' \in [Accounts -> {"idle"} \cup DOMAIN NextStatement]
    <3>1. Following(a) \in {"idle"} \cup DOMAIN NextStatement
      <4>1. del[a] \in DOMAIN NextStatement
        BY <1>2 DEF DeleteAccount
      <4>2. del[a] \in {"bundles", "snapshots"} => NextStatement[del[a]] \in DOMAIN NextStatement
        BY DEF NextStatement
      <4> QED
        BY <4>1, <4>2, StatementOrder DEF Following
    <3> QED
      BY <1>2, <3>1 DEF DeleteAccount
  <2>3. Statement(a) \/ UNCHANGED <<user, rec, row>>
    BY <1>2 DEF DeleteAccount
  <2> QED
    BY <1>2, <2>1, <2>2, <2>3, StatementType DEF DeleteAccount
<1>3. ASSUME NEW a \in Accounts, PassGrace(a)
      PROVE  TypeOK'
  BY <1>3 DEF PassGrace
<1>4. ASSUME NEW r \in Requests, NEW a \in Accounts, NEW x \in Items \cup {"device"},
             BeginRequest(r, a, x)
      PROVE  TypeOK'
  <2>1. [pc |-> "write", acct |-> a, what |-> x] \in Writes
    BY DEF Writes
  <2> QED
    BY <1>4, <2>1 DEF BeginRequest
<1>5. ASSUME NEW r \in Requests, RegisterDevice(r)
      PROVE  TypeOK'
  <2>1. req[r].acct \in Accounts /\ "device" \in Records
    BY <1>5, NotIdle, Writing DEF RegisterDevice, Records
  <2> QED
    BY <1>5, <2>1, SetRecordType, EndRequestType DEF RegisterDevice
<1>6. ASSUME NEW r \in Requests, CreateRow(r)
      PROVE  TypeOK'
  <2>1. ItemKey(r) \in Keys
    BY <1>6, NotIdle, KeyType DEF CreateRow
  <2>2. req[r] \in [pc : {"write"}, acct : Accounts, what : Items]
    BY <1>6, NotIdle DEF CreateRow, Writes
  <2>3. [req[r] EXCEPT !.pc = "put"] \in Writes
    BY <2>2 DEF Writes
  <2>4. req' \in [Requests -> {Idle} \cup Writes]
    BY <1>6, <2>3, EndRequestType DEF CreateRow
  <2> QED
    BY <1>6, <2>1, <2>4 DEF CreateRow
<1>7. ASSUME NEW r \in Requests, PutBlob(r)
      PROVE  TypeOK'
  <2>1. ItemKey(r) \in Keys
    BY <1>7, NotIdle, Writing, KeyType DEF PutBlob
  <2> QED
    BY <1>7, <2>1, EndRequestType DEF PutBlob
<1>8. ASSUME NEW r \in Requests, PutFails(r)
      PROVE  TypeOK'
  <2>1. ItemKey(r) \in Keys
    BY <1>8, NotIdle, Writing, KeyType DEF PutFails
  <2> QED
    BY <1>8, <2>1, EndRequestType, FaultType DEF PutFails
<1>9. ASSUME NEW r \in Requests, CrashRequest(r)
      PROVE  TypeOK'
  BY <1>9, EndRequestType, FaultType DEF CrashRequest
<1>10. ASSUME NEW w \in Workers, StartRun(w)
       PROVE  TypeOK'
  <2>1. Expired \X {"blob"} \in SUBSET (Keys \X {"blob", "row"})
    BY DEF Expired
  <2> QED
    BY <1>10, <2>1, MoveType DEF StartRun, Places
<1>11. ASSUME NEW w \in Workers, NEW k \in Keys, PurgeBlob(w, k) \/ PurgeRow(w, k)
       PROVE  TypeOK'
  <2>1. CASE PurgeBlob(w, k)
    <3>1. <<k, "row">> \in Keys \X {"blob", "row"}
      OBVIOUS
    <3>2. todo' \in [Workers -> SUBSET (Keys \X {"blob", "row"})]
      BY <2>1, <3>1 DEF PurgeBlob
    <3> QED
      BY <2>1, <3>2, FaultType DEF PurgeBlob
  <2>2. CASE PurgeRow(w, k)
    BY <2>2, FaultType DEF PurgeRow
  <2> QED
    BY <1>11, <2>1, <2>2
<1>12. ASSUME NEW w \in Workers, ListEligible(w)
       PROVE  TypeOK'
  <2>1. Eligible \subseteq Accounts
    BY DEF Eligible
  <2> QED
    BY <1>12, <2>1, MoveType DEF ListEligible, Places
<1>13. ASSUME NEW w \in Workers, FinishRun(w)
       PROVE  TypeOK'
  BY <1>13, ReturnType DEF FinishRun, Places
<1>14. ASSUME NEW w \in Workers, NEW a \in Accounts, MarkRunning(w, a)
       PROVE  TypeOK'
  <2>1. job' \in [Accounts -> {"none", "completed"} \cup Open] /\ faults' \in 0..MaxFaults
    BY <1>14, FaultType DEF MarkRunning, Open
  <2>2. CASE Return(w)
    BY <1>14, <2>1, <2>2, ReturnType DEF MarkRunning, Places
  <2>3. CASE /\ Move(w, "check")
             /\ cur' = [cur EXCEPT ![w] = a]
             /\ batch' = [batch EXCEPT ![w] = @ \ {a}]
             /\ UNCHANGED <<lock, todo>>
    BY <1>14, <2>1, <2>3, MoveType DEF MarkRunning, Places, Serving
  <2>4. CASE /\ batch' = [batch EXCEPT ![w] = @ \ {a}]
             /\ UNCHANGED <<job, lock, at, todo, cur>>
    BY <1>14, <2>1, <2>4 DEF MarkRunning
  <2> QED
    BY <1>14, <2>2, <2>3, <2>4 DEF MarkRunning
<1>15. ASSUME NEW w \in Workers, CheckUser(w)
       PROVE  TypeOK'
  BY <1>15 DEF CheckUser, Move, Serving
<1>16. ASSUME NEW w \in Workers, WipeRecords(w)
       PROVE  TypeOK'
  <2>1. cur[w] \in Accounts
    BY <1>16, Current DEF WipeRecords, Serving
  <2>2. \E n : rec' = Wiped(cur[w], n)
    BY <1>16 DEF WipeRecords
  <2>3. rec' \in [Accounts -> [Records -> {"active", "revoked", "gone"}]]
    BY <2>1, <2>2, WipedType
  <2>4. faults' \in 0..MaxFaults /\ at' \in [Workers -> Places]
    BY <1>16, FaultType DEF WipeRecords, Move, Places, Serving
  <2> QED
    BY <1>16, <2>3, <2>4 DEF WipeRecords, Places
<1>17. ASSUME NEW w \in Workers, CountArtifacts(w)
       PROVE  TypeOK'
  BY <1>17, FaultType DEF CountArtifacts, Move, Serving
<1>18. ASSUME NEW w \in Workers, Anonymize(w)
       PROVE  TypeOK'
  <2>1. user' \in [Accounts -> {"active", "deleted", "erased"}]
    BY <1>18 DEF Anonymize, AnonymizeDeletedUser
  <2>2. faults' \in 0..MaxFaults /\ at' \in [Workers -> Places]
    BY <1>18, FaultType DEF Anonymize, Move, Places, Serving
  <2> QED
    BY <1>18, <2>1, <2>2 DEF Anonymize, Places
<1>19. ASSUME NEW w \in Workers, MarkCompleted(w)
       PROVE  TypeOK'
  BY <1>19, FaultType DEF MarkCompleted, SetJob, Move, Serving
<1>20. ASSUME NEW w \in Workers, MarkFailed(w)
       PROVE  TypeOK'
  BY <1>20, FaultType DEF MarkFailed, SetJob, Move, Open
<1>21. ASSUME NEW w \in Workers, Interrupt(w)
       PROVE  TypeOK'
  BY <1>21, ReturnType, FaultType DEF Interrupt, Places
<1>22. CASE LoseLock
  BY <1>22, FaultType DEF LoseLock
<1>23. CASE UNCHANGED vars
  BY <1>23 DEF vars
<1> HIDE DEF TypeOK
<1> QED
  BY <1>1, <1>2, <1>3, <1>4, <1>5, <1>6, <1>7, <1>8, <1>9, <1>10, <1>11, <1>12, <1>13,
     <1>14, <1>15, <1>16, <1>17, <1>18, <1>19, <1>20, <1>21, <1>22, <1>23
     DEF Next, RequestStep, RunStep

-----------------------------------------------------------------------------
(***************************************************************************)
(* Who changes what                                                        *)
(***************************************************************************)
ClientStep ==
  \/ \E a \in Accounts : BeginDelete(a) \/ DeleteAccount(a) \/ PassGrace(a)
  \/ \E r \in Requests, a \in Accounts, x \in Items \cup {"device"} :
       BeginRequest(r, a, x)
  \/ \E r \in Requests : RequestStep(r) \/ CrashRequest(r)

\* The worker's steps that leave the tables and its job as they are.
Listing(w) == StartRun(w) \/ ListEligible(w) \/ FinishRun(w) \/ Interrupt(w)

LEMMA Cases ==
  ASSUME [Next]_vars
  PROVE  \/ ClientStep
         \/ \E w \in Workers :
              \/ Listing(w)
              \/ \E k \in Keys : PurgeBlob(w, k) \/ PurgeRow(w, k)
              \/ \E a \in Accounts : MarkRunning(w, a)
              \/ CheckUser(w) \/ WipeRecords(w) \/ CountArtifacts(w) \/ Anonymize(w)
              \/ MarkCompleted(w) \/ MarkFailed(w)
         \/ LoseLock
         \/ UNCHANGED vars
BY DEF Next, RunStep, ClientStep, Listing

LEMMA ClientsLeaveRuns ==
  ASSUME ClientStep
  PROVE  UNCHANGED <<at, cur>>
BY DEF ClientStep, RequestStep, BeginDelete, DeleteAccount, PassGrace, BeginRequest,
       RegisterDevice, CreateRow, PutBlob, PutFails, CrashRequest

LEMMA ListingLeavesTables ==
  ASSUME NEW w \in Workers, Listing(w)
  PROVE  /\ UNCHANGED <<user, rec, row, blob, stray, job, since, eligible, del, req>>
         /\ UNCHANGED cur \/ cur' = [cur EXCEPT ![w] = NoOne]
BY DEF Listing, StartRun, ListEligible, FinishRun, Interrupt, Return

\* A statement of DeleteAccount touches its own account only.
LEMMA StatementIsLocal ==
  ASSUME TypeOK, NEW a \in Accounts, NEW b \in Accounts \ {a}, Statement(a)
  PROVE  /\ user'[b] = user[b] /\ rec'[b] = rec[b]
         /\ \A i \in Items : row'[<<b, i>>] = row[<<b, i>>]
<1>1. \A i \in Items : <<b, i>> \in Keys /\ <<b, i>>[1] = b
  BY DEF Keys
<1>2. ASSUME NEW S, SoftDeleteAllByUser(a, S)
      PROVE  \A i \in Items : row'[<<b, i>>] = row[<<b, i>>]
  BY <1>1, <1>2 DEF TypeOK, SoftDeleteAllByUser
<1> QED
  BY <1>2 DEF Statement, TypeOK, SetRecord

\* No deletion begins in an account whose grace has passed.
LEMMA NoSecondDeletion ==
  ASSUME TypeOK, Settled, Certified, NEW a \in Accounts, BeginDelete(a)
  PROVE  a \notin eligible
BY DEF TypeOK, Settled, Certified, BeginDelete, Open

-----------------------------------------------------------------------------
(***************************************************************************)
(* A worker and its job                                                    *)
(***************************************************************************)
LEMMA EngagedStep ==
  ASSUME TypeOK, Engaged, [Next]_vars
  PROVE  Engaged'
<1> USE ConstantsAssumption DEF TypeOK, Engaged, Serving
<1>1. CASE UNCHANGED <<at, cur>>
  BY <1>1
<1>2. ASSUME NEW w \in Workers, Listing(w)
      PROVE  Engaged'
  BY <1>2 DEF Listing, StartRun, ListEligible, FinishRun, Interrupt, Return, Move
<1>3. ASSUME NEW w \in Workers, NEW a \in Accounts, MarkRunning(w, a)
      PROVE  Engaged'
  <2>1. at[w] = "next" /\ a # NoOne
    BY <1>3 DEF MarkRunning
  <2>2. \/ /\ at' = [at EXCEPT ![w] = "check"]
           /\ cur' = [cur EXCEPT ![w] = a]
        \/ /\ at' = [at EXCEPT ![w] = "idle"]
           /\ cur' = [cur EXCEPT ![w] = NoOne]
        \/ UNCHANGED <<at, cur>>
    BY <1>3 DEF MarkRunning, Return, Move
  <2> QED
    BY <2>1, <2>2
<1>4. ASSUME NEW w \in Workers, CheckUser(w) \/ WipeRecords(w) \/ CountArtifacts(w) \/ Anonymize(w)
      PROVE  Engaged'
  BY <1>4 DEF CheckUser, WipeRecords, CountArtifacts, Anonymize, Move
<1>5. ASSUME NEW w \in Workers, MarkCompleted(w) \/ MarkFailed(w)
      PROVE  Engaged'
  BY <1>5 DEF MarkCompleted, MarkFailed, Move
<1> HIDE DEF Engaged, TypeOK
<1> QED
  BY <1>1, <1>2, <1>3, <1>4, <1>5, Cases, ClientsLeaveRuns DEF PurgeBlob, PurgeRow, LoseLock, vars

\* MarkRunning takes a job nobody runs; a job that is run is not begun anew.
LEMMA OneRunPerJobStep ==
  ASSUME TypeOK, Engaged, OneRunPerJob, Settled, Certified, [Next]_vars
  PROVE  OneRunPerJob'
<1> USE ConstantsAssumption DEF TypeOK, Engaged, OneRunPerJob, Serving
<1>1. CASE UNCHANGED <<at, cur, job>>
  BY <1>1
<1>2. ASSUME NEW a \in Accounts, BeginDelete(a)
      PROVE  OneRunPerJob'
  <2>1. \A w \in Workers : cur[w] # a
    BY <1>2 DEF BeginDelete, Certified, Open
  <2> QED
    BY <1>2, <2>1 DEF BeginDelete
<1>3. ASSUME NEW w \in Workers, Listing(w)
      PROVE  OneRunPerJob'
  BY <1>3 DEF Listing, StartRun, ListEligible, FinishRun, Interrupt, Return, Move
<1>4. ASSUME NEW w \in Workers, NEW a \in Accounts, MarkRunning(w, a)
      PROVE  OneRunPerJob'
  <2>1. CASE Claimable(a)
    <3>1. \A v \in Workers : cur[v] # a
      BY <2>1 DEF Claimable
    <3>2. job' = [job EXCEPT ![a] = "running"]
      BY <1>4, <2>1 DEF MarkRunning
    <3>3. CASE Return(w)
      BY <3>1, <3>2, <3>3 DEF Return, Move
    <3>4. CASE Move(w, "check") /\ cur' = [cur EXCEPT ![w] = a]
      BY <3>1, <3>2, <3>4 DEF Move
    <3> QED
      BY <1>4, <2>1, <3>3, <3>4 DEF MarkRunning
  <2>2. CASE ~Claimable(a)
    BY <1>4, <2>2 DEF MarkRunning
  <2> QED
    BY <2>1, <2>2
<1>5. ASSUME NEW w \in Workers, CheckUser(w) \/ WipeRecords(w) \/ CountArtifacts(w) \/ Anonymize(w)
      PROVE  OneRunPerJob'
  BY <1>5 DEF CheckUser, WipeRecords, CountArtifacts, Anonymize, Move
<1>6. ASSUME NEW w \in Workers, MarkCompleted(w) \/ MarkFailed(w)
      PROVE  OneRunPerJob'
  BY <1>6 DEF MarkCompleted, MarkFailed, Move, SetJob
<1>7. ClientStep => UNCHANGED job \/ \E a \in Accounts : BeginDelete(a)
  BY DEF ClientStep, RequestStep, DeleteAccount, PassGrace, BeginRequest,
         RegisterDevice, CreateRow, PutBlob, PutFails, CrashRequest
<1> HIDE DEF TypeOK, Engaged, OneRunPerJob
<1> QED
  BY <1>1, <1>2, <1>3, <1>4, <1>5, <1>6, <1>7, Cases, ClientsLeaveRuns
     DEF PurgeBlob, PurgeRow, LoseLock, vars

-----------------------------------------------------------------------------
(***************************************************************************)
(* Accounts whose grace has passed                                         *)
(***************************************************************************)
LEMMA SettledStep ==
  ASSUME TypeOK, Settled, Certified, [Next]_vars
  PROVE  Settled'
<1> USE DEF TypeOK, Settled, Untouched
<1>1. CASE UNCHANGED <<user, job, eligible, del, req>>
  BY <1>1
<1>2. ASSUME NEW a \in Accounts, BeginDelete(a)
      PROVE  Settled'
  <2>1. a \notin eligible
    BY <1>2, NoSecondDeletion
  <2> QED
    BY <1>2, <2>1 DEF BeginDelete
<1>3. ASSUME NEW a \in Accounts, DeleteAccount(a)
      PROVE  Settled'
  <2>1. a \notin eligible
    BY <1>3 DEF DeleteAccount
  <2>2. \A b \in eligible : user'[b] = user[b]
    BY <1>3, <2>1, StatementIsLocal DEF DeleteAccount
  <2> QED
    BY <1>3, <2>1, <2>2 DEF DeleteAccount
<1>4. ASSUME NEW a \in Accounts, PassGrace(a)
      PROVE  Settled'
  BY <1>4 DEF PassGrace, Busy
<1>5. ASSUME NEW r \in Requests, NEW a \in Accounts, NEW x \in Items \cup {"device"},
             BeginRequest(r, a, x)
      PROVE  Settled'
  BY <1>5 DEF BeginRequest, Idle
<1>6. ASSUME NEW r \in Requests, RequestStep(r) \/ CrashRequest(r)
      PROVE  Settled'
  <2>1. UNCHANGED <<user, job, eligible, del>>
    BY <1>6 DEF RequestStep, RegisterDevice, CreateRow, PutBlob, PutFails, CrashRequest
  <2>2. CASE EndRequest(r)
    BY <2>1, <2>2 DEF EndRequest
  <2>3. CASE CreateRow(r) /\ req' = [req EXCEPT ![r].pc = "put"]
    <3>1. req[r] # Idle
      BY <2>3, NotIdle DEF CreateRow
    <3>2. req[r] \in Writes
      BY <3>1
    <3>3. req'[r].acct = req[r].acct
      BY <2>3, <3>2 DEF Writes
    <3> QED
      BY <2>1, <2>3, <3>1, <3>3
  <2> QED
    BY <1>6, <2>2, <2>3 DEF RequestStep, RegisterDevice, CreateRow, PutBlob, PutFails, CrashRequest
<1>7. ASSUME NEW w \in Workers, Anonymize(w)
      PROVE  Settled'
  BY <1>7 DEF Anonymize, AnonymizeDeletedUser
<1>8. ASSUME NEW w \in Workers, NEW a \in Accounts, MarkRunning(w, a)
      PROVE  Settled'
  BY <1>8 DEF MarkRunning
<1>9. ASSUME NEW w \in Workers, MarkCompleted(w) \/ MarkFailed(w)
      PROVE  Settled'
  BY <1>9 DEF MarkCompleted, MarkFailed, SetJob
<1> HIDE DEF TypeOK, Settled
<1> QED
  BY <1>1, <1>2, <1>3, <1>4, <1>5, <1>6, <1>7, <1>8, <1>9, Cases, ListingLeavesTables
     DEF ClientStep, PurgeBlob, PurgeRow, CheckUser, WipeRecords, CountArtifacts, LoseLock, vars

\* What is gone from an account that has lost its user stays gone.
LEMMA ClosedForGood ==
  ASSUME TypeOK, Engaged, Settled, [Next]_vars, NEW a \in eligible, user[a] # "active"
  PROVE  /\ a \in eligible' /\ user'[a] # "active"
         /\ user[a] = "erased" => user'[a] = "erased"
         /\ RecordsGone(a) => RecordsGone(a)'
         /\ RowsGone(a) => RowsGone(a)'
<1> DEFINE Goal == /\ a \in eligible' /\ user'[a] # "active"
                   /\ user[a] = "erased" => user'[a] = "erased"
                   /\ RecordsGone(a) => RecordsGone(a)'
                   /\ RowsGone(a) => RowsGone(a)'
<1>a. a \in Accounts /\ Untouched(a) /\ del[a] = "idle"
  BY DEF TypeOK, Settled
<1>k. \A i \in Items : <<a, i>> \in Keys
  BY <1>a DEF Keys
<1> USE <1>a, <1>k DEF RecordsGone, RowsGone
<1>1. CASE UNCHANGED <<user, rec, row, eligible>>
  BY <1>1
<1>2. ASSUME NEW b \in Accounts, DeleteAccount(b)
      PROVE  Goal
  <2>1. a # b
    BY <1>2 DEF DeleteAccount
  <2> QED
    BY <1>2, <2>1, StatementIsLocal DEF DeleteAccount
<1>3. ASSUME NEW b \in Accounts, PassGrace(b)
      PROVE  Goal
  BY <1>3 DEF PassGrace, TypeOK
<1>4. ASSUME NEW r \in Requests, RegisterDevice(r)
      PROVE  Goal
  <2>1. req[r].acct # a
    BY <1>4, NotIdle DEF RegisterDevice, Untouched
  <2>2. rec'[a] = rec[a]
    BY <1>4, <2>1 DEF RegisterDevice, SetRecord, TypeOK
  <2> QED
    BY <1>4, <2>2 DEF RegisterDevice
<1>5. ASSUME NEW r \in Requests, CreateRow(r)
      PROVE  Goal
  <2>1. req[r].acct # a
    BY <1>5, NotIdle DEF CreateRow, Untouched
  <2>2. \A i \in Items : ItemKey(r) # <<a, i>>
    BY <2>1 DEF ItemKey
  <2>3. \A i \in Items : row'[<<a, i>>] = row[<<a, i>>]
    BY <1>5, <2>2 DEF CreateRow, TypeOK
  <2> QED
    BY <1>5, <2>3 DEF CreateRow
<1>6. ASSUME NEW r \in Requests, PutFails(r)
      PROVE  Goal
  BY <1>6 DEF PutFails, TypeOK
<1>7. ASSUME NEW w \in Workers, NEW k \in Keys, PurgeBlob(w, k) \/ PurgeRow(w, k)
      PROVE  Goal
  BY <1>7 DEF PurgeBlob, PurgeRow, TypeOK
<1>8. ASSUME NEW w \in Workers, WipeRecords(w)
      PROVE  Goal
  <2>1. PICK n : rec' = Wiped(cur[w], n)
    BY <1>8 DEF WipeRecords
  <2>2. RecordsGone(a) => RecordsGone(a)'
    BY <2>1 DEF Wiped, TypeOK
  <2> QED
    BY <1>8, <2>2 DEF WipeRecords
<1>9. ASSUME NEW w \in Workers, Anonymize(w)
      PROVE  Goal
  BY <1>9 DEF Anonymize, AnonymizeDeletedUser, TypeOK
<1>10. ASSUME NEW w \in Workers, NEW b \in Accounts, MarkRunning(w, b)
       PROVE  Goal
  BY <1>1, <1>10 DEF MarkRunning
<1>11. ASSUME NEW w \in Workers, MarkCompleted(w) \/ MarkFailed(w)
       PROVE  Goal
  BY <1>1, <1>11 DEF MarkCompleted, MarkFailed
<1> HIDE DEF Goal
<1>12. CASE ClientStep
  <2>1. UNCHANGED <<user, rec, row, eligible>>
        \/ \E b \in Accounts : DeleteAccount(b) \/ PassGrace(b)
        \/ \E r \in Requests : RegisterDevice(r) \/ CreateRow(r) \/ PutFails(r)
    BY <1>12 DEF ClientStep, RequestStep, BeginDelete, BeginRequest, PutBlob, CrashRequest
  <2> QED
    BY <2>1, <1>1, <1>2, <1>3, <1>4, <1>5, <1>6 DEF Goal
<1>13. CASE UNCHANGED vars \/ LoseLock
  BY <1>1, <1>13 DEF vars, LoseLock
<1>14. ASSUME NEW w \in Workers, Listing(w) \/ CheckUser(w) \/ CountArtifacts(w)
       PROVE  Goal
  BY <1>1, <1>14, ListingLeavesTables DEF CheckUser, CountArtifacts, Goal
<1> QED
  BY <1>7, <1>8, <1>9, <1>10, <1>11, <1>12, <1>13, <1>14, Cases DEF Goal

\* Each step of completeErasureJob adds to what the ones before it established,
\* and what they established is not undone behind the worker.
LEMMA ProgressStep ==
  ASSUME TypeOK, Engaged, Settled, Progress, [Next]_vars
  PROVE  Progress'
<1> DEFINE Stage(w) ==
      /\ cur[w] \in eligible
      /\ at[w] \in {"wipe", "count", "anonymize", "complete"} => user[cur[w]] # "active"
      /\ at[w] \in {"count", "anonymize", "complete"} => RecordsGone(cur[w])
      /\ at[w] \in {"anonymize", "complete"} => RowsGone(cur[w])
      /\ at[w] = "complete" => user[cur[w]] = "erased"
<1>1. SUFFICES ASSUME NEW v \in Workers, cur'[v] # NoOne
               PROVE  Stage(v)'
  BY DEF Progress
<1>2. eligible \subseteq eligible'
  BY Cases, ListingLeavesTables
     DEF ClientStep, RequestStep, BeginDelete, DeleteAccount, PassGrace, BeginRequest,
         RegisterDevice, CreateRow, PutBlob, PutFails, CrashRequest, PurgeBlob, PurgeRow, MarkRunning,
         CheckUser, WipeRecords, CountArtifacts, Anonymize, MarkCompleted, MarkFailed,
         LoseLock, vars
\* A worker that stays where it is.
<1>3. CASE cur'[v] = cur[v] /\ at'[v] = at[v]
  <2>1. Stage(v)
    BY <1>1, <1>3 DEF Progress
  <2>2. CASE user[cur[v]] = "active"
    BY <1>2, <1>3, <2>1, <2>2
  <2>3. CASE user[cur[v]] # "active"
    BY <1>2, <1>3, <2>1, <2>3, ClosedForGood
  <2> QED
    BY <2>2, <2>3
<1>4. ASSUME NEW w \in Workers, w # v,
             \A u \in Workers \ {w} : cur'[u] = cur[u] /\ at'[u] = at[u]
      PROVE  Stage(v)'
  BY <1>3, <1>4
<1>5. ASSUME NEW w \in Workers, Listing(w)
      PROVE  Stage(v)'
  <2>1. \A u \in Workers \ {w} : cur'[u] = cur[u] /\ at'[u] = at[u]
    BY <1>5 DEF Listing, StartRun, ListEligible, FinishRun, Interrupt, Return, Move, TypeOK
  <2>2. cur'[w] = NoOne \/ ~(at[w] \in Serving)
    BY <1>5 DEF Listing, StartRun, ListEligible, FinishRun, Interrupt, Return, TypeOK, Serving
  <2>3. cur'[w] = NoOne
    BY <1>5, <2>2, ListingLeavesTables DEF Engaged, TypeOK
  <2> QED
    BY <1>1, <1>4, <2>1, <2>3
<1>6. ASSUME NEW w \in Workers, NEW a \in Accounts, MarkRunning(w, a)
      PROVE  Stage(v)'
  <2>1. \A u \in Workers \ {w} : cur'[u] = cur[u] /\ at'[u] = at[u]
    BY <1>6 DEF MarkRunning, Return, Move, TypeOK
  <2>2. \/ cur'[w] = NoOne
        \/ cur'[w] = a /\ at'[w] = "check" /\ a \in eligible
        \/ cur'[w] = cur[w] /\ at'[w] = at[w]
    BY <1>6 DEF MarkRunning, Return, Move, TypeOK, Claimable
  <2> QED
    BY <1>1, <1>2, <1>3, <1>4, <2>1, <2>2
\* The worker's own step.
<1>7. ASSUME NEW w \in Workers, CheckUser(w) \/ WipeRecords(w) \/ CountArtifacts(w) \/ Anonymize(w)
      PROVE  Stage(v)'
  <2>1. \A u \in Workers \ {w} : cur'[u] = cur[u] /\ at'[u] = at[u]
    BY <1>7 DEF CheckUser, WipeRecords, CountArtifacts, Anonymize, Move, TypeOK
  <2>2. CASE w = v
    <3>1. cur'[v] = cur[v] /\ cur[v] \in Accounts /\ Stage(v)
      BY <1>1, <1>7, <2>2, Current
         DEF CheckUser, WipeRecords, CountArtifacts, Anonymize, Progress, Serving
    <3>2. cur'[v] \in eligible'
      BY <1>2, <3>1
    <3>3. CASE CheckUser(v)
      BY <3>1, <3>2, <3>3 DEF CheckUser, Move, SoftDeleted, TypeOK
    <3>4. CASE WipeRecords(v)
      <4>1. CASE rec' = Wiped(cur[v], 4) /\ Move(v, "count")
        <5>1. \A x \in Records : Turn[x] <= 4
          BY DEF Records, Turn
        <5>2. RecordsGone(cur[v])'
          BY <3>1, <4>1, <5>1 DEF RecordsGone, Wiped, TypeOK
        <5> QED
          BY <3>1, <3>2, <3>4, <4>1, <5>2 DEF WipeRecords, Move, TypeOK
      <4>2. CASE Move(v, "fail")
        BY <3>2, <4>2 DEF Move, TypeOK
      <4> QED
        BY <3>4, <4>1, <4>2 DEF WipeRecords
    <3>5. CASE CountArtifacts(v)
      <4>1. CASE CountByUserIncludingDeleted(cur[v]) = {} /\ Move(v, "anonymize")
        <5>1. RowsGone(cur[v])
          BY <4>1 DEF CountByUserIncludingDeleted, RowsGone
        <5> QED
          BY <3>1, <3>2, <3>5, <4>1, <5>1 DEF CountArtifacts, Move, TypeOK, RowsGone, RecordsGone
      <4>2. CASE Move(v, "fail")
        BY <3>2, <4>2 DEF Move, TypeOK
      <4> QED
        BY <3>5, <4>1, <4>2 DEF CountArtifacts
    <3>6. CASE Anonymize(v)
      <4>1. CASE AnonymizeDeletedUser(cur[v]) /\ Move(v, "complete")
        <5>1. user'[cur[v]] = "erased"
          BY <3>1, <3>6, <4>1 DEF Anonymize, AnonymizeDeletedUser, TypeOK
        <5> QED
          BY <3>1, <3>2, <3>6, <4>1, <5>1 DEF Anonymize, Move, TypeOK, RowsGone, RecordsGone
      <4>2. CASE Move(v, "fail")
        BY <3>2, <4>2 DEF Move, TypeOK
      <4> QED
        BY <3>6, <4>1, <4>2 DEF Anonymize
    <3> QED
      BY <1>7, <2>2, <3>3, <3>4, <3>5, <3>6
  <2> QED
    BY <1>4, <2>1, <2>2
<1>8. ASSUME NEW w \in Workers, MarkCompleted(w) \/ MarkFailed(w)
      PROVE  Stage(v)'
  <2>1. \A u \in Workers \ {w} : cur'[u] = cur[u] /\ at'[u] = at[u]
    BY <1>8 DEF MarkCompleted, MarkFailed, Move, TypeOK
  <2>2. CASE w = v
    <3>1. cur'[v] = cur[v] /\ at'[v] = "fail"
      BY <1>1, <1>8, <2>2 DEF MarkCompleted, MarkFailed, Move, TypeOK
    <3> QED
      BY <1>1, <1>2, <3>1 DEF Progress
  <2> QED
    BY <1>4, <2>1, <2>2
<1>9. ClientStep \/ LoseLock \/ UNCHANGED vars => Stage(v)'
  BY <1>3, ClientsLeaveRuns DEF LoseLock, vars
<1> HIDE DEF Stage
<1> QED
  BY <1>5, <1>6, <1>7, <1>8, <1>9, <1>3, Cases DEF PurgeBlob, PurgeRow

\* A certificate is issued at the end of those steps, and stays true.
LEMMA CertifiedStep ==
  ASSUME TypeOK, Engaged, Settled, Progress, Certified, [Next]_vars
  PROVE  Certified'
<1>1. SUFFICES ASSUME NEW a \in Accounts, job'[a] = "completed"
               PROVE  (a \in eligible /\ user[a] = "erased" /\ RecordsGone(a) /\ RowsGone(a))'
  BY DEF Certified
<1>2. a \in eligible /\ user[a] = "erased" /\ RecordsGone(a) /\ RowsGone(a)
  <2>1. CASE job[a] = "completed"
    BY <2>1 DEF Certified
  <2>2. CASE job[a] # "completed"
    <3>1. \E w \in Workers : at[w] = "complete" /\ cur[w] = a
      <4>1. ASSUME NEW w \in Workers, MarkCompleted(w)
            PROVE  at[w] = "complete" /\ cur[w] = a
        BY <1>1, <2>2, <4>1 DEF MarkCompleted, SetJob, TypeOK
      <4>2. ~ClientStep
        BY <1>1, <2>2
           DEF ClientStep, RequestStep, BeginDelete, DeleteAccount, PassGrace, BeginRequest,
               RegisterDevice, CreateRow, PutBlob, PutFails, CrashRequest, TypeOK
      <4>3. \A w \in Workers : ~MarkFailed(w) /\ ~\E b \in Accounts : MarkRunning(w, b)
        BY <1>1, <2>2 DEF MarkFailed, MarkRunning, SetJob, TypeOK
      <4> QED
        BY <1>1, <2>2, <4>1, <4>2, <4>3, Cases, ListingLeavesTables
           DEF PurgeBlob, PurgeRow, CheckUser, WipeRecords, CountArtifacts, Anonymize, LoseLock, vars
    <3> QED
      BY <3>1, ConstantsAssumption DEF Progress
  <2> QED
    BY <2>1, <2>2
<1> QED
  BY <1>2, ClosedForGood

\* A row goes after its blob, and a blob that is there without its row is noted.
LEMMA TrackedStep ==
  ASSUME TypeOK, Tracked, [Next]_vars
  PROVE  Tracked'
<1> USE DEF TypeOK, Tracked
<1>1. CASE UNCHANGED <<row, blob, stray>>
  BY <1>1
<1>2. ASSUME NEW a \in Accounts, DeleteAccount(a)
      PROVE  Tracked'
  <2>1. \A k \in Keys : row'[k] = "none" => row[k] = "none"
    BY <1>2 DEF DeleteAccount, Statement, SoftDeleteAllByUser
  <2> QED
    BY <1>2, <2>1 DEF DeleteAccount
<1>3. ASSUME NEW a \in Accounts, PassGrace(a)
      PROVE  Tracked'
  BY <1>3 DEF PassGrace
<1>4. ASSUME NEW r \in Requests, CreateRow(r)
      PROVE  Tracked'
  BY <1>4 DEF CreateRow
<1>5. ASSUME NEW r \in Requests, PutBlob(r)
      PROVE  Tracked'
  BY <1>5 DEF PutBlob
<1>6. ASSUME NEW r \in Requests, PutFails(r)
      PROVE  Tracked'
  BY <1>6 DEF PutFails
<1>7. ASSUME NEW w \in Workers, NEW k \in Keys, PurgeBlob(w, k) \/ PurgeRow(w, k)
      PROVE  Tracked'
  BY <1>7 DEF PurgeBlob, PurgeRow
<1> HIDE DEF TypeOK, Tracked
<1> QED
  BY <1>1, <1>2, <1>3, <1>4, <1>5, <1>6, <1>7, Cases, ListingLeavesTables
     DEF ClientStep, RequestStep, BeginDelete, BeginRequest, RegisterDevice, CrashRequest,
         MarkRunning, CheckUser, WipeRecords, CountArtifacts, Anonymize, MarkCompleted,
         MarkFailed, LoseLock, vars

-----------------------------------------------------------------------------
(***************************************************************************)
(* Theorems                                                                *)
(***************************************************************************)
LEMMA InitIInv == Init => IInv
<1> SUFFICES ASSUME Init PROVE IInv
  OBVIOUS
<1>1. TypeOK
  BY ConstantsAssumption DEF Init, TypeOK
<1>2. Engaged /\ OneRunPerJob /\ Progress
  BY DEF Init, Engaged, OneRunPerJob, Progress, Serving
<1>3. Settled /\ Certified /\ Tracked
  BY DEF Init, Settled, Certified, Tracked
<1> QED
  BY <1>1, <1>2, <1>3 DEF IInv

LEMMA NextIInv == IInv /\ [Next]_vars => IInv'
BY TypeStep, EngagedStep, OneRunPerJobStep, SettledStep, ProgressStep, CertifiedStep, TrackedStep
   DEF IInv

LEMMA Inductive == Spec => []IInv
<1> USE InitIInv, NextIInv
<1> HIDE DEF IInv, Init, Next, vars
<1> QED
  BY PTL DEF Spec

\* Every variable keeps its type, whatever the deletions, requests and workers do.
THEOREM TypeCorrect == Spec => []TypeOK
<1>1. IInv => TypeOK
  BY DEF IInv
<1> QED
  BY <1>1, Inductive, PTL

\* The conditional update of MarkRunning is gate enough: whatever locks are lost,
\* workers interrupted and marks overwritten, a job has at most one worker.
THEOREM OneRun == Spec => []OneRunPerJob
<1>1. IInv => OneRunPerJob
  BY DEF IInv
<1> QED
  BY <1>1, Inductive, PTL

\* The certificate of a completed erasure is true when it is issued and for ever
\* after: user anonymised, records and rows gone, no blob but those lost track of.
THEOREM CertificateHolds == Spec => []CertificateIsTrue
<1>1. ASSUME IInv, NEW a \in Accounts, job[a] = "completed"
      PROVE  /\ user[a] = "erased"
             /\ \A x \in Records : rec[a][x] = "gone"
             /\ \A i \in Items : row[<<a, i>>] = "none"
             /\ \A i \in Items : <<a, i>> \in blob => <<a, i>> \in stray
  <2>1. user[a] = "erased" /\ RecordsGone(a) /\ RowsGone(a)
    BY <1>1 DEF IInv, Certified
  <2>2. \A i \in Items : <<a, i>> \in Keys
    BY DEF Keys
  <2> QED
    BY <1>1, <2>1, <2>2 DEF IInv, Tracked, RecordsGone, RowsGone
<1>2. IInv => CertificateIsTrue
  BY <1>1 DEF CertificateIsTrue
<1> QED
  BY <1>2, Inductive, PTL

\* A user who is still active loses nothing to the erasure runs: completeErasureJob
\* gets past its first check for deleted users only, and nobody is undeleted.
THEOREM ActiveSpared == Spec => ActiveIsSpared
<1> DEFINE Spared ==
      \A a \in Accounts : user[a] = "active" =>
        /\ user'[a] # "erased"
        /\ \A x \in Records : rec'[a][x] = "gone" /\ rec[a][x] # "gone" => del[a] = x
<1>1. ASSUME IInv, [Next]_vars
      PROVE  Spared
  <2> USE <1>1 DEF IInv, TypeOK
  <2>1. CASE UNCHANGED <<user, rec>>
    BY <2>1
  <2>2. ASSUME NEW a \in Accounts, DeleteAccount(a)
        PROVE  Spared
    <3>1. CASE UNCHANGED <<user, rec>>
      BY <3>1
    <3>2. CASE Statement(a)
      BY <3>2 DEF Statement, SetRecord
    <3> QED
      BY <2>2, <3>1, <3>2 DEF DeleteAccount
  <2>3. ASSUME NEW r \in Requests, RegisterDevice(r)
        PROVE  Spared
    BY <2>3 DEF RegisterDevice, SetRecord
  <2>4. ASSUME NEW w \in Workers, WipeRecords(w)
        PROVE  Spared
    <3>1. cur[w] # NoOne /\ user[cur[w]] # "active"
      BY <2>4 DEF WipeRecords, Engaged, Progress, Serving
    <3>2. \A a \in Accounts \ {cur[w]} : rec'[a] = rec[a]
      BY <2>4 DEF WipeRecords, Wiped
    <3> QED
      BY <2>4, <3>1, <3>2 DEF WipeRecords
  <2>5. ASSUME NEW w \in Workers, Anonymize(w)
        PROVE  Spared
    BY <2>5 DEF Anonymize, AnonymizeDeletedUser
  <2> HIDE DEF Spared
  <2> QED
    BY <2>1, <2>2, <2>3, <2>4, <2>5, Cases, ListingLeavesTables
       DEF ClientStep, RequestStep, BeginDelete, PassGrace, BeginRequest, CreateRow, PutBlob,
           PutFails, CrashRequest, PurgeBlob, PurgeRow, MarkRunning, CheckUser, CountArtifacts,
           MarkCompleted, MarkFailed, LoseLock, vars
<1>2. IInv /\ [Next]_vars => [Spared]_vars
  BY <1>1
<1> HIDE DEF Spared
<1>3. Spec => [][Spared]_vars
  BY <1>2, Inductive, PTL DEF Spec
<1> QED
  BY <1>3 DEF ActiveIsSpared, Spared

=============================================================================
