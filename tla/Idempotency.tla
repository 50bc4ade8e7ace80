----------------------------- MODULE Idempotency -----------------------------
(***************************************************************************)
(* ExecuteIdempotent: a mutation guarded by an idempotency record.  The    *)
(* claim is one transaction; the mutation and the marking of its outcome   *)
(* are separate steps, and the marks are keyed by record id alone.         *)
(***************************************************************************)
EXTENDS FiniteSets

CONSTANTS
  Keys,       \* (scope, key hash) pairs
  Prints,     \* request fingerprints
  Requests,   \* concurrent executions, and the responses they compute
  NoResponse, \* response_status IS NULL
  ShortLocks, \* may locked_until pass while the mutation still runs?
  Failing,    \* calls that may report an error, whether they took effect or not
  Crashes     \* may the executing process stop?

ASSUME ConstantsAssumption ==
  /\ NoResponse \notin Requests
  /\ ShortLocks \in BOOLEAN
  /\ Crashes \in BOOLEAN
  /\ Failing \subseteq {"markSucceeded", "markFailed", "encode"}

VARIABLES
  rec,     \* idempotency_records
  req,     \* the requests being served
  answers, \* history: the responses returned as successes, per key
  effects  \* history: requests whose mutation has been applied, per key

vars == <<rec, req, answers, effects>>

NoRecord == [status |-> "none"]
Idle == [pc |-> "idle"]

Record ==
  [status : {"processing", "succeeded", "failed"}, print : Prints,
   locked : {"null", "future", "past"}, response : Requests \cup {NoResponse}]

TypeOK ==
  /\ rec \in [Keys -> {NoRecord} \cup Record]
  /\ req \in [Requests -> {Idle} \cup
                [pc : {"run", "succeed", "fail"}, key : Keys, print : Prints]]
  /\ answers \in [Keys -> SUBSET Requests]
  /\ effects \in [Keys -> SUBSET Requests]

Init ==
  /\ rec = [k \in Keys |-> NoRecord]
  /\ req = [r \in Requests |-> Idle]
  /\ answers = [k \in Keys |-> {}]
  /\ effects = [k \in Keys |-> {}]

Runs(r, k) == req[r].pc # "idle" /\ req[r].key = k

-----------------------------------------------------------------------------
(***************************************************************************)
(* Claim                                                                   *)
(***************************************************************************)
\* insertProcessingIdempotency and reclaimIdempotency write the same columns.
Processing(p) ==
  [status |-> "processing", print |-> p, locked |-> "future",
   response |-> NoResponse]

Start(r, k, p) ==
  /\ rec' = [rec EXCEPT ![k] = Processing(p)]
  /\ req' = [req EXCEPT ![r] = [pc |-> "run", key |-> k, print |-> p]]

ClaimInserted(r, k, p) ==
  /\ req[r].pc = "idle"
  /\ rec[k].status = "none"
  /\ Start(r, k, p)
  /\ UNCHANGED <<answers, effects>>

Matches(k, p) == rec[k].status # "none" /\ rec[k].print = p

\* Mutants: no lock at all, a comparison the wrong way round, and a lock that
\* never elapses.
NeverLocked(k) == FALSE
LockedWhenPast(k) == rec[k].status = "processing" /\ rec[k].locked = "past"
AlwaysLocked(k) == rec[k].status = "processing"

StillLocked(k) == rec[k].status = "processing" /\ rec[k].locked = "future"

\* Mutant: a record that has succeeded is claimed again.
ReclaimAnything(r, k, p) ==
  /\ req[r].pc = "idle"
  /\ Matches(k, p)
  /\ ~StillLocked(k)
  /\ Start(r, k, p)
  /\ UNCHANGED <<answers, effects>>

ClaimReclaimed(r, k, p) ==
  /\ req[r].pc = "idle"
  /\ Matches(k, p)
  /\ rec[k].status # "succeeded"
  /\ ~StillLocked(k)
  /\ Start(r, k, p)
  /\ UNCHANGED <<answers, effects>>

\* Mutant: the status is not looked at.
ReplayAnything(r, k, p) ==
  /\ req[r].pc = "idle"
  /\ Matches(k, p)
  /\ answers' = [answers EXCEPT ![k] = @ \cup {rec[k].response}]
  /\ UNCHANGED <<rec, req, effects>>

\* The stored response is decoded and returned.  The other two outcomes, a
\* fingerprint conflict and a request still processing, change nothing.
ClaimReplayed(r, k, p) ==
  /\ req[r].pc = "idle"
  /\ Matches(k, p)
  /\ rec[k].status = "succeeded"
  /\ answers' = [answers EXCEPT ![k] = @ \cup {rec[k].response}]
  /\ UNCHANGED <<rec, req, effects>>

-----------------------------------------------------------------------------
(***************************************************************************)
(* execute, then MarkSucceeded or MarkFailed                               *)
(***************************************************************************)
Execute(r) ==
  /\ req[r].pc = "run"
  /\ \/ /\ effects' = [effects EXCEPT ![req[r].key] = @ \cup {r}]
        /\ \E pc \in {"succeed"} \cup
                     (IF "encode" \in Failing THEN {"fail"} ELSE {}) :
             req' = [req EXCEPT ![r].pc = pc]
     \/ req' = [req EXCEPT ![r].pc = "fail"] /\ UNCHANGED effects
  /\ UNCHANGED <<rec, answers>>

MarkSucceeded(r) ==
  /\ req[r].pc = "succeed"
  /\ LET k == req[r].key
     IN  \/ /\ rec' = [rec EXCEPT ![k].status = "succeeded",
                                  ![k].locked = "null", ![k].response = r]
            /\ \/ answers' = [answers EXCEPT ![k] = @ \cup {r}]
               \/ "markSucceeded" \in Failing /\ UNCHANGED answers
         \/ "markSucceeded" \in Failing /\ UNCHANGED <<rec, answers>>
  /\ req' = [req EXCEPT ![r] = Idle]
  /\ UNCHANGED effects

MarkFailed(r) ==
  /\ req[r].pc = "fail"
  /\ LET k == req[r].key
     IN  \/ rec' = [rec EXCEPT ![k].status = "failed", ![k].locked = "null"]
         \/ "markFailed" \in Failing /\ UNCHANGED rec
  /\ req' = [req EXCEPT ![r] = Idle]
  /\ UNCHANGED <<answers, effects>>

Crash(r) ==
  /\ Crashes
  /\ req[r].pc # "idle"
  /\ req' = [req EXCEPT ![r] = Idle]
  /\ UNCHANGED <<rec, answers, effects>>

\* Time passes locked_until (30 seconds after the claim by default).
LockElapses(k) ==
  /\ rec[k].status # "none" /\ rec[k].locked = "future"
  /\ ShortLocks \/ ~\E r \in Requests : Runs(r, k)
  /\ rec' = [rec EXCEPT ![k].locked = "past"]
  /\ UNCHANGED <<req, answers, effects>>

-----------------------------------------------------------------------------
Claim(r) ==
  \E k \in Keys, p \in Prints :
    ClaimInserted(r, k, p) \/ ClaimReclaimed(r, k, p) \/ ClaimReplayed(r, k, p)

Retry(k) ==
  \E r \in Requests, p \in Prints :
    ClaimReclaimed(r, k, p) \/ ClaimReplayed(r, k, p)

Serve(r) == Execute(r) \/ MarkSucceeded(r) \/ MarkFailed(r)

Next ==
  \/ \E r \in Requests : Claim(r) \/ Serve(r) \/ Crash(r)
  \/ \E k \in Keys : LockElapses(k)

Spec == Init /\ [][Next]_vars

(***************************************************************************)
(* A request being served runs on and time passes.  A client retries its   *)
(* key, now and then, with the payload it first sent.                      *)
(***************************************************************************)
Fairness ==
  /\ \A r \in Requests : WF_vars(Serve(r))
  /\ \A k \in Keys : WF_vars(LockElapses(k))
  /\ \A k \in Keys : WF_vars(Retry(k))

FairSpec == Spec /\ Fairness

-----------------------------------------------------------------------------
(***************************************************************************)
(* Properties                                                              *)
(***************************************************************************)

\* "Successful responses are stored as JSON and replayed": all the callers of
\* a key that are told it succeeded are given one and the same response.
SameAnswer == \A k \in Keys : \A x, y \in answers[k] : x = y

\* One mutation at a time runs under a key, on the payload the record's
\* fingerprint was taken from.
ExclusiveRun ==
  \A k \in Keys : \A r, s \in Requests :
    Runs(r, k) /\ Runs(s, k) =>
      /\ r = s
      /\ rec[k].status = "processing"
      /\ rec[k].print = req[r].print

\* A mutation that was applied, and whose caller was told so, is not applied
\* again by a later request with the key.
NoEffectAfterAnswer ==
  [][\A k \in Keys : answers[k] # {} => effects'[k] = effects[k]]_vars

\* A record is not stuck: whatever crashed while processing it, the retries
\* of a client get through to a verdict on the mutation again and again.
StuckRecord(k) == rec[k].status = "processing" /\ ~\E r \in Requests : Runs(r, k)

RetryGetsThrough == \A k \in Keys : StuckRecord(k) ~> ~StuckRecord(k)

\* The abstract promise.
Phase(k) ==
  IF rec[k].status = "succeeded" THEN "done"
  ELSE IF \E r \in Requests : Runs(r, k) THEN "busy" ELSE "open"

Abstract == INSTANCE AtMostOnce WITH
  Results <- Requests,
  NoResult <- NoResponse,
  phase <- [k \in Keys |-> Phase(k)],
  result <- [k \in Keys |-> IF rec[k].status = "succeeded" THEN rec[k].response
                            ELSE NoResponse]

ImplementsAtMostOnce == Abstract!Spec

=============================================================================
