-------------------------- MODULE IdempotencyProofs --------------------------
(***************************************************************************)
(* Proofs about Idempotency, for every set of keys, fingerprints and       *)
(* requests.  They assume that the lock outlives the mutation it guards    *)
(* (~ShortLocks): run short_lock shows that the promise fails without it.  *)
(***************************************************************************)
EXTENDS Idempotency, TLAPS

(***************************************************************************)
(* The inductive invariant.  A request that runs has the record to itself: *)
(* the record is being processed, its lock is in the future, and no other  *)
(* request runs.  An answer has been given only for a record that has      *)
(* succeeded, and it is the response stored there.                         *)
(***************************************************************************)
RunnerHoldsLock ==
  \A r \in Requests : req[r].pc # "idle" =>
    /\ rec[req[r].key].status = "processing"
    /\ rec[req[r].key].locked = "future"
    /\ rec[req[r].key].print = req[r].print

OneRunner ==
  \A r, s \in Requests :
    req[r].pc # "idle" /\ req[s].pc # "idle" /\ req[r].key = req[s].key => r = s

AnswerIsStored ==
  \A k \in Keys :
    /\ \A x \in answers[k] : rec[k].status = "succeeded" /\ rec[k].response = x
    /\ rec[k].status = "succeeded" => rec[k].response \in Requests

IInv == TypeOK /\ RunnerHoldsLock /\ OneRunner /\ AnswerIsStored

\* The initial states satisfy the invariant.
LEMMA InitInv == Init => IInv
  BY DEF Init, IInv, TypeOK, RunnerHoldsLock, OneRunner, AnswerIsStored,
         NoRecord, Idle

\* The record written by a claim, and the request that made it.
LEMMA StartInv ==
  ASSUME IInv, NEW r \in Requests, NEW k \in Keys, NEW p \in Prints,
         req[r].pc = "idle", rec[k].status # "succeeded", ~StillLocked(k),
         Start(r, k, p), UNCHANGED <<answers, effects>>
  PROVE  IInv'
<1> USE DEF IInv
<1>1. Processing(p) \in Record
  BY DEF Processing, Record
<1>2. TypeOK'
  BY <1>1 DEF TypeOK, Start
<1>3. \A s \in Requests : req[s].pc # "idle" => req[s].key # k
  BY DEF RunnerHoldsLock, StillLocked
<1>4. RunnerHoldsLock'
  BY <1>3 DEF RunnerHoldsLock, Start, TypeOK, Processing, Idle
<1>5. OneRunner'
  BY <1>3 DEF OneRunner, Start, TypeOK, Idle
<1>6. AnswerIsStored'
  BY DEF AnswerIsStored, Start, TypeOK, Processing
<1>7. QED
  BY <1>2, <1>4, <1>5, <1>6

\* A request that stops running leaves the other requests undisturbed.
LEMMA StopInv ==
  ASSUME IInv, NEW r \in Requests, req[r].pc # "idle",
         req' = [req EXCEPT ![r] = Idle],
         \A j \in Keys : j # req[r].key => rec'[j] = rec[j]
  PROVE  RunnerHoldsLock' /\ OneRunner'
  BY DEF IInv, TypeOK, RunnerHoldsLock, OneRunner, Idle

\* Every step preserves the invariant.
LEMMA StepInv ==
  ASSUME ~ShortLocks, IInv, [Next]_vars
  PROVE  IInv'
<1>1. CASE UNCHANGED vars
  BY <1>1 DEF IInv, TypeOK, RunnerHoldsLock, OneRunner, AnswerIsStored, vars
<1>2. ASSUME NEW r \in Requests, NEW k \in Keys, NEW p \in Prints,
             ClaimInserted(r, k, p)
      PROVE  IInv'
  BY <1>2, StartInv DEF ClaimInserted, StillLocked
<1>3. ASSUME NEW r \in Requests, NEW k \in Keys, NEW p \in Prints,
             ClaimReclaimed(r, k, p)
      PROVE  IInv'
  BY <1>3, StartInv DEF ClaimReclaimed
<1>4. ASSUME NEW r \in Requests, NEW k \in Keys, NEW p \in Prints,
             ClaimReplayed(r, k, p)
      PROVE  IInv'
  BY <1>4 DEF ClaimReplayed, IInv, TypeOK, RunnerHoldsLock, OneRunner,
              AnswerIsStored
<1>5. ASSUME NEW r \in Requests, Execute(r)
      PROVE  IInv'
  <2>1. TypeOK'
    BY <1>5 DEF Execute, IInv, TypeOK, Idle
  <2>2. RunnerHoldsLock' /\ OneRunner' /\ AnswerIsStored'
    BY <1>5 DEF Execute, IInv, TypeOK, RunnerHoldsLock, OneRunner,
                AnswerIsStored, Idle
  <2>3. QED
    BY <2>1, <2>2 DEF IInv
<1>6. ASSUME NEW r \in Requests, MarkSucceeded(r)
      PROVE  IInv'
  <2> DEFINE k == req[r].key
  <2>1. k \in Keys /\ rec[k] \in Record /\ rec[k].status = "processing"
    BY <1>6 DEF MarkSucceeded, IInv, TypeOK, RunnerHoldsLock, Idle, NoRecord
  <2>2. TypeOK'
    BY <1>6, <2>1 DEF MarkSucceeded, IInv, TypeOK, Record
  <2>3. RunnerHoldsLock' /\ OneRunner'
    BY <1>6, <2>1, StopInv DEF MarkSucceeded, IInv, TypeOK
  <2>4. AnswerIsStored'
    BY <1>6, <2>1 DEF MarkSucceeded, IInv, TypeOK, AnswerIsStored, Record
  <2>5. QED
    BY <2>2, <2>3, <2>4 DEF IInv
<1>7. ASSUME NEW r \in Requests, MarkFailed(r)
      PROVE  IInv'
  <2> DEFINE k == req[r].key
  <2>1. k \in Keys /\ rec[k] \in Record /\ rec[k].status = "processing"
    BY <1>7 DEF MarkFailed, IInv, TypeOK, RunnerHoldsLock, Idle, NoRecord
  <2>2. TypeOK'
    BY <1>7, <2>1 DEF MarkFailed, IInv, TypeOK, Record
  <2>3. RunnerHoldsLock' /\ OneRunner'
    BY <1>7, <2>1, StopInv DEF MarkFailed, IInv, TypeOK
  <2>4. AnswerIsStored'
    BY <1>7, <2>1 DEF MarkFailed, IInv, TypeOK, AnswerIsStored, Record
  <2>5. QED
    BY <2>2, <2>3, <2>4 DEF IInv
<1>8. ASSUME NEW r \in Requests, Crash(r)
      PROVE  IInv'
  <2>1. TypeOK' /\ AnswerIsStored'
    BY <1>8 DEF Crash, IInv, TypeOK, AnswerIsStored
  <2>2. RunnerHoldsLock' /\ OneRunner'
    BY <1>8, StopInv DEF Crash
  <2>3. QED
    BY <2>1, <2>2 DEF IInv
<1>9. ASSUME NEW k \in Keys, LockElapses(k)
      PROVE  IInv'
  <2>1. rec[k] \in Record
    BY <1>9 DEF LockElapses, IInv, TypeOK, AnswerIsStored, NoRecord
  <2>2. TypeOK'
    BY <1>9, <2>1 DEF LockElapses, IInv, TypeOK, Record
  <2>3. \A r \in Requests : req[r].pc # "idle" => req[r].key # k
    BY <1>9 DEF LockElapses, Runs
  <2>4. RunnerHoldsLock' /\ OneRunner' /\ AnswerIsStored'
    BY <1>9, <2>1, <2>3 DEF LockElapses, IInv, TypeOK, RunnerHoldsLock,
                            OneRunner, AnswerIsStored, Record, Idle
  <2>5. QED
    BY <2>2, <2>4 DEF IInv
<1>10. QED
  BY <1>1, <1>2, <1>3, <1>4, <1>5, <1>6, <1>7, <1>8, <1>9 DEF Next, Claim, Serve

\* The invariant holds in every reachable state.
THEOREM Invariance ==
  ASSUME ~ShortLocks
  PROVE  Spec => []IInv
<1>1. IInv /\ [Next]_vars => IInv'
  BY StepInv
<1>2. QED
  BY InitInv, <1>1, PTL DEF Spec

\* ExecuteIdempotent keeps its state well formed.
THEOREM TypeCorrect ==
  ASSUME ~ShortLocks
  PROVE  Spec => []TypeOK
<1>1. IInv => TypeOK
  BY DEF IInv
<1>2. QED
  BY <1>1, Invariance, PTL

\* All the callers of a key that are told it succeeded get one response.
THEOREM AnswersAgree ==
  ASSUME ~ShortLocks
  PROVE  Spec => []SameAnswer
<1>1. IInv => SameAnswer
  BY DEF IInv, AnswerIsStored, SameAnswer
<1>2. QED
  BY <1>1, Invariance, PTL

\* One mutation at a time runs under a key, on the fingerprinted payload.
THEOREM RunsExclude ==
  ASSUME ~ShortLocks
  PROVE  Spec => []ExclusiveRun
<1>1. IInv => ExclusiveRun
  BY DEF IInv, RunnerHoldsLock, OneRunner, ExclusiveRun, Runs
<1>2. QED
  BY <1>1, Invariance, PTL

\* A mutation whose caller was told it succeeded is not applied again.
THEOREM NoSecondEffect ==
  ASSUME ~ShortLocks
  PROVE  Spec => NoEffectAfterAnswer
<1> DEFINE A == \A k \in Keys : answers[k] # {} => effects'[k] = effects[k]
<1>1. IInv /\ [Next]_vars => [A]_vars
  <2> SUFFICES ASSUME IInv, Next, NEW k \in Keys, answers[k] # {}
               PROVE  effects'[k] = effects[k]
    OBVIOUS
  <2>1. ASSUME NEW r \in Requests, Execute(r)
        PROVE  effects'[k] = effects[k]
    <3>1. req[r].key # k
      BY <2>1 DEF Execute, IInv, RunnerHoldsLock, AnswerIsStored
    <3>2. QED
      BY <2>1, <3>1 DEF Execute, IInv, TypeOK
  <2>2. QED
    BY <2>1 DEF Next, Claim, Serve, ClaimInserted, ClaimReclaimed, ClaimReplayed,
                MarkSucceeded, MarkFailed, Crash, LockElapses
<1>2. QED
  BY <1>1, Invariance, PTL DEF Spec, NoEffectAfterAnswer

-----------------------------------------------------------------------------
(***************************************************************************)
(* Idempotency implements AtMostOnce.                                      *)
(***************************************************************************)
Busy(k) == \E r \in Requests : Runs(r, k)

\* The initial states are initial states of AtMostOnce.
LEMMA InitRefines == Init => Abstract!Init
  BY DEF Init, Abstract!Init, Phase, Runs, NoRecord, Idle

\* A claim is the beginning of an attempt.
LEMMA StartRefines ==
  ASSUME IInv, NEW r \in Requests, NEW k \in Keys, NEW p \in Prints,
         req[r].pc = "idle", rec[k].status # "succeeded", ~StillLocked(k),
         Start(r, k, p)
  PROVE  Abstract!Begin(k)
<1>1. ~Busy(k)
  BY DEF IInv, RunnerHoldsLock, StillLocked, Runs, Busy
<1>2. Busy(k)'
  BY DEF IInv, TypeOK, Start, Runs, Busy
<1>3. \A j \in Keys \ {k} : Busy(j)' <=> Busy(j)
  BY DEF IInv, TypeOK, Start, Runs, Busy
<1>4. \A j \in Keys \ {k} : rec'[j] = rec[j]
  BY DEF IInv, TypeOK, Start
<1>5. rec'[k].status = "processing"
  BY DEF IInv, TypeOK, Start, Processing
<1>6. Phase(k) = "open" /\ Phase(k)' = "busy"
  BY <1>1, <1>2, <1>5 DEF Phase, Busy
<1>7. \A j \in Keys \ {k} : Phase(j)' = Phase(j)
  BY <1>3, <1>4 DEF Phase, Busy
<1>8. QED
  BY <1>4, <1>5, <1>6, <1>7 DEF Abstract!Begin

\* When r stops running its key is no longer busy, and the others are as before.
LEMMA StopRefines ==
  ASSUME IInv, NEW r \in Requests, NEW k \in Keys, Runs(r, k),
         req' = [req EXCEPT ![r] = Idle]
  PROVE  /\ Busy(k) /\ ~Busy(k)'
         /\ \A j \in Keys \ {k} : Busy(j)' <=> Busy(j)
  BY DEF IInv, TypeOK, OneRunner, Runs, Busy, Idle

\* An attempt whose request stops and whose record has not succeeded.
LEMMA AbandonRefines ==
  ASSUME IInv, NEW r \in Requests, NEW k \in Keys, Runs(r, k),
         req' = [req EXCEPT ![r] = Idle],
         \A j \in Keys \ {k} : rec'[j] = rec[j],
         rec'[k].status # "succeeded"
  PROVE  Abstract!Abandon(k)
<1>1. rec[k].status = "processing"
  BY DEF IInv, RunnerHoldsLock, Runs
<1>2. Phase(k) = "busy" /\ Phase(k)' = "open"
  BY <1>1, StopRefines DEF Phase, Busy
<1>3. \A j \in Keys \ {k} : Phase(j)' = Phase(j)
  BY StopRefines DEF Phase, Busy
<1>4. QED
  BY <1>1, <1>2, <1>3 DEF Abstract!Abandon

\* Every step is a step of AtMostOnce or leaves its variables unchanged.
LEMMA StepRefines ==
  ASSUME ~ShortLocks, IInv, [Next]_vars
  PROVE  [Abstract!Next]_Abstract!vars
<1>1. CASE UNCHANGED vars
  BY <1>1 DEF vars, Abstract!vars, Phase, Runs
<1>2. ASSUME NEW r \in Requests, NEW k \in Keys, NEW p \in Prints,
             ClaimInserted(r, k, p)
      PROVE  Abstract!Next
  BY <1>2, StartRefines DEF ClaimInserted, StillLocked, Abstract!Next
<1>3. ASSUME NEW r \in Requests, NEW k \in Keys, NEW p \in Prints,
             ClaimReclaimed(r, k, p)
      PROVE  Abstract!Next
  BY <1>3, StartRefines DEF ClaimReclaimed, Abstract!Next
<1>4. ASSUME NEW r \in Requests, NEW k \in Keys, NEW p \in Prints,
             ClaimReplayed(r, k, p)
      PROVE  UNCHANGED Abstract!vars
  BY <1>4 DEF ClaimReplayed, Abstract!vars, Phase, Runs
<1>5. ASSUME NEW r \in Requests, Execute(r)
      PROVE  UNCHANGED Abstract!vars
  <2>1. \A s \in Requests, k \in Keys : Runs(s, k)' <=> Runs(s, k)
    BY <1>5 DEF Execute, Runs, IInv, TypeOK, Idle
  <2>2. QED
    BY <1>5, <2>1 DEF Execute, Abstract!vars, Phase
<1>6. ASSUME NEW r \in Requests, MarkSucceeded(r)
      PROVE  Abstract!Next
  <2>1. PICK k \in Keys : Runs(r, k)
    BY <1>6 DEF MarkSucceeded, Runs, IInv, TypeOK, Idle
  <2>2. rec[k] \in Record /\ rec[k].status = "processing"
    BY <2>1 DEF Runs, IInv, TypeOK, RunnerHoldsLock, NoRecord
  <2>3. CASE UNCHANGED rec
    BY <1>6, <2>1, <2>2, <2>3, AbandonRefines DEF MarkSucceeded, Abstract!Next
  <2>4. CASE rec' = [rec EXCEPT ![k].status = "succeeded",
                                ![k].locked = "null", ![k].response = r]
    <3>1. rec'[k].status = "succeeded" /\ rec'[k].response = r
      BY <2>2, <2>4 DEF IInv, TypeOK, Record
    <3>2. \A j \in Keys \ {k} : rec'[j] = rec[j]
      BY <2>4 DEF IInv, TypeOK
    <3>3. Phase(k) = "busy" /\ Phase(k)' = "done"
      BY <1>6, <2>1, <2>2, <3>1, StopRefines DEF Phase, Busy, MarkSucceeded
    <3>4. \A j \in Keys \ {k} : Phase(j)' = Phase(j)
      BY <1>6, <2>1, <3>2, StopRefines DEF Phase, Busy, MarkSucceeded
    <3>5. Abstract!Succeed(k, r)
      BY <3>1, <3>2, <3>3, <3>4 DEF Abstract!Succeed
    <3>6. QED
      BY <3>5 DEF Abstract!Next
  <2>5. QED
    BY <1>6, <2>1, <2>3, <2>4 DEF MarkSucceeded, Runs
<1>7. ASSUME NEW r \in Requests, MarkFailed(r)
      PROVE  Abstract!Next
  <2>1. PICK k \in Keys : Runs(r, k)
    BY <1>7 DEF MarkFailed, Runs, IInv, TypeOK, Idle
  <2>2. rec[k] \in Record /\ rec[k].status = "processing"
    BY <2>1 DEF Runs, IInv, TypeOK, RunnerHoldsLock, NoRecord
  <2>3. rec'[k].status # "succeeded" /\ \A j \in Keys \ {k} : rec'[j] = rec[j]
    BY <1>7, <2>1, <2>2 DEF MarkFailed, Runs, IInv, TypeOK, Record
  <2>4. QED
    BY <1>7, <2>1, <2>3, AbandonRefines DEF MarkFailed, Abstract!Next
<1>8. ASSUME NEW r \in Requests, Crash(r)
      PROVE  Abstract!Next
  <2>1. PICK k \in Keys : Runs(r, k)
    BY <1>8 DEF Crash, Runs, IInv, TypeOK, Idle
  <2>2. rec[k].status = "processing"
    BY <2>1 DEF Runs, IInv, RunnerHoldsLock
  <2>3. QED
    BY <1>8, <2>1, <2>2, AbandonRefines DEF Crash, Abstract!Next
<1>9. ASSUME NEW k \in Keys, LockElapses(k)
      PROVE  UNCHANGED Abstract!vars
  <2>1. rec[k] \in Record
    BY <1>9 DEF LockElapses, IInv, TypeOK, AnswerIsStored, NoRecord
  <2>2. \A j \in Keys : /\ rec'[j].status = rec[j].status
                        /\ rec[j].status = "succeeded" =>
                             rec'[j].response = rec[j].response
    BY <1>9, <2>1 DEF LockElapses, IInv, TypeOK, Record
  <2>3. QED
    BY <1>9, <2>2 DEF LockElapses, Abstract!vars, Phase, Runs
<1>10. QED
  BY <1>1, <1>2, <1>3, <1>4, <1>5, <1>6, <1>7, <1>8, <1>9 DEF Next, Claim, Serve

\* ExecuteIdempotent implements the abstract promise of an idempotency key.
THEOREM Refinement ==
  ASSUME ~ShortLocks
  PROVE  Spec => ImplementsAtMostOnce
<1>1. IInv /\ [Next]_vars => [Abstract!Next]_Abstract!vars
  BY StepRefines
<1>2. QED
  BY InitRefines, <1>1, Invariance, PTL DEF Spec, ImplementsAtMostOnce, Abstract!Spec

=============================================================================
