---------------------------- MODULE SecondFactor ----------------------------
(***************************************************************************)
(* The second factor of one user: setup, enabling, disabling, backup       *)
(* codes, the second step of a login and the step-up before sensitive      *)
(* routes.  Every request reads the row first and acts on what it read.    *)
(* A single backup code stands for the ten of a set.                       *)
(***************************************************************************)
EXTENDS Integers, FiniteSets

CONSTANTS
  Checks,      \* concurrent executions of the handlers
  Codes,       \* rows of user_two_factor_backup_codes, over time
  MaxFailures  \* twoFactorMaxFailures (5)

VARIABLES
  row,     \* user_two_factor: absent, or its columns
  codes,   \* unused backup codes
  check,   \* the requests, with their history: early, the row was not enabled when it
           \* was read; valid, the code was right
  spent,   \* history: how often each stored code was accepted
  guesses  \* history: failures since the last success, setup or end of a lock

factorVars == <<row, codes, check, spent, guesses>>

NoRow == [enabled |-> FALSE, failed |-> 0, locked |-> FALSE, present |-> FALSE]
Free == [pc |-> "idle"]
NoCode == "none"
\* What callers send: a code of the app, a backup code, or neither.
Offers == {"totp", "backup", "wrong"}
Verified == {"enable", "delete", "replace", "issue", "stepUp"}

FactorTypeOK ==
  /\ row \in [enabled : BOOLEAN, failed : 0..MaxFailures, locked : BOOLEAN,
              present : BOOLEAN]
  /\ codes \subseteq Codes
  /\ check \in [Checks -> {Free} \cup
        [pc : {"get", "upsert", "newCodes", "verify", "list", "mark", "success",
               "failure"} \cup Verified,
         op : {"setup", "enable", "disable", "regenerate", "login", "stepUp"},
         offer : Offers, code : {NoCode} \cup Codes, early : BOOLEAN, valid : BOOLEAN]]
  /\ spent \in [Codes -> 0..2]
  /\ guesses \in Nat

FactorInit ==
  /\ row = NoRow
  /\ codes = {}
  /\ check = [k \in Checks |-> Free]
  /\ spent = [c \in Codes |-> 0]
  /\ guesses = 0

-----------------------------------------------------------------------------
(***************************************************************************)
(* The repository's statements, as what they make of the row               *)
(***************************************************************************)
\* Mutant: the lock is set once, when the limit is met exactly.
LocksOnce(failed) == failed = MaxFailures

Locks(failed) == failed >= MaxFailures

Min2(a, b) == IF a <= b THEN a ELSE b

\* Whatever the row holds is overwritten.
AfterSetup == [NoRow EXCEPT !.present = TRUE]

\* These update by user id: without a row, nothing.
AfterEnable == [row EXCEPT !.enabled = row.present, !.failed = 0, !.locked = FALSE]

AfterSuccess == [row EXCEPT !.failed = 0, !.locked = FALSE]

\* The counter is kept when a lock passes (beyond the limit its value makes no
\* difference), so that the next failure locks again.
AfterFailure ==
  [row EXCEPT !.failed = Min2(@ + 1, MaxFailures), !.locked = @ \/ Locks(row.failed + 1)]

-----------------------------------------------------------------------------
On(k, pc) == check[k].pc = pc
Then(k, pc) == check' = [check EXCEPT ![k].pc = pc]
Matched(k) == check' = [check EXCEPT ![k].pc = "success", ![k].valid = TRUE]
Done(k) == check' = [check EXCEPT ![k] = Free]

\* The step that follows a code that was accepted.
Goal(k) ==
  CASE check[k].op = "enable" -> "enable"
    [] check[k].op = "disable" -> "delete"
    [] check[k].op = "regenerate" -> "replace"
    [] check[k].op = "login" -> "issue"
    [] check[k].op = "stepUp" -> "stepUp"

\* Enable and VerifyStepUp take codes of the app only.
AppOnly(k) == check[k].op \in {"enable", "stepUp"}

-----------------------------------------------------------------------------
Call(k, op, offer) ==
  /\ On(k, "idle")
  /\ check' = [check EXCEPT ![k] = [pc |-> "get", op |-> op, offer |-> offer,
                                    code |-> NoCode, early |-> FALSE, valid |-> FALSE]]
  /\ UNCHANGED <<row, codes, spent, guesses>>

\* What the row must be for the operation to go on: getConfigured, getEnabled.
Accepts(op) ==
  CASE op = "setup" -> ~row.enabled
    [] op = "enable" -> row.present /\ ~row.enabled
    [] OTHER -> row.present /\ row.enabled

\* Get, and activeLock on the row just read.
Get(k) ==
  /\ On(k, "get")
  /\ IF ~Accepts(check[k].op) \/ (check[k].op # "setup" /\ row.locked)
       THEN Done(k)
       ELSE check' = [check EXCEPT
                        ![k].pc = IF check[k].op = "setup" THEN "upsert" ELSE "verify",
                        ![k].early = ~row.enabled]
  /\ UNCHANGED <<row, codes, spent, guesses>>

\* The row may have been enabled since it was read.
UpsertSetup(k) ==
  /\ On(k, "upsert")
  /\ row' = AfterSetup
  /\ guesses' = 0
  /\ Then(k, "newCodes")
  /\ UNCHANGED <<codes, spent>>

\* A request has found the code in the list.
Held(c) == \E q \in Checks : check[q] # Free /\ check[q].code = c

\* The old codes go and a fresh one comes; ids are never used again while a
\* request may still hold them.
ReplaceBackupCodes(k) ==
  /\ On(k, "newCodes") \/ On(k, "replace")
  /\ \E c \in Codes \ codes :
       /\ ~Held(c)
       /\ codes' = {c}
       /\ spent' = [d \in Codes |-> IF d = c \/ ~Held(d) THEN 0 ELSE spent[d]]
  /\ Done(k)
  /\ UNCHANGED <<row, guesses>>

-----------------------------------------------------------------------------
(***************************************************************************)
(* verifyCode and verifyTOTPOnly                                           *)
(***************************************************************************)
\* Mutant: whatever is offered will do.
ValidateNothing(k) ==
  /\ On(k, "verify")
  /\ IF check[k].offer = "totp" THEN Matched(k) ELSE Then(k, "success")
  /\ UNCHANGED <<row, codes, spent, guesses>>

ValidateTOTP(k) ==
  /\ On(k, "verify")
  /\ IF check[k].offer = "totp" THEN Matched(k)
     ELSE Then(k, IF AppOnly(k) \/ check[k].offer = "wrong" THEN "failure" ELSE "list")
  /\ UNCHANGED <<row, codes, spent, guesses>>

\* ListUnusedBackupCodes: the code the caller was given is in the list, or it has
\* been used or replaced.
ListBackupCodes(k) ==
  /\ On(k, "list")
  /\ \/ \E c \in codes : check' = [check EXCEPT ![k].pc = "mark", ![k].code = c]
     \/ Then(k, "failure")
  /\ UNCHANGED <<row, codes, spent, guesses>>

\* Mutant: the update does not ask whether the code is still unused.
MarkAnyway(k) ==
  /\ On(k, "mark")
  /\ codes' = codes \ {check[k].code}
  /\ spent' = [spent EXCEPT ![check[k].code] = @ + 1]
  /\ Matched(k)
  /\ UNCHANGED <<row, guesses>>

MarkBackupCodeUsed(k) ==
  /\ On(k, "mark")
  /\ IF check[k].code \in codes
       THEN /\ codes' = codes \ {check[k].code}
            /\ spent' = [spent EXCEPT ![check[k].code] = @ + 1]
            /\ Matched(k)
       ELSE Then(k, "failure") /\ UNCHANGED <<codes, spent>>
  /\ UNCHANGED <<row, guesses>>

RecordSuccess(k) ==
  /\ On(k, "success")
  /\ row' = AfterSuccess
  /\ guesses' = 0
  /\ Then(k, Goal(k))
  /\ UNCHANGED <<codes, spent>>

\* An error if there is no row any more.
RecordFailure(k) ==
  /\ On(k, "failure")
  /\ IF row.present
       THEN /\ row' = AfterFailure
            /\ guesses' = guesses + 1
       ELSE UNCHANGED <<row, guesses>>
  /\ Done(k)
  /\ UNCHANGED <<codes, spent>>

\* Fifteen minutes have passed.
LockExpires ==
  /\ row.locked
  /\ row' = [row EXCEPT !.locked = FALSE]
  /\ guesses' = 0
  /\ UNCHANGED <<codes, check, spent>>

-----------------------------------------------------------------------------
(***************************************************************************)
(* What an accepted code allows                                            *)
(***************************************************************************)
\* The update names the user only: it enables whatever secret the row holds.
Enable(k) ==
  /\ On(k, "enable")
  /\ row' = AfterEnable
  /\ guesses' = 0
  /\ Done(k)
  /\ UNCHANGED <<codes, spent>>

Disable(k) ==
  /\ On(k, "delete")
  /\ row' = NoRow
  /\ codes' = {}
  /\ guesses' = 0
  /\ Done(k)
  /\ UNCHANGED spent

\* A session, or a step-up token, both outside this module.
Grant(k) ==
  /\ On(k, "issue") \/ On(k, "stepUp")
  /\ Done(k)
  /\ UNCHANGED <<row, codes, spent, guesses>>

\* A statement fails, the client goes away or the process stops.
GiveUp(k) ==
  /\ ~On(k, "idle")
  /\ Done(k)
  /\ UNCHANGED <<row, codes, spent, guesses>>

Step(k) ==
  \/ Get(k) \/ UpsertSetup(k) \/ ReplaceBackupCodes(k) \/ ValidateTOTP(k)
  \/ ListBackupCodes(k) \/ MarkBackupCodeUsed(k) \/ RecordSuccess(k)
  \/ RecordFailure(k) \/ Enable(k) \/ Disable(k) \/ Grant(k) \/ GiveUp(k)

FactorNext ==
  \/ \E k \in Checks : Call(k, "setup", "wrong")
  \/ \E k \in Checks, op \in {"enable", "disable", "regenerate", "login", "stepUp"},
        offer \in Offers : Call(k, op, offer)
  \/ \E k \in Checks : Step(k)
  \/ LockExpires

FactorSpec == FactorInit /\ [][FactorNext]_factorVars

-----------------------------------------------------------------------------
(***************************************************************************)
(* Properties                                                              *)
(***************************************************************************)

\* A backup code opens one login, whatever requests carry it at the same time and
\* whether the set is replaced meanwhile.
BackupCodeOnce == \A c \in Codes : spent[c] <= 1

\* Guessing stops at the lock, and a lock that has passed is back after the next
\* wrong code: what goes beyond the limit is one guess of each request that had read
\* the row before it was locked.
GuessesBounded == guesses < MaxFailures + Cardinality(Checks)

\* Two-factor protection goes off by the step of a request whose own code was right -
\* of the app, or a backup code nobody had used - or which found it off when it read
\* the row: the setup that an enabling overtakes and that then overwrites the row.
OnlyCodeDisables ==
  [][row.enabled /\ ~row'.enabled =>
       \E k \in Checks : /\ check[k] # Free /\ check'[k] # check[k]
                         /\ check[k].valid \/ check[k].early]_factorVars

=============================================================================
