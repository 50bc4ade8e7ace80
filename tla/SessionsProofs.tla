--------------------------- MODULE SessionsProofs ---------------------------
(***************************************************************************)
(* What holds of the sessions of a user for any number of requests and     *)
(* tokens.  A session behind a replaced password is in the way of a reset  *)
(* that has not reached its last statement, or of one that never will.     *)
(***************************************************************************)
EXTENDS Sessions, TLAPS

Calls == [pc : Steps, pw : Passwords, new : BOOLEAN,
          token : {NoToken} \cup Tokens \cup ResetTokens \cup MailTokens]
Runs == [Requests -> {Resting} \cup Calls]

-----------------------------------------------------------------------------
(***************************************************************************)
(* The request itself                                                      *)
(***************************************************************************)
\* A request that is not idle has the columns of a call.
LEMMA Called ==
  ASSUME SessionsTypeOK, NEW r \in Requests, ~At(r, "idle")
  PROVE  run[r] \in Calls
BY DEF SessionsTypeOK, At, Resting, Calls

\* Starting, going on and returning keep the type of the requests.
LEMMA StartType ==
  ASSUME SessionsTypeOK, NEW r \in Requests, NEW pc \in Steps, NEW pw \in Passwords,
         NEW t \in {NoToken} \cup Tokens \cup ResetTokens \cup MailTokens, Start(r, pc, pw, t)
  PROVE  run' \in Runs
<1> DEFINE c == [pc |-> pc, pw |-> pw, new |-> FALSE, token |-> t]
<1>1. c \in Calls
  BY DEF Calls
<1>2. run \in Runs
  BY DEF SessionsTypeOK, Runs, Calls
<1>3. run' = [run EXCEPT ![r] = c]
  BY DEF Start
<1> HIDE DEF c
<1> QED
  BY <1>1, <1>2, <1>3 DEF Runs

LEMMA GotoType ==
  ASSUME SessionsTypeOK, NEW r \in Requests, ~At(r, "idle"), NEW pc \in Steps, Goto(r, pc)
  PROVE  run' \in Runs
<1>1. run[r] \in Calls
  BY Called
<1>2. [run[r] EXCEPT !.pc = pc] \in Calls
  BY <1>1 DEF Calls
<1>3. run \in Runs
  BY DEF SessionsTypeOK, Runs, Calls
<1>4. run' = [run EXCEPT ![r] = [run[r] EXCEPT !.pc = pc]]
  BY DEF Goto
<1> QED
  BY <1>2, <1>3, <1>4 DEF Runs

LEMMA ReturnType ==
  ASSUME SessionsTypeOK, NEW r \in Requests, Return(r)
  PROVE  run' \in Runs
<1>1. run \in Runs
  BY DEF SessionsTypeOK, Runs, Calls
<1> QED
  BY <1>1 DEF Return, Runs

\* So does a read, which leaves everything else alone.
LEMMA ReadType ==
  ASSUME SessionsTypeOK, NEW r \in Requests, NEW pc \in Steps, NEW next \in Steps,
         NEW holds, Read(r, pc, holds, next)
  PROVE  run' \in Runs /\ UNCHANGED database
<1>1. ~At(r, "idle")
  BY DEF Read, At, Steps, Resetting
<1> QED
  BY <1>1, GotoType, ReturnType DEF Read

-----------------------------------------------------------------------------
(***************************************************************************)
(* Types                                                                   *)
(***************************************************************************)
LEMMA TypeInit == SessionsInit => SessionsTypeOK
BY DEF SessionsInit, SessionsTypeOK, SessionStates

\* A handler begins.
LEMMA BeginType ==
  ASSUME SessionsTypeOK, NEW r \in Requests, Begin(r)
  PROVE  SessionsTypeOK'
<1>1. UNCHANGED database
  BY DEF Begin, Register, Login, LoginTwoFactor, ForgotPassword, ResendVerification,
         RefreshToken, ResetPassword, VerifyEmail
<1>2. run' \in Runs
  <2>1. CASE Register(r)
    BY <2>1, StartType DEF Register, Steps, Passwords
  <2>2. CASE Login(r)
    BY <2>2, StartType DEF Login, Steps, Passwords
  <2>3. CASE LoginTwoFactor(r)
    <3>1. PICK pw \in challenges : Start(r, "redeem", pw, NoToken)
      BY <2>3 DEF LoginTwoFactor
    <3>2. pw \in Passwords
      BY DEF SessionsTypeOK
    <3> QED
      BY <3>1, <3>2, StartType DEF Steps
  <2>4. CASE ForgotPassword(r)
    BY <2>4, StartType DEF ForgotPassword, Steps, Passwords
  <2>5. CASE ResendVerification(r)
    BY <2>5, StartType DEF ResendVerification, Steps, Passwords
  <2>6. ASSUME NEW t \in Tokens, RefreshToken(r, t) PROVE run' \in Runs
    BY <2>6, StartType DEF RefreshToken, Steps, Passwords
  <2>7. ASSUME NEW t \in ResetTokens, ResetPassword(r, t) PROVE run' \in Runs
    BY <2>7, StartType DEF ResetPassword, Steps, Passwords
  <2>8. ASSUME NEW t \in MailTokens, VerifyEmail(r, t) PROVE run' \in Runs
    BY <2>8, StartType DEF VerifyEmail, Steps, Passwords
  <2> QED
    BY <2>1, <2>2, <2>3, <2>4, <2>5, <2>6, <2>7, <2>8 DEF Begin
<1> QED
  BY <1>1, <1>2 DEF SessionsTypeOK, database, Runs, Calls

\* A handler reads, and changes nothing but its own place.
Reads(r) ==
  \/ EmailFree(r) \/ Provision(r) \/ VerifyPassword(r) \/ NoFactor(r) \/ VerifyFactor(r)
  \/ IsTokenValid(r) \/ FindUser(r) \/ GetUserIDByToken(r) \/ ResetUser(r)
  \/ Unverified(r) \/ MailToken(r) \/ MailUser(r) \/ IssueAccessToken(r)

LEMMA ReadsType ==
  ASSUME SessionsTypeOK, NEW r \in Requests, Reads(r)
  PROVE  run' \in Runs /\ UNCHANGED database
<1> USE DEF Steps
<1>1. CASE EmailFree(r)
  <2>1. Read(r, "register", account = "none", "createUser")
    BY <1>1 DEF EmailFree
  <2> QED
    BY <2>1, ReadType
<1>2. CASE Provision(r)
  <2>1. Read(r, "provision", TRUE, "issue")
    BY <1>2 DEF Provision
  <2> QED
    BY <2>1, ReadType
<1>3. CASE VerifyPassword(r)
  <2>1. Read(r, "login", account = "active", "factor")
    BY <1>3 DEF VerifyPassword
  <2> QED
    BY <2>1, ReadType
<1>4. CASE NoFactor(r)
  <2>1. Read(r, "factor", TRUE, "issue")
    BY <1>4 DEF NoFactor
  <2> QED
    BY <2>1, ReadType
<1>5. CASE IsTokenValid(r)
  <2>1. Read(r, "refresh", sessions[run[r].token] # "none", "refreshUser")
    BY <1>5 DEF IsTokenValid
  <2> QED
    BY <2>1, ReadType
<1>6. CASE FindUser(r)
  <2>1. Read(r, "startReset", account = "active", "clearOld")
    BY <1>6 DEF FindUser
  <2> QED
    BY <2>1, ReadType
<1>7. CASE GetUserIDByToken(r)
  <2>1. Read(r, "resetToken", run[r].token \in resets, "resetUser")
    BY <1>7 DEF GetUserIDByToken
  <2> QED
    BY <2>1, ReadType
<1>8. CASE ResetUser(r)
  <2>1. Read(r, "resetUser", account = "active", "setPassword")
    BY <1>8 DEF ResetUser
  <2> QED
    BY <2>1, ReadType
<1>9. CASE Unverified(r)
  <2>1. Read(r, "startMail", account = "active" /\ ~verified, "deleteMail")
    BY <1>9 DEF Unverified
  <2> QED
    BY <2>1, ReadType
<1>10. CASE MailToken(r)
  <2>1. Read(r, "mailToken", run[r].token \in mails, "mailUser")
    BY <1>10 DEF MailToken
  <2> QED
    BY <2>1, ReadType
<1>11. CASE VerifyFactor(r)
  <2>1. PICK right \in BOOLEAN : Read(r, "redeem", account = "active" /\ right, "issue")
    BY <1>11 DEF VerifyFactor
  <2> QED
    BY <2>1, ReadType
<1>12. CASE MailUser(r)
  <2>1. Read(r, "mailUser", account = "active", IF verified THEN "clearMail" ELSE "setVerified")
    BY <1>12 DEF MailUser
  <2>2. (IF verified THEN "clearMail" ELSE "setVerified") \in Steps
    OBVIOUS
  <2> QED
    BY <2>1, <2>2, ReadType
<1>13. CASE IssueAccessToken(r)
  BY <1>13, ReturnType DEF IssueAccessToken
<1> QED
  BY <1>1, <1>2, <1>3, <1>4, <1>5, <1>6, <1>7, <1>8, <1>9, <1>10, <1>11, <1>12, <1>13 DEF Reads

\* A handler writes: what it leaves of the tables has its type.
LEMMA WritesType ==
  ASSUME SessionsTypeOK, NEW r \in Requests, Proceed(r), ~Reads(r)
  PROVE  SessionsTypeOK'
<1> USE DEF Steps, Resetting
<1> DEFINE Ok == /\ account' \in {"none", "active", "closed"}
                 /\ verified' \in BOOLEAN
                 /\ sessions' \in [Tokens -> SessionStates]
                 /\ resets' \subseteq ResetTokens
                 /\ mails' \subseteq MailTokens
                 /\ challenges' \subseteq Passwords
                 /\ unfinished' \in BOOLEAN
<1>0. SUFFICES Ok /\ run' \in Runs
  BY DEF SessionsTypeOK, Runs, Calls
<1>1. CASE CreateUser(r)
  <2>1. ~At(r, "idle")
    BY <1>1 DEF CreateUser, At
  <2>2. Ok
    BY <1>1 DEF CreateUser, SessionsTypeOK
  <2>3. CASE account = "none"
    <3>1. run[r] \in Calls /\ run \in Runs
      BY <2>1, Called DEF SessionsTypeOK, Runs, Calls
    <3>2. [[run[r] EXCEPT !.pc = "provision"] EXCEPT !.new = TRUE] \in Calls
      BY <3>1 DEF Calls
    <3>3. run' = [run EXCEPT ![r] = [[run[r] EXCEPT !.pc = "provision"] EXCEPT !.new = TRUE]]
      BY <1>1, <2>3, <3>1 DEF CreateUser, Runs
    <3>4. run' \in Runs
      BY <3>1, <3>2, <3>3 DEF Runs
    <3> QED
      BY <2>2, <3>4
  <2>4. CASE account # "none"
    BY <1>1, <2>2, <2>4, ReturnType DEF CreateUser
  <2> QED
    BY <2>3, <2>4
<1>2. CASE DemandFactor(r)
  <2>1. ~At(r, "idle")
    BY <1>2 DEF DemandFactor, At
  <2>2. run[r].pw \in Passwords
    BY <2>1, Called DEF Calls
  <2>3. Ok
    BY <1>2, <2>2 DEF DemandFactor, SessionsTypeOK
  <2>4. run' \in Runs
    BY <1>2, ReturnType DEF DemandFactor
  <2> QED
    BY <2>3, <2>4
<1>3. CASE IssueTokens(r)
  <2>1. ~At(r, "idle")
    BY <1>3 DEF IssueTokens, At
  <2>2. Ok
    BY <1>3 DEF IssueTokens, SessionsTypeOK, SaveRefreshToken, SessionStates
  <2>3. run' \in Runs
    BY <1>3, <2>1, GotoType, ReturnType DEF IssueTokens
  <2> QED
    BY <2>2, <2>3
<1>4. CASE ClearOldResets(r)
  <2>1. ~At(r, "idle")
    BY <1>4 DEF ClearOldResets, At
  <2>2. Ok
    BY <1>4 DEF ClearOldResets, SessionsTypeOK
  <2>3. run' \in Runs
    BY <1>4, <2>1, GotoType DEF ClearOldResets
  <2> QED
    BY <2>2, <2>3
<1>5. CASE SaveReset(r)
  <2>1. ~At(r, "idle")
    BY <1>5 DEF SaveReset, At
  <2>2. Ok
    BY <1>5 DEF SaveReset, SessionsTypeOK, SaveResetToken
  <2>3. run' \in Runs
    BY <1>5, <2>1, ReturnType DEF SaveReset
  <2> QED
    BY <2>2, <2>3
<1>6. CASE MarkUsed(r)
  <2>1. ~At(r, "idle")
    BY <1>6 DEF MarkUsed, At
  <2>2. Ok
    BY <1>6 DEF MarkUsed, SessionsTypeOK, MarkResetTokenUsed
  <2>3. run' \in Runs
    BY <1>6, <2>1, GotoType DEF MarkUsed
  <2> QED
    BY <2>2, <2>3
<1>7. CASE ClearResets(r)
  <2>1. ~At(r, "idle")
    BY <1>7 DEF ClearResets, At
  <2>2. Ok
    BY <1>7 DEF ClearResets, SessionsTypeOK
  <2>3. run' \in Runs
    BY <1>7, <2>1, GotoType DEF ClearResets
  <2> QED
    BY <2>2, <2>3
<1>8. CASE RevokeSessions(r)
  <2>1. ~At(r, "idle")
    BY <1>8 DEF RevokeSessions, At
  <2>2. Ok
    BY <1>8 DEF RevokeSessions, SessionsTypeOK, RevokeAllUserTokens, SessionStates
  <2>3. run' \in Runs
    BY <1>8, <2>1, ReturnType DEF RevokeSessions
  <2> QED
    BY <2>2, <2>3
<1>9. CASE DeleteMail(r)
  <2>1. ~At(r, "idle")
    BY <1>9 DEF DeleteMail, At
  <2>2. Ok
    BY <1>9 DEF DeleteMail, SessionsTypeOK
  <2>3. run' \in Runs
    BY <1>9, <2>1, GotoType DEF DeleteMail
  <2> QED
    BY <2>2, <2>3
<1>10. CASE SaveMail(r)
  <2>1. ~At(r, "idle")
    BY <1>10 DEF SaveMail, At
  <2>2. Ok
    BY <1>10 DEF SaveMail, SessionsTypeOK, SaveMailToken
  <2>3. run' \in Runs
    BY <1>10, <2>1, ReturnType DEF SaveMail
  <2> QED
    BY <2>2, <2>3
<1>11. CASE SetVerified(r)
  <2>1. ~At(r, "idle")
    BY <1>11 DEF SetVerified, At
  <2>2. Ok
    BY <1>11 DEF SetVerified, SessionsTypeOK
  <2>3. run' \in Runs
    BY <1>11, <2>1, GotoType DEF SetVerified
  <2> QED
    BY <2>2, <2>3
<1>12. CASE ClearMail(r)
  <2>1. ~At(r, "idle")
    BY <1>12 DEF ClearMail, At
  <2>2. Ok
    BY <1>12 DEF ClearMail, SessionsTypeOK
  <2>3. run' \in Runs
    BY <1>12, <2>1, ReturnType DEF ClearMail
  <2> QED
    BY <2>2, <2>3
<1>13. CASE UpdatePassword(r)
  <2>1. Ok
    BY <1>13 DEF UpdatePassword, SessionsTypeOK, SessionStates, Outdated, Passwords
  <2>2. ASSUME NEW q \in Requests PROVE run'[q] \in {Resting} \cup Calls
    <3>1. ~At(r, "idle")
      BY <1>13 DEF UpdatePassword, At
    <3>2. CASE q = r
      BY <1>13, <3>1, <3>2, Called DEF UpdatePassword, Calls
    <3>3. CASE q # r /\ run[q].pc \in {"provision", "factor", "redeem", "issue"}
      <4>1. run[q] \in Calls
        BY <3>3, Called DEF At
      <4>2. run'[q] = [run[q] EXCEPT !.pw = Outdated(run[q].pw)]
        BY <1>13, <3>3 DEF UpdatePassword
      <4>3. Outdated(run[q].pw) \in Passwords
        BY <4>1 DEF Calls, Outdated, Passwords
      <4> QED
        BY <4>1, <4>2, <4>3 DEF Calls
    <3>4. CASE q # r /\ run[q].pc \notin {"provision", "factor", "redeem", "issue"}
      BY <1>13, <3>4 DEF UpdatePassword, SessionsTypeOK, Calls
    <3> QED
      BY <3>2, <3>3, <3>4
  <2>3. run' = [q \in Requests |-> run'[q]]
    BY <1>13 DEF UpdatePassword
  <2> QED
    BY <2>1, <2>2, <2>3 DEF Runs
<1> QED
  BY <1>1, <1>2, <1>3, <1>4, <1>5, <1>6, <1>7, <1>8, <1>9, <1>10, <1>11, <1>12, <1>13 DEF Proceed, Reads

LEMMA TypeStep == SessionsTypeOK /\ [SessionsNext]_sessionVars => SessionsTypeOK'
<1> SUFFICES ASSUME SessionsTypeOK, [SessionsNext]_sessionVars PROVE SessionsTypeOK'
  OBVIOUS
<1>1. ASSUME NEW r \in Requests, Begin(r) PROVE SessionsTypeOK'
  BY <1>1, BeginType
<1>2. ASSUME NEW r \in Requests, Proceed(r) PROVE SessionsTypeOK'
  <2>1. CASE Reads(r)
    BY <2>1, ReadsType DEF SessionsTypeOK, database, Runs, Calls
  <2>2. CASE ~Reads(r)
    BY <1>2, <2>2, WritesType
  <2> QED
    BY <2>1, <2>2
<1>3. ASSUME NEW r \in Requests, Abandon(r) PROVE SessionsTypeOK'
  <2>1. run' \in Runs
    BY <1>3, ReturnType DEF Abandon
  <2>2. unfinished' \in BOOLEAN
    BY <1>3 DEF Abandon
  <2> QED
    BY <1>3, <2>1, <2>2 DEF Abandon, SessionsTypeOK, Runs, Calls
<1>4. ASSUME NEW t \in Tokens, Logout(t) PROVE SessionsTypeOK'
  BY <1>4 DEF Logout, RevokeRefreshToken, SessionsTypeOK, SessionStates
<1>5. ASSUME NEW t \in ResetTokens, ResetExpires(t) PROVE SessionsTypeOK'
  BY <1>5 DEF ResetExpires, SessionsTypeOK
<1>6. ASSUME NEW pw \in Passwords, ChallengeExpires(pw) PROVE SessionsTypeOK'
  BY <1>6 DEF ChallengeExpires, SessionsTypeOK
<1>7. CASE CloseAccount
  BY <1>7 DEF CloseAccount, RevokeAllUserTokens, SessionsTypeOK, SessionStates
<1>8. CASE UNCHANGED sessionVars
  BY <1>8 DEF sessionVars, SessionsTypeOK
<1> QED
  BY <1>1, <1>2, <1>3, <1>4, <1>5, <1>6, <1>7, <1>8 DEF SessionsNext

\* The user's row, tokens, challenges and requests keep their types, whatever
\* handlers of AuthService run at the same time and wherever they end.
THEOREM TypeCorrect == SessionsSpec => []SessionsTypeOK
BY TypeInit, TypeStep, PTL DEF SessionsSpec

-----------------------------------------------------------------------------
(***************************************************************************)
(* A reset ends the sessions of the old password                           *)
(***************************************************************************)
\* A step that outdates no session, takes no request out of a reset and forgets no
\* unfinished one.
Harmless ==
  /\ \A t \in Tokens : sessions'[t] = "stale" => sessions[t] = "stale"
  /\ \A r \in Requests : run[r].pc \in Resetting => run'[r].pc \in Resetting
  /\ unfinished => unfinished'

LEMMA HarmlessKeeps ==
  ASSUME ResetEndsSessions, Harmless
  PROVE  ResetEndsSessions'
BY DEF ResetEndsSessions, Harmless

\* A request that is outside a reset may go anywhere.
LEMMA OutsideGoes ==
  ASSUME SessionsTypeOK, NEW r \in Requests, run[r].pc \notin Resetting, NEW c,
         run' = [run EXCEPT ![r] = c]
  PROVE  \A q \in Requests : run[q].pc \in Resetting => run'[q].pc \in Resetting
BY DEF SessionsTypeOK

LEMMA GotoOutside ==
  ASSUME SessionsTypeOK, NEW r \in Requests, run[r].pc \notin Resetting, NEW pc,
         Goto(r, pc) \/ Return(r)
  PROVE  \A q \in Requests : run[q].pc \in Resetting => run'[q].pc \in Resetting
BY DEF SessionsTypeOK, Goto, Return

\* Handlers begin and read outside a reset.
LEMMA BeginHarmless ==
  ASSUME SessionsTypeOK, NEW r \in Requests, Begin(r)
  PROVE  Harmless
<1>1. UNCHANGED database /\ At(r, "idle")
  BY DEF Begin, Register, Login, LoginTwoFactor, ForgotPassword, ResendVerification,
         RefreshToken, ResetPassword, VerifyEmail, Start
<1>2. PICK c : run' = [run EXCEPT ![r] = c]
  BY DEF Begin, Register, Login, LoginTwoFactor, ForgotPassword, ResendVerification,
         RefreshToken, ResetPassword, VerifyEmail, Start
<1>3. run[r].pc \notin Resetting
  BY <1>1 DEF At, Resetting
<1> QED
  BY <1>1, <1>2, <1>3, OutsideGoes DEF Harmless, database

LEMMA ReadsHarmless ==
  ASSUME SessionsTypeOK, NEW r \in Requests, Reads(r)
  PROVE  Harmless
<1>1. UNCHANGED database
  BY ReadsType
<1>2. run[r].pc \notin Resetting
  BY DEF Reads, EmailFree, Provision, VerifyPassword, NoFactor, VerifyFactor, IsTokenValid,
         FindUser, GetUserIDByToken, ResetUser, Unverified, MailToken, MailUser,
         IssueAccessToken, Read, At, Resetting
<1>3. PICK pc : Goto(r, pc) \/ Return(r)
  BY DEF Reads, EmailFree, Provision, VerifyPassword, NoFactor, VerifyFactor, IsTokenValid,
         FindUser, GetUserIDByToken, ResetUser, Unverified, MailToken, MailUser,
         IssueAccessToken, Read
<1> QED
  BY <1>1, <1>2, <1>3, GotoOutside DEF Harmless, database

LEMMA ResetInit == SessionsInit => ResetEndsSessions
BY DEF SessionsInit, ResetEndsSessions

LEMMA ResetStep ==
  ASSUME SessionsTypeOK, ResetEndsSessions, [SessionsNext]_sessionVars
  PROVE  ResetEndsSessions'
<1>1. ASSUME NEW r \in Requests, Begin(r) PROVE ResetEndsSessions'
  BY <1>1, BeginHarmless, HarmlessKeeps
<1>2. ASSUME NEW r \in Requests, Proceed(r) PROVE ResetEndsSessions'
  <2>1. CASE Reads(r)
    BY <2>1, ReadsHarmless, HarmlessKeeps
  <2>2. CASE CreateUser(r)
    <3>1. run[r].pc \notin Resetting
      BY <2>2 DEF CreateUser, At, Resetting
    <3>2. Harmless
      BY <2>2, <3>1 DEF CreateUser, Return, Harmless, SessionsTypeOK
    <3> QED
      BY <3>2, HarmlessKeeps
  <2>3. CASE IssueTokens(r)
    <3>1. run[r].pc \notin Resetting
      BY <2>3 DEF IssueTokens, At, Resetting
    <3>2. \A t \in Tokens : sessions'[t] = "stale" => sessions[t] = "stale"
      BY <2>3 DEF IssueTokens, SaveRefreshToken, SessionsTypeOK
    <3>3. Harmless
      BY <2>3, <3>1, <3>2, GotoOutside DEF IssueTokens, Harmless
    <3> QED
      BY <3>3, HarmlessKeeps
  <2>4. CASE DemandFactor(r) \/ ClearOldResets(r) \/ SaveReset(r) \/ DeleteMail(r)
             \/ SaveMail(r) \/ SetVerified(r) \/ ClearMail(r)
    <3>1. run[r].pc \notin Resetting /\ UNCHANGED <<sessions, unfinished>>
      BY <2>4 DEF DemandFactor, ClearOldResets, SaveReset, DeleteMail, SaveMail, SetVerified,
                  ClearMail, At, Resetting
    <3>2. PICK pc : Goto(r, pc) \/ Return(r)
      BY <2>4 DEF DemandFactor, ClearOldResets, SaveReset, DeleteMail, SaveMail, SetVerified,
                  ClearMail
    <3>3. Harmless
      BY <3>1, <3>2, GotoOutside DEF Harmless
    <3> QED
      BY <3>3, HarmlessKeeps
  <2>5. CASE UpdatePassword(r)
    <3>1. run'[r].pc = "markUsed"
      BY <2>5, Called DEF UpdatePassword, At, Calls
    <3> QED
      BY <3>1 DEF ResetEndsSessions, Resetting
  <2>6. CASE MarkUsed(r) \/ ClearResets(r)
    <3>1. UNCHANGED <<sessions, unfinished>>
      BY <2>6 DEF MarkUsed, ClearResets
    <3>2. run'[r].pc \in Resetting /\ \A q \in Requests \ {r} : run'[q] = run[q]
      BY <2>6, Called DEF MarkUsed, ClearResets, Goto, At, Calls, Resetting, SessionsTypeOK
    <3>3. Harmless
      BY <3>1, <3>2 DEF Harmless
    <3> QED
      BY <3>3, HarmlessKeeps
  <2>7. CASE RevokeSessions(r)
    BY <2>7 DEF RevokeSessions, RevokeAllUserTokens, ResetEndsSessions
  <2> QED
    BY <1>2, <2>1, <2>2, <2>3, <2>4, <2>5, <2>6, <2>7 DEF Proceed, Reads
<1>3. ASSUME NEW r \in Requests, Abandon(r) PROVE ResetEndsSessions'
  <2>1. UNCHANGED sessions /\ (unfinished => unfinished')
    BY <1>3 DEF Abandon
  <2>2. CASE run[r].pc \in Resetting
    BY <1>3, <2>2 DEF Abandon, ResetEndsSessions
  <2>3. CASE run[r].pc \notin Resetting
    BY <1>3, <2>1, <2>3, GotoOutside, HarmlessKeeps DEF Abandon, Harmless
  <2> QED
    BY <2>2, <2>3
<1>4. ASSUME NEW t \in Tokens, Logout(t) PROVE ResetEndsSessions'
  BY <1>4, HarmlessKeeps DEF Logout, RevokeRefreshToken, Harmless, SessionsTypeOK
<1>5. ASSUME NEW t \in ResetTokens, ResetExpires(t) PROVE ResetEndsSessions'
  BY <1>5 DEF ResetExpires, ResetEndsSessions
<1>6. ASSUME NEW pw \in Passwords, ChallengeExpires(pw) PROVE ResetEndsSessions'
  BY <1>6 DEF ChallengeExpires, ResetEndsSessions
<1>7. CASE CloseAccount
  BY <1>7 DEF CloseAccount, RevokeAllUserTokens, ResetEndsSessions
<1>8. CASE UNCHANGED sessionVars
  BY <1>8 DEF sessionVars, ResetEndsSessions
<1> QED
  BY <1>1, <1>2, <1>3, <1>4, <1>5, <1>6, <1>7, <1>8 DEF SessionsNext

\* A password reset ends the sessions opened with the old password, for any number
\* of requests: one survives only while a reset is on its way to RevokeAllUserTokens
\* or after one that ended before it.
THEOREM ResetEnds == SessionsSpec => []ResetEndsSessions
<1>1. SessionsTypeOK /\ ResetEndsSessions /\ [SessionsNext]_sessionVars
        => SessionsTypeOK' /\ ResetEndsSessions'
  BY TypeStep, ResetStep
<1> QED
  BY TypeInit, ResetInit, <1>1, PTL DEF SessionsSpec

=============================================================================
