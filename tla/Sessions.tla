------------------------------ MODULE Sessions ------------------------------
(***************************************************************************)
(* The password, the refresh tokens and the mailed tokens of one user:     *)
(* registration, login, refresh, logout, password reset and e-mail         *)
(* verification.  A request runs one SQL statement per step and may end    *)
(* between any two of them.  Whether a second factor is demanded is the    *)
(* subject of SecondFactor; here either may happen.                        *)
(***************************************************************************)
EXTENDS FiniteSets

CONSTANTS
  Requests,    \* concurrent executions of the handlers
  Tokens,      \* refresh tokens
  ResetTokens, \* password reset tokens
  MailTokens   \* e-mail verification tokens

VARIABLES
  account,    \* the user row: none, active or closed
  verified,   \* users.email_verified
  sessions,   \* unrevoked refresh tokens, by the password behind them
  resets,     \* unused, unexpired rows of password_resets
  mails,      \* unexpired rows of email_verifications
  challenges, \* login challenges a client holds, by the password behind them
  run,        \* the requests: what they do next and what they have learnt
  unfinished  \* history: a reset ended between its first and its last statement

sessionVars == <<account, verified, sessions, resets, mails, challenges, run, unfinished>>

\* A password behind a token is current, or stale once it has been replaced.  A
\* session is late if its password was already stale when it was opened.
Passwords == {"current", "stale"}
SessionStates == {"none", "current", "stale", "late"}

Resting == [pc |-> "idle"]
Resetting == {"markUsed", "clearResets", "revokeAll"}
Steps == {"register", "createUser", "provision", "login", "factor", "redeem", "issue",
          "refresh", "refreshUser", "startReset", "clearOld", "saveReset",
          "resetToken", "resetUser", "setPassword", "startMail", "deleteMail",
          "saveMail", "mailToken", "mailUser", "setVerified", "clearMail"} \cup Resetting
NoToken == "none"

SessionsTypeOK ==
  /\ account \in {"none", "active", "closed"}
  /\ verified \in BOOLEAN
  /\ sessions \in [Tokens -> SessionStates]
  /\ resets \subseteq ResetTokens
  /\ mails \subseteq MailTokens
  /\ challenges \subseteq Passwords
  /\ run \in [Requests -> {Resting} \cup
               [pc : Steps, pw : Passwords, new : BOOLEAN,
                token : {NoToken} \cup Tokens \cup ResetTokens \cup MailTokens]]
  /\ unfinished \in BOOLEAN

SessionsInit ==
  /\ account = "none"
  /\ verified = FALSE
  /\ sessions = [t \in Tokens |-> "none"]
  /\ resets = {} /\ mails = {} /\ challenges = {}
  /\ run = [r \in Requests |-> Resting]
  /\ unfinished = FALSE

-----------------------------------------------------------------------------
(***************************************************************************)
(* The repository's statements                                             *)
(***************************************************************************)
\* A random token is new: no row and no request knows it.
Fresh(t) == ~\E q \in Requests : run[q] # Resting /\ run[q].token = t

SaveRefreshToken(pw) ==
  \E t \in Tokens :
    /\ sessions[t] = "none" /\ Fresh(t)
    /\ sessions' = [sessions EXCEPT ![t] = IF pw = "current" THEN "current" ELSE "late"]

RevokeRefreshToken(t) == sessions' = [sessions EXCEPT ![t] = "none"]

RevokeAllUserTokens == sessions' = [t \in Tokens |-> "none"]

SaveResetToken == \E t \in ResetTokens \ resets : Fresh(t) /\ resets' = resets \cup {t}

MarkResetTokenUsed(t) == resets' = resets \ {t}

SaveMailToken == \E t \in MailTokens \ mails : Fresh(t) /\ mails' = mails \cup {t}

-----------------------------------------------------------------------------
At(r, pc) == run[r].pc = pc
Goto(r, pc) == run' = [run EXCEPT ![r].pc = pc]
Return(r) == run' = [run EXCEPT ![r] = Resting]

\* Request r starts at pc with what its caller sent.
Start(r, pc, pw, t) ==
  /\ At(r, "idle")
  /\ run' = [run EXCEPT ![r] = [pc |-> pc, pw |-> pw, new |-> FALSE, token |-> t]]

database == <<account, verified, sessions, resets, mails, challenges, unfinished>>

\* A read that lets the request go on, or ends it with an error.
Read(r, pc, holds, next) ==
  /\ At(r, pc)
  /\ IF holds THEN Goto(r, next) ELSE Return(r)
  /\ UNCHANGED database

-----------------------------------------------------------------------------
(***************************************************************************)
(* Register, Login, and the second step of a login with two factors        *)
(***************************************************************************)
\* Signups may be disabled, the address malformed, the password weak: the caller
\* is then refused before anything is read.
Register(r) == Start(r, "register", "current", NoToken) /\ UNCHANGED database

EmailFree(r) == Read(r, "register", account = "none", "createUser")

\* The unique index on the address decides between two registrations.
CreateUser(r) ==
  /\ At(r, "createUser")
  /\ IF account = "none"
       THEN /\ account' = "active"
            /\ run' = [run EXCEPT ![r].pc = "provision", ![r].new = TRUE]
       ELSE Return(r) /\ UNCHANGED account
  /\ UNCHANGED <<verified, sessions, resets, mails, challenges, unfinished>>

\* UpsertLimits and CreateUsage.
Provision(r) == Read(r, "provision", TRUE, "issue")

\* A caller who sends the wrong password is refused like an unknown one.
Login(r) == Start(r, "login", "current", NoToken) /\ UNCHANGED database

VerifyPassword(r) == Read(r, "login", account = "active", "factor")

\* The challenge is a signed token: nothing of it is stored, and it can be redeemed
\* until it expires, more than once.
DemandFactor(r) ==
  /\ At(r, "factor")
  /\ challenges' = challenges \cup {run[r].pw}
  /\ Return(r)
  /\ UNCHANGED <<account, verified, sessions, resets, mails, unfinished>>

NoFactor(r) == Read(r, "factor", TRUE, "issue")

LoginTwoFactor(r) ==
  /\ \E pw \in challenges : Start(r, "redeem", pw, NoToken)
  /\ UNCHANGED database

\* The code may be wrong, see SecondFactor.
VerifyFactor(r) ==
  \E right \in BOOLEAN : Read(r, "redeem", account = "active" /\ right, "issue")

\* A registration goes on to mail a verification token.
IssueTokens(r) ==
  /\ At(r, "issue")
  /\ SaveRefreshToken(run[r].pw)
  /\ IF run[r].new THEN Goto(r, "deleteMail") ELSE Return(r)
  /\ UNCHANGED <<account, verified, resets, mails, challenges, unfinished>>

ChallengeExpires(pw) ==
  /\ pw \in challenges
  /\ challenges' = challenges \ {pw}
  /\ UNCHANGED <<account, verified, sessions, resets, mails, run, unfinished>>

-----------------------------------------------------------------------------
(***************************************************************************)
(* RefreshAccessToken and Logout                                           *)
(***************************************************************************)
RefreshToken(r, t) == Start(r, "refresh", "current", t) /\ UNCHANGED database

IsTokenValid(r) == Read(r, "refresh", sessions[run[r].token] # "none", "refreshUser")

\* The access token is a signed token that nothing revokes for 15 minutes.
IssueAccessToken(r) ==
  /\ At(r, "refreshUser")
  /\ Return(r)
  /\ UNCHANGED database

\* One statement, whoever holds the token.
Logout(t) ==
  /\ sessions[t] # "none"
  /\ RevokeRefreshToken(t)
  /\ UNCHANGED <<account, verified, resets, mails, challenges, run, unfinished>>

-----------------------------------------------------------------------------
(***************************************************************************)
(* StartPasswordReset and ResetPassword                                    *)
(***************************************************************************)
ForgotPassword(r) == Start(r, "startReset", "current", NoToken) /\ UNCHANGED database

FindUser(r) == Read(r, "startReset", account = "active", "clearOld")

ClearOldResets(r) ==
  /\ At(r, "clearOld")
  /\ resets' = {}
  /\ Goto(r, "saveReset")
  /\ UNCHANGED <<account, verified, sessions, mails, challenges, unfinished>>

SaveReset(r) ==
  /\ At(r, "saveReset")
  /\ SaveResetToken
  /\ Return(r)
  /\ UNCHANGED <<account, verified, sessions, mails, challenges, unfinished>>

ResetPassword(r, t) == Start(r, "resetToken", "current", t) /\ UNCHANGED database

GetUserIDByToken(r) == Read(r, "resetToken", run[r].token \in resets, "resetUser")

ResetUser(r) == Read(r, "resetUser", account = "active", "setPassword")

\* Whatever was authenticated with the password so far is stale from now on.
Outdated(pw) == IF pw = "current" THEN "stale" ELSE pw

UpdatePassword(r) ==
  /\ At(r, "setPassword")
  /\ sessions' = [t \in Tokens |-> Outdated(sessions[t])]
  /\ challenges' = {Outdated(pw) : pw \in challenges}
  /\ run' = [q \in Requests |->
               IF q = r THEN [run[q] EXCEPT !.pc = "markUsed"]
               ELSE IF run[q].pc \in {"provision", "factor", "redeem", "issue"}
               THEN [run[q] EXCEPT !.pw = Outdated(@)]
               ELSE run[q]]
  /\ UNCHANGED <<account, verified, resets, mails, unfinished>>

MarkUsed(r) ==
  /\ At(r, "markUsed")
  /\ MarkResetTokenUsed(run[r].token)
  /\ Goto(r, "clearResets")
  /\ UNCHANGED <<account, verified, sessions, mails, challenges, unfinished>>

\* Mutant: the reset ends here; the other sessions are left alone.
KeepSessions(r) ==
  /\ At(r, "clearResets")
  /\ resets' = {}
  /\ Return(r)
  /\ UNCHANGED <<account, verified, sessions, mails, challenges, unfinished>>

ClearResets(r) ==
  /\ At(r, "clearResets")
  /\ resets' = {}
  /\ Goto(r, "revokeAll")
  /\ UNCHANGED <<account, verified, sessions, mails, challenges, unfinished>>

\* Every session goes, whoever opened it: an earlier reset that stopped half way
\* is made good.
RevokeSessions(r) ==
  /\ At(r, "revokeAll")
  /\ RevokeAllUserTokens
  /\ unfinished' = FALSE
  /\ Return(r)
  /\ UNCHANGED <<account, verified, resets, mails, challenges>>

\* An hour has passed, or the operators' retention has removed the row.
ResetExpires(t) ==
  /\ t \in resets
  /\ resets' = resets \ {t}
  /\ UNCHANGED <<account, verified, sessions, mails, challenges, run, unfinished>>

-----------------------------------------------------------------------------
(***************************************************************************)
(* StartEmailVerification and VerifyEmail                                  *)
(***************************************************************************)
ResendVerification(r) == Start(r, "startMail", "current", NoToken) /\ UNCHANGED database

Unverified(r) == Read(r, "startMail", account = "active" /\ ~verified, "deleteMail")

DeleteMail(r) ==
  /\ At(r, "deleteMail")
  /\ mails' = {}
  /\ Goto(r, "saveMail")
  /\ UNCHANGED <<account, verified, sessions, resets, challenges, unfinished>>

SaveMail(r) ==
  /\ At(r, "saveMail")
  /\ SaveMailToken
  /\ Return(r)
  /\ UNCHANGED <<account, verified, sessions, resets, challenges, unfinished>>

VerifyEmail(r, t) == Start(r, "mailToken", "current", t) /\ UNCHANGED database

MailToken(r) == Read(r, "mailToken", run[r].token \in mails, "mailUser")

MailUser(r) ==
  Read(r, "mailUser", account = "active", IF verified THEN "clearMail" ELSE "setVerified")

SetVerified(r) ==
  /\ At(r, "setVerified")
  /\ verified' = TRUE
  /\ Goto(r, "clearMail")
  /\ UNCHANGED <<account, sessions, resets, mails, challenges, unfinished>>

ClearMail(r) ==
  /\ At(r, "clearMail")
  /\ mails' = {}
  /\ Return(r)
  /\ UNCHANGED <<account, verified, sessions, resets, challenges, unfinished>>

-----------------------------------------------------------------------------
\* A statement fails, the client goes away or the process stops.  What earlier
\* statements did stays; so does this one if only its answer was lost.
Abandon(r) ==
  /\ ~At(r, "idle")
  /\ unfinished' = (unfinished \/ run[r].pc \in Resetting)
  /\ Return(r)
  /\ UNCHANGED <<account, verified, sessions, resets, mails, challenges>>

\* DeleteAccount, the subject of AccountErasure: the tokens are revoked first.
CloseAccount ==
  /\ account = "active"
  /\ account' = "closed"
  /\ RevokeAllUserTokens
  /\ UNCHANGED <<verified, resets, mails, challenges, run, unfinished>>

Begin(r) ==
  \/ Register(r) \/ Login(r) \/ LoginTwoFactor(r) \/ ForgotPassword(r)
  \/ ResendVerification(r)
  \/ \E t \in Tokens : RefreshToken(r, t)
  \/ \E t \in ResetTokens : ResetPassword(r, t)
  \/ \E t \in MailTokens : VerifyEmail(r, t)

Proceed(r) ==
  \/ EmailFree(r) \/ CreateUser(r) \/ Provision(r)
  \/ VerifyPassword(r) \/ DemandFactor(r) \/ NoFactor(r) \/ VerifyFactor(r)
  \/ IssueTokens(r) \/ IsTokenValid(r) \/ IssueAccessToken(r)
  \/ FindUser(r) \/ ClearOldResets(r) \/ SaveReset(r)
  \/ GetUserIDByToken(r) \/ ResetUser(r) \/ UpdatePassword(r) \/ MarkUsed(r)
  \/ ClearResets(r) \/ RevokeSessions(r)
  \/ Unverified(r) \/ DeleteMail(r) \/ SaveMail(r) \/ MailToken(r) \/ MailUser(r)
  \/ SetVerified(r) \/ ClearMail(r)

SessionsNext ==
  \/ \E r \in Requests : Begin(r) \/ Proceed(r) \/ Abandon(r)
  \/ \E t \in Tokens : Logout(t)
  \/ \E t \in ResetTokens : ResetExpires(t)
  \/ \E pw \in Passwords : ChallengeExpires(pw)
  \/ CloseAccount

SessionsSpec == SessionsInit /\ [][SessionsNext]_sessionVars

-----------------------------------------------------------------------------
(***************************************************************************)
(* Properties                                                              *)
(***************************************************************************)

\* A reset of the password ends the sessions opened with the old one.  A session
\* whose password was replaced after it was opened lives only until the reset
\* reaches its last statement; a reset that ended half way leaves them open, and
\* the next one to reach it closes them too.  Only a login that had presented the
\* old password before the reset, and was late, opens a session that stays.
ResetEndsSessions ==
  (\E t \in Tokens : sessions[t] = "stale")
    => unfinished \/ \E r \in Requests : run[r].pc \in Resetting

=============================================================================
