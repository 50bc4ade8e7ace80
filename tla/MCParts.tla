------------------------------ MODULE MCParts ------------------------------
(***************************************************************************)
(* The parts of the system that share no state, side by side: the account  *)
(* parts (Sessions, SecondFactor, Passkeys, Devices) and the operators'    *)
(* parts (OpsChecks, Migrations, Deployment, RateLimit, QuotaAlerts).  No  *)
(* two of them share a variable, each allows whatever another could tell   *)
(* it, and every property is about one of them: a behaviour of the whole   *)
(* is one behaviour of each, so that it is enough to let one of them move. *)
(***************************************************************************)
EXTENDS Naturals, Sessions

CONSTANTS
  Checks, Codes, MaxFailures,                         \* SecondFactor
  Ceremonies, Challenges, Keys,                       \* Passkeys
  Asks, Uuids, MaxDevices,                            \* Devices
  Bundles, Snapshots, DefaultLimit, Limits, MaxFindings, MaxMoves, \* OpsChecks
  Releases, Repeatable, Watched, Runners,             \* Migrations
  MaxEdits,                                           \* Deployment
  Processes, Slots, Limit, LastWindow, MaxArrivals,   \* RateLimit
  Callers, StorageLimit, WarningThreshold, ExhaustedThreshold, Sizes \* QuotaAlerts

ASSUME PartsAssumption ==
  /\ IsFiniteSet(Checks) /\ MaxFailures \in Nat \ {0}
  /\ IsFiniteSet(Asks) /\ Asks # {} /\ MaxDevices \in Nat
  /\ "shared" \notin Processes /\ Limit \in Nat /\ LastWindow \in Nat
  /\ Releases \subseteq Nat /\ MaxFindings \in Nat \ {0}
  /\ StorageLimit \in Nat \ {0} /\ ExhaustedThreshold \in 1..100 /\ Sizes \subseteq Nat

VARIABLES
  row, codes, check, spent, guesses,
  creds, challenge, ceremony, finished,
  device, token, recorded, ask, cut,
  rows, later, pending, blob, probe, manifest, exam, faults, report,
  schema, tracked, command, doubt, mixed, inspection,
  edited, moved, edits, verdict, server,
  window, fallback, limiter, bucket, redis, counter, request, arrivals, seen,
  admitted, excused, refused,
  usage, stored, cache, call, told, untold,
  part  \* the one that moves

Factor == INSTANCE SecondFactor
Passkey == INSTANCE Passkeys
Device == INSTANCE Devices
Ops == INSTANCE OpsChecks
Migration == INSTANCE Migrations
Deploy == INSTANCE Deployment
Rate == INSTANCE RateLimit
Quota == INSTANCE QuotaAlerts

factorVars == <<row, codes, check, spent, guesses>>
passkeyVars == <<creds, challenge, ceremony, finished>>
deviceVars == <<device, token, recorded, ask, cut>>
opsVars == <<rows, later, pending, blob, probe, manifest, exam, faults, report>>
migrationVars == <<schema, tracked, command, doubt, mixed, inspection>>
deployVars == <<edited, moved, edits, verdict, server>>
rateVars == <<window, fallback, limiter, bucket, redis, counter, request, arrivals, seen,
              admitted, excused, refused>>
quotaVars == <<usage, stored, cache, call, told, untold>>
accountVars == <<sessionVars, factorVars, passkeyVars, deviceVars>>
operatorVars == <<opsVars, migrationVars, deployVars, rateVars, quotaVars>>
vars == <<accountVars, operatorVars, part>>

Parts == {"sessions", "factor", "passkeys", "devices", "ops", "migrations", "deployment",
          "rate", "quota"}

Init ==
  /\ SessionsInit /\ Factor!FactorInit /\ Passkey!PasskeyInit /\ Device!DeviceInit
  /\ Ops!OpsInit /\ Migration!MigrationsInit /\ Deploy!DeployInit /\ Rate!RateInit
  /\ Quota!QuotaInit
  /\ part \in Parts

Next ==
  \/ /\ part = "sessions" /\ SessionsNext
     /\ UNCHANGED <<factorVars, passkeyVars, deviceVars, operatorVars, part>>
  \/ /\ part = "factor" /\ Factor!FactorNext
     /\ UNCHANGED <<sessionVars, passkeyVars, deviceVars, operatorVars, part>>
  \/ /\ part = "passkeys" /\ Passkey!PasskeyNext
     /\ UNCHANGED <<sessionVars, factorVars, deviceVars, operatorVars, part>>
  \/ /\ part = "devices" /\ Device!DeviceNext
     /\ UNCHANGED <<sessionVars, factorVars, passkeyVars, operatorVars, part>>
  \/ /\ part = "ops" /\ Ops!OpsNext
     /\ UNCHANGED <<accountVars, migrationVars, deployVars, rateVars, quotaVars, part>>
  \/ /\ part = "migrations" /\ Migration!MigrationsNext
     /\ UNCHANGED <<accountVars, opsVars, deployVars, rateVars, quotaVars, part>>
  \/ /\ part = "deployment" /\ Deploy!DeployNext
     /\ UNCHANGED <<accountVars, opsVars, migrationVars, rateVars, quotaVars, part>>
  \/ /\ part = "rate" /\ Rate!RateNext
     /\ UNCHANGED <<accountVars, opsVars, migrationVars, deployVars, quotaVars, part>>
  \/ /\ part = "quota" /\ Quota!QuotaNext
     /\ UNCHANGED <<accountVars, opsVars, migrationVars, deployVars, rateVars, part>>

Spec == Init /\ [][Next]_vars

-----------------------------------------------------------------------------
\* The parts keep to their types.
TypeOK ==
  /\ SessionsTypeOK /\ Factor!FactorTypeOK /\ Passkey!PasskeyTypeOK
  /\ Device!DeviceTypeOK /\ Ops!OpsTypeOK /\ Migration!MigrationsTypeOK
  /\ Deploy!DeployTypeOK /\ Rate!RateTypeOK /\ Quota!QuotaTypeOK

\* Guessing a code stops at the lock, up to one guess of each request under way.
GuessesBounded == Factor!GuessesBounded

\* Two-factor protection goes off only by a request whose own code was right, or which
\* found it off when it read the row.
OnlyCodeDisables == Factor!OnlyCodeDisables

\* What is meant for one use is used once: a backup code opens one login, a passkey
\* challenge carries one ceremony.
UsedOnce == Factor!BackupCodeOnce /\ Passkey!ChallengeOnce

\* A further passkey takes a step-up, unless two registrations overlapped.
FurtherKeysTakeStepUp == Passkey!FurtherKeysTakeStepUp

\* The device limit is exceeded by requests at the same time only, and revocations
\* are recorded.
DevicesAccounted == Device!DevicesAccounted

\* A check that reports ok has missed nothing that was wrong all the time, unless a
\* row came between its count and its listing.
OkIsTrue == Ops!OkIsTrue

\* The tracking table of the migrations is true, and a clean inspection with it.
TrackingTrue == Migration!TrackingTrue

\* After a doctor or a rehearsal without errors a start fails for a blind spot only,
\* and a server that runs is ready, short of maintenance and a large bucket.
ClearedStarts == Deploy!ClearedStarts

\* A rate limit admits no more than its limit and refuses no less, short of a fault
\* or a late request.
CountsHold == Rate!CountsHold

\* A user has been told of an exhausted quota, short of overlapping writes and faults.
UserIsTold == Quota!UserIsTold

=============================================================================
