----------------------------- MODULE Deployment -----------------------------
(***************************************************************************)
(* Bringing a server up: the configuration, its validation at the start,   *)
(* the fatal points of main, and the two commands that are to tell before  *)
(* whether it will start - the doctor and the rehearsal - with readiness   *)
(* once it runs.  A setting is one of the classes its checks tell apart.   *)
(* The migrations and the restore check have modules of their own; here    *)
(* they are what the doctor and the rehearsal get to see of them.  Services*)
(* outside answer or refuse at once; only listing a large bucket takes     *)
(* longer than anybody waits for it.                                       *)
(***************************************************************************)
EXTENDS Naturals, FiniteSets

CONSTANT MaxEdits \* bound: settings that differ from the working ones

\* The settings and what each may be.
Choices == [
  file |-> {"readable", "broken"},
  jwt |-> {"valid", "missing", "undecodable"},
  secret |-> {"valid", "invalid"},
  adminKey |-> {"strong", "weak", "missing"},
  database |-> {"set", "missing"},
  pool |-> {"valid", "invalid"},
  redis |-> {"set", "missing"},
  s3 |-> {"complete", "no_bucket", "no_endpoint", "no_keys"},
  metrics |-> {"off", "on", "bad_path"},
  cidrs |-> {"valid", "none", "invalid"},
  failMode |-> {"fail_closed", "fail_open", "invalid"},
  fallback |-> {"deny", "memory", "disable", "invalid"},
  originCheck |-> {"on", "off"},
  origins |-> {"valid", "none", "invalid"},
  caps |-> {"positive", "zero", "negative"},
  smtp |-> {"on", "off"},
  smtpServer |-> {"set", "missing", "blank"},
  smtpPort |-> {"valid", "invalid"},
  smtpFrom |-> {"address", "missing", "malformed"},
  smtpTLS |-> {"valid", "padded", "invalid"},
  alerts |-> {"email", "none", "bad_webhook"},
  oidc |-> {"off", "complete", "incomplete"},
  turnstile |-> {"off", "complete", "incomplete"},
  thresholds |-> {"valid", "invalid"},
  history |-> {"valid", "invalid"},
  opsLimit |-> {"valid", "invalid"},
  options |-> {"none", "readable", "malformed"}]

Settings == DOMAIN Choices

Working == [file |-> "readable", jwt |-> "valid", secret |-> "valid", adminKey |-> "strong",
  database |-> "set", pool |-> "valid", redis |-> "set", s3 |-> "complete",
  metrics |-> "off", cidrs |-> "valid", failMode |-> "fail_closed", fallback |-> "deny",
  originCheck |-> "on", origins |-> "valid", caps |-> "positive", smtp |-> "on",
  smtpServer |-> "set", smtpPort |-> "valid", smtpFrom |-> "address", smtpTLS |-> "valid",
  alerts |-> "email", oidc |-> "off", turnstile |-> "off", thresholds |-> "valid",
  history |-> "valid", opsLimit |-> "valid", options |-> "none"]

\* What the deployment meets outside, and what it may be.
Surroundings == [
  database |-> {"up", "down"},
  tracking |-> {"match", "pending", "foreign"},
  drift |-> {"none", "warn", "error"},
  redis |-> {"up", "down"},
  bucket |-> {"present", "large", "absent", "unlistable", "unreachable"},
  makeBucket |-> {"allowed", "denied"},
  maintenance |-> {"off", "on"},
  signups |-> {"on", "off"},
  passkeys |-> {"off", "valid", "bad_origins", "bad_rp_id"},
  port |-> {"free", "taken"}]

Sound == [database |-> "up", tracking |-> "match", drift |-> "none", redis |-> "up",
  bucket |-> "present", makeBucket |-> "allowed", maintenance |-> "off", signups |-> "on",
  passkeys |-> "off", port |-> "free"]

VARIABLES
  edited,  \* the settings that are not the working ones
  moved,   \* the surroundings that are not sound
  edits,   \* changes so far
  verdict, \* what the last doctor or rehearsal said of cfg and world as they are
  server   \* the server: down, up, or failed for a set of causes; its Redis client

deployVars == <<edited, moved, edits, verdict, server>>

Over(changes, base) ==
  [k \in DOMAIN base |-> IF k \in DOMAIN changes THEN changes[k] ELSE base[k]]

With(changes, k, v) ==
  [j \in DOMAIN changes \cup {k} |-> IF j = k THEN v ELSE changes[j]]

\* The configuration of file and environment over its defaults, and the surroundings.
cfg == Over(edited, Working)
world == Over(moved, Sound)

NoVerdict == [by |-> "none", severities |-> {}]
Down == [state |-> "down", causes |-> {}, cache |-> FALSE]

DeployTypeOK ==
  /\ \A k \in DOMAIN edited : edited[k] \in Choices[k]
  /\ \A k \in DOMAIN moved : moved[k] \in Surroundings[k]
  /\ edits \in 0..MaxEdits
  /\ verdict.by \in {"none", "doctor", "rehearsal"}
  /\ verdict.severities \subseteq {"ok", "warn", "error", "maintenance"}
  /\ server.state \in {"down", "up", "failed"} /\ server.cache \in BOOLEAN

DeployInit ==
  /\ edited = <<>> /\ moved = <<>>
  /\ edits = 0
  /\ verdict = NoVerdict
  /\ server = Down

-----------------------------------------------------------------------------
\* An operator edits a setting: what was said of the old ones is over.
EditConfig(k, v) ==
  /\ server.state # "up"
  /\ edits < MaxEdits
  /\ v \in Choices[k] \ {cfg[k]}
  /\ edited' = With(edited, k, v)
  /\ edits' = edits + 1
  /\ verdict' = NoVerdict /\ server' = Down
  /\ UNCHANGED moved

\* Something outside changes, also under a server that runs.
WorldChanges(k, v) ==
  /\ edits < MaxEdits
  /\ v \in Surroundings[k] \ {world[k]}
  /\ moved' = With(moved, k, v)
  /\ edits' = edits + 1
  /\ verdict' = NoVerdict
  /\ server' = IF server.state = "failed" THEN Down ELSE server
  /\ UNCHANGED edited

-----------------------------------------------------------------------------
(***************************************************************************)
(* Config.Validate: the sections with an error                             *)
(***************************************************************************)
\* DecodeSecuritySecret runs in the validation, the decoding of the signing key
\* later: here only its absence counts.
ValidateKeys == (IF cfg.jwt = "missing" THEN {"jwt"} ELSE {})
                \cup (IF cfg.secret = "invalid" THEN {"secret"} ELSE {})

ValidateDatabase == (IF cfg.database = "missing" THEN {"database"} ELSE {})
                    \cup (IF cfg.pool = "invalid" THEN {"pool"} ELSE {})
                    \cup (IF cfg.s3 = "no_bucket" THEN {"s3"} ELSE {})

ValidateProviders ==
  {k \in {"oidc", "turnstile"} : cfg[k] = "incomplete"}

ValidateLimits ==
  (IF cfg.metrics = "bad_path" THEN {"metrics"} ELSE {})
  \cup {k \in {"failMode", "fallback", "origins"} : cfg[k] = "invalid"}
  \cup (IF cfg.caps = "negative" THEN {"caps"} ELSE {})

\* The TLS mode is compared as it stands, spaces included, and whether or not SMTP is
\* on; the other SMTP settings only when it is.
ValidateMail ==
  {k \in {"thresholds", "history", "opsLimit"} : cfg[k] = "invalid"}
  \cup (IF cfg.smtpTLS # "valid" THEN {"smtpTLS"} ELSE {})
  \cup (IF cfg.smtp = "off" THEN {}
        ELSE {k \in {"smtpServer", "smtpFrom"} : cfg[k] = "missing"}
             \cup {k \in {"smtpPort"} : cfg[k] = "invalid"})

Validate == ValidateKeys \cup ValidateDatabase \cup ValidateProviders
            \cup ValidateLimits \cup ValidateMail

\* NewS3Storage: a bucket that is absent is made.
StorageFails ==
  \/ cfg.s3 \in {"no_endpoint", "no_bucket"}
  \/ world.bucket = "unreachable"
  \/ world.bucket = "absent" /\ (world.makeBucket = "denied" \/ cfg.s3 = "no_keys")

DatabaseFails == cfg.database = "missing" \/ world.database = "down"

BucketMade == IF world.bucket = "absent" THEN With(moved, "bucket", "present") ELSE moved

\* NewSMTPNotifier parses the address.
MailFails == cfg.smtp = "on" /\ (cfg.smtpServer = "blank" \/ cfg.smtpFrom = "malformed")

\* main: the first fatal point is where it ends.  The bucket may have been made by
\* then.  A Redis that does not answer now is done without until the next start, and
\* the migrations are not looked at.
Start ==
  /\ server.state = "down"
  /\ LET stop ==
           CASE cfg.file = "broken" -> {"file"}
             [] Validate # {} -> Validate
             [] DatabaseFails -> {"database"}
             [] StorageFails -> {"s3"}
             [] cfg.jwt = "undecodable" -> {"jwt"}
             [] MailFails -> {"smtp"}
             [] cfg.options = "malformed" -> {"options"}
             [] world.port = "taken" -> {"port"}
             [] OTHER -> {}
         early == cfg.file = "broken" \/ Validate # {} \/ DatabaseFails \/ StorageFails
     IN  /\ server' = [state |-> IF stop = {} THEN "up" ELSE "failed", causes |-> stop,
                        cache |-> stop = {} /\ cfg.redis = "set" /\ world.redis = "up"]
         /\ moved' = IF early THEN moved ELSE BucketMade
  /\ UNCHANGED <<edited, edits, verdict>>

\* A signal: background work is cancelled, requests are drained, the pool is closed.
Stop ==
  /\ server.state # "down"
  /\ server' = Down
  /\ UNCHANGED <<edited, moved, edits, verdict>>

-----------------------------------------------------------------------------
(***************************************************************************)
(* RunCE: the severities of the doctor's checks                            *)
(***************************************************************************)
Flag(error, warn) == IF error THEN "error" ELSE IF warn THEN "warn" ELSE "ok"

\* Mutant: a signing key is accepted as long as there is one.
CheckPresence(c) == Flag(c.jwt = "missing", FALSE)

CheckJWT(c) == Flag(c.jwt # "valid", FALSE)

CheckSecuritySecret(c) == Flag(c.secret = "invalid", FALSE)

CheckAdminKey(c) == Flag(FALSE, c.adminKey # "strong")

CheckPostgres(c, w) == Flag(c.database = "missing" \/ w.database = "down", FALSE)

CheckRedis(c, w) == Flag(FALSE, c.redis = "missing" \/ w.redis = "down")

\* A probe that reads only: an absent bucket is an error.  It asks for one object, so
\* the size of the bucket does not matter.
CheckS3(c, w) == Flag(c.s3 # "complete" \/ w.bucket \notin {"present", "large"}, FALSE)

CheckRateLimit(c) ==
  IF "invalid" \in {c.failMode, c.fallback} THEN {"error"}
  ELSE {"ok", Flag(FALSE, c.fallback # "deny"), Flag(FALSE, c.failMode = "fail_open")}

CheckMetrics(c) ==
  IF c.metrics = "off" THEN {"ok"}
  ELSE {Flag(c.metrics = "bad_path", FALSE), Flag(c.cidrs = "invalid", c.cidrs = "none")}

\* Origins are looked at only while their check is on.
CheckWebSocket(c) ==
  {IF c.originCheck = "off" THEN "warn" ELSE Flag(c.origins = "invalid", c.origins = "none"),
   Flag(c.caps = "negative", c.caps = "zero")}

\* Trimmed values; an address is only there or not.
CheckSMTP(c) ==
  Flag(c.smtp = "on" /\ (\/ c.smtpServer # "set" \/ c.smtpPort = "invalid"
                         \/ c.smtpFrom = "missing" \/ c.smtpTLS = "invalid"), FALSE)

CheckOpsAlerts(c) == Flag(c.alerts = "bad_webhook", c.alerts = "none")

\* Without a database the settings are the defaults of the code.
CheckMigrations(dbOK, w) ==
  IF ~dbOK THEN {"warn"}
  ELSE {Flag(w.tracking = "foreign", w.tracking = "pending"),
        Flag(w.drift = "error", w.drift = "warn")}

CheckPasskey(w) == Flag(w.passkeys \in {"bad_origins", "bad_rp_id"}, FALSE)

CheckSettings(dbOK, w) ==
  IF ~dbOK THEN {"warn"}
  ELSE {Flag(FALSE, w.signups = "off"), CheckPasskey(w)}
       \cup (IF w.maintenance = "on" THEN {"warn", "maintenance"} ELSE {})

Diagnose(c, w) ==
  LET dbOK == CheckPostgres(c, w) = "ok"
  IN  IF c.file = "broken" THEN {"error"}
      ELSE {CheckJWT(c), CheckSecuritySecret(c), CheckAdminKey(c), CheckPostgres(c, w),
            CheckRedis(c, w), CheckS3(c, w), CheckSMTP(c), CheckOpsAlerts(c)}
           \cup CheckRateLimit(c) \cup CheckMetrics(c) \cup CheckWebSocket(c)
           \cup CheckMigrations(dbOK, w) \cup CheckSettings(dbOK, w)

\* runDoctor loads the configuration unchecked.
Doctor ==
  /\ verdict' = [by |-> "doctor", severities |-> Diagnose(cfg, world)]
  /\ UNCHANGED <<edited, moved, edits, server>>

\* What the steps of a rehearsal run on; without it the rehearsal is one error.
NoRuntime == cfg.file = "broken" \/ DatabaseFails \/ StorageFails

\* opsStatus: a restore check that is unhealthy is an error.
RestoreSeverity(status) == Flag(status = "unhealthy", status = "degraded")

\* The rehearsal connects the way the server does - which makes the bucket - before
\* it lets the doctor look.  A support bundle that fails is a warning.
Rehearse(restore, bundle) ==
  /\ verdict' = [by |-> "rehearsal", severities |->
       IF NoRuntime THEN {"error"}
       ELSE Diagnose(cfg, Over(BucketMade, Sound))
            \cup {Flag(world.tracking = "foreign", FALSE),
                  Flag(world.drift = "error", world.drift = "warn"),
                  RestoreSeverity(restore),
                  Flag(FALSE, ~bundle)}]
  /\ moved' = IF NoRuntime THEN moved ELSE BucketMade
  /\ UNCHANGED <<edited, edits, server>>

DeployNext ==
  \/ \E k \in Settings : \E v \in Choices[k] : EditConfig(k, v)
  \/ \E k \in DOMAIN Surroundings : \E v \in Surroundings[k] : WorldChanges(k, v)
  \/ Start \/ Stop \/ Doctor
  \/ \E restore \in {"ok", "degraded", "unhealthy"}, bundle \in BOOLEAN :
       Rehearse(restore, bundle)

DeploySpec == DeployInit /\ [][DeployNext]_deployVars

-----------------------------------------------------------------------------
\* Readyz of a server that runs.  It lists the whole bucket, page by page, within the
\* 3 s of the request: a large bucket is one that takes longer.
Readyz ==
  IF world.maintenance = "on" \/ world.database = "down" \/ world.bucket # "present"
    THEN "unhealthy"
  ELSE IF server.cache /\ world.redis = "down" THEN "degraded" ELSE "ok"

\* What the doctor does not look at, or looks at with other eyes than the server.
BlindSpots ==
  {"pool", "oidc", "turnstile", "thresholds", "history", "opsLimit", "options", "port"}
  \cup (IF cfg.originCheck = "off" THEN {"origins"} ELSE {})
  \cup (IF cfg.smtp = "off" \/ cfg.smtpTLS = "padded" THEN {"smtpTLS"} ELSE {})
  \cup (IF cfg.smtpFrom = "malformed" THEN {"smtp"} ELSE {})

\* A clearance is worth something.  When the doctor or the rehearsal has found no
\* error and nothing has changed since, a server that does not start fails for one of
\* the doctor's blind spots only; and one that starts is ready, unless the doctor has
\* warned of the maintenance mode or the bucket is too large for the readiness check,
\* of which nobody warns.
ClearedStarts ==
  verdict # NoVerdict /\ "error" \notin verdict.severities =>
    /\ server.state = "failed" => server.causes \subseteq BlindSpots
    /\ server.state = "up" =>
         \/ Readyz # "unhealthy"
         \/ "maintenance" \in verdict.severities
         \/ world.bucket = "large"

=============================================================================
