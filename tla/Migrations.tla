----------------------------- MODULE Migrations -----------------------------
(***************************************************************************)
(* The migrate command: up, down and status, and the drift check of the    *)
(* doctor.  A command reads the tracking table once, plans, and then takes *)
(* two statements for each version: the script, which is one transaction,  *)
(* and the row of the tracking table.  Nothing locks out another command,  *)
(* and a command may end at each of the statements.  Binaries of different *)
(* releases, with fewer or more versions, meet the same database.          *)
(***************************************************************************)
EXTENDS Naturals, FiniteSets

CONSTANTS
  Releases,   \* the binaries, each by the highest version it embeds
  Repeatable, \* versions whose up script is written with IF NOT EXISTS
  Watched,    \* versions CEDriftRequirements names an object of
  Runners     \* commands that run at a time

VersionMax == CHOOSE n \in Releases : \A m \in Releases : m <= n
Versions == 1..VersionMax

VARIABLES
  schema,   \* versions whose objects are in the database
  tracked,  \* versions with a row in schema_migrations
  command,  \* each runner's command
  doubt,    \* history: versions at which a command ended between its two statements
  mixed,    \* history: has an up run at the same time as a down?
  inspection \* what the doctor has found

migrationVars == <<schema, tracked, command, doubt, mixed, inspection>>

NoCommand == [pc |-> "none"]
NoInspection == [pc |-> "none"]

MigrationsTypeOK ==
  /\ schema \subseteq Versions /\ tracked \subseteq Versions
  /\ \A r \in Runners : command[r] = NoCommand \/
       /\ command[r].pc \in {"script", "record"}
       /\ command[r].up \in BOOLEAN
       /\ command[r].plan \in SUBSET Versions \ {{}}
  /\ doubt \subseteq Versions /\ mixed \in BOOLEAN
  /\ inspection = NoInspection \/
       /\ inspection.pc \in {"drift", "done"}
       /\ inspection.release \in Releases
       /\ {inspection.clean, inspection.alone} \subseteq BOOLEAN

MigrationsInit ==
  /\ schema = {} /\ tracked = {}
  /\ command = [r \in Runners |-> NoCommand]
  /\ doubt = {} /\ mixed = FALSE
  /\ inspection = NoInspection

-----------------------------------------------------------------------------
\* Parse: the files of a binary give the versions 1..n, each with both scripts.
Embedded(release) == 1..release

\* What is embedded and not applied.
Pending(release, applied) == Embedded(release) \ applied

Latest(versions, n) == {v \in versions : Cardinality({u \in versions : u > v}) < n}

\* Mutant: versions the binary does not know are passed over.
RollbackKnown(release, applied, n) == Latest(applied \cap Embedded(release), n)

\* The last n versions applied; none when the binary does not know one of them.
RollbackPlan(release, applied, n) ==
  LET plan == Latest(applied, n)
  IN  IF plan \subseteq Embedded(release) THEN plan ELSE {}

Busy(r) == command[r] # NoCommand

\* A statement of a command changes what an inspection is looking at.
Disturb ==
  inspection' = IF inspection = NoInspection THEN inspection
                ELSE [inspection EXCEPT !.alone = FALSE]

Begin(r, up, plan) ==
  /\ ~Busy(r)
  /\ plan # {}
  /\ command' = [command EXCEPT ![r] = [pc |-> "script", up |-> up, plan |-> plan]]
  /\ mixed' = (mixed \/ \E q \in Runners : Busy(q) /\ command[q].up # up)
  /\ UNCHANGED <<schema, tracked, doubt, inspection>>

Up(r, release) == Begin(r, TRUE, Pending(release, tracked))

Down(r, release, n) == Begin(r, FALSE, RollbackPlan(release, tracked, n))

\* The command ends, with an error if its plan is not done.
Quit(r) == command' = [command EXCEPT ![r] = NoCommand]

\* Up goes through its plan in ascending order, down in descending order.
Current(r) ==
  CHOOSE v \in command[r].plan :
    \A u \in command[r].plan : IF command[r].up THEN v <= u ELSE u <= v

Applied(r) == IF command[r].up THEN schema \cup {Current(r)} ELSE schema \ {Current(r)}

\* execScript.  An up script that is not repeatable fails on objects that exist; a
\* down script drops what exists.
ExecScript(r) ==
  /\ Busy(r) /\ command[r].pc = "script"
  /\ command[r].up => Current(r) \in Repeatable \/ Current(r) \notin schema
  /\ schema' = Applied(r)
  /\ command' = [command EXCEPT ![r].pc = "record"]
  /\ Disturb
  /\ UNCHANGED <<tracked, doubt, mixed>>

\* The script fails and is rolled back.
ScriptFails(r) ==
  /\ Busy(r) /\ command[r].pc = "script"
  /\ Quit(r)
  /\ UNCHANGED <<schema, tracked, doubt, mixed, inspection>>

Recorded(r) == IF command[r].up THEN tracked \cup {Current(r)} ELSE tracked \ {Current(r)}

\* The INSERT or DELETE of the row; an INSERT that meets the row fails.
Record(r) ==
  /\ Busy(r) /\ command[r].pc = "record"
  /\ ~(command[r].up /\ Current(r) \in tracked)
  /\ tracked' = Recorded(r)
  /\ doubt' = doubt \ {Current(r)}
  /\ command' = [command EXCEPT ![r] = IF command[r].plan = {Current(r)} THEN NoCommand
                   ELSE [command[r] EXCEPT !.pc = "script", !.plan = @ \ {Current(r)}]]
  /\ Disturb
  /\ UNCHANGED <<schema, mixed>>

RecordConflicts(r) ==
  /\ Busy(r) /\ command[r].pc = "record"
  /\ command[r].up /\ Current(r) \in tracked
  /\ Quit(r)
  /\ UNCHANGED <<schema, tracked, doubt, mixed, inspection>>

\* The process dies, its 60 seconds are over or the connection breaks: the answer of
\* the statement under way, done or not, is lost.
Lost(r) ==
  /\ Busy(r)
  /\ \/ /\ command[r].pc = "script"
        /\ command[r].up => Current(r) \in Repeatable \/ Current(r) \notin schema
        /\ schema' = Applied(r) /\ UNCHANGED tracked
     \/ /\ command[r].pc = "record"
        /\ tracked' \in {tracked, Recorded(r)} /\ UNCHANGED schema
  /\ doubt' = doubt \cup {Current(r)}
  /\ Quit(r)
  /\ Disturb
  /\ UNCHANGED mixed

-----------------------------------------------------------------------------
(***************************************************************************)
(* checkMigrationReadiness of the doctor: status, then drift.              *)
(***************************************************************************)
\* BuildStatus: every row is of an embedded version and none is pending.
Status(release) ==
  /\ inspection = NoInspection
  /\ inspection' = [pc |-> "drift", release |-> release, alone |-> TRUE,
                    clean |-> /\ tracked \subseteq Embedded(release)
                              /\ Pending(release, tracked) = {}]
  /\ UNCHANGED <<schema, tracked, command, doubt, mixed>>

Drift ==
  /\ inspection # NoInspection /\ inspection.pc = "drift"
  /\ inspection' = [inspection EXCEPT !.pc = "done",
                      !.clean = @ /\ Watched \cap Embedded(inspection.release) \subseteq schema]
  /\ UNCHANGED <<schema, tracked, command, doubt, mixed>>

EndInspection ==
  /\ inspection # NoInspection /\ inspection.pc = "done"
  /\ inspection' = NoInspection
  /\ UNCHANGED <<schema, tracked, command, doubt, mixed>>

MigrationsNext ==
  \/ \E r \in Runners, release \in Releases :
       Up(r, release) \/ \E n \in Versions : Down(r, release, n)
  \/ \E r \in Runners :
       ExecScript(r) \/ ScriptFails(r) \/ Record(r) \/ RecordConflicts(r) \/ Lost(r)
  \/ (\E release \in Releases : Status(release)) \/ Drift \/ EndInspection

MigrationsSpec == MigrationsInit /\ [][MigrationsNext]_migrationVars

-----------------------------------------------------------------------------
\* The tracking table is true as long as no up ran beside a down.  Commands of any
\* release leave the rows an initial segment of the versions, so that none is passed
\* over.  A row and the objects of its version are there together, unless a command
\* is between its two statements or ended there.  A doctor who finds nothing while
\* no command runs is wrong only about a version that is in doubt and that none of
\* its schema requirements names.
TrackingTrue ==
  LET between == {Current(r) : r \in {q \in Runners : Busy(q) /\ command[q].pc = "record"}}
      known == Versions \ (doubt \cup between)
  IN  ~mixed =>
        /\ \A v \in tracked : 1..v \subseteq tracked
        /\ tracked \cap known = schema \cap known
        /\ inspection # NoInspection /\ inspection.pc = "done" /\ inspection.clean
             /\ inspection.alone
           => Embedded(inspection.release) \subseteq schema \cup (doubt \ Watched) \cup between

=============================================================================
