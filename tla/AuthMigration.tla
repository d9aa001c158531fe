----------------------------- MODULE AuthMigration -----------------------------
(***************************************************************************)
(* `c2c broker migrate-auth` (src/auth/migration.ts, src/cli/index.ts)     *)
(* next to the broker it migrates for.  The command is a process of its    *)
(* own: it reads the auth file of the installation, and the legacy files   *)
(* of per-workspace bridges, and later writes the merged set back; then    *)
(* it notes in migration.json which legacy files it merged, and restarts   *)
(* a broker that runs.  Nothing keeps the broker from saving in between.   *)
(* A legacy file holds one refresh token and is never rewritten.           *)
(***************************************************************************)
EXTENDS Authorization

VARIABLES
  files,     \* legacy files there are
  cli,       \* the command: "idle", "read", "written", "noted", "stopped"
  listed,    \* the legacy files it found
  noted      \* sourceFiles of migration.json; {} when there is none

migration == <<files, cli, listed, noted>>
allVars == <<vars, migration>>

MigrationInit ==
  /\ Init
  /\ files = {} /\ cli = "idle" /\ listed = {} /\ noted = {}

LegacyTokens(S) == {<<f, "refresh">> : f \in S}

\* A per-workspace bridge of an older version leaves its file.
LegacyFileAppears(f) ==
  /\ f \notin files
  /\ files' = files \cup {f}
  /\ UNCHANGED <<vars, cli, listed, noted>>

\* A file it cannot read counts as empty.
MigrateRead ==
  /\ cli = "idle" /\ files # {} /\ noted # files
  /\ cli' = "read" /\ listed' = files
  /\ merged' = (disk.tokens \cup LegacyTokens(files)) \ lapsed
  /\ UNCHANGED <<broker, pairing, requests, tokens, disk, issued, lapsed, faults, bounds, looked,
                 history, files, noted>>

\* Mutant: a write that fails goes unnoticed.
WriteUnnoticed ==
  /\ cli = "read"
  /\ cli' = "written" /\ merged' = {}
  /\ \/ /\ Write(merged, merged)
        /\ unloaded' = IF phase = "down" THEN {} ELSE merged \ tokens
     \/ SaveFails /\ UNCHANGED unloaded
  /\ UNCHANGED <<broker, pairing, requests, tokens, issued, lapsed, bounds, looked,
                 given, ending, answered, endings, files, listed, noted>>

MigrateWrite ==
  /\ cli = "read"
  /\ merged' = {}
  /\ \/ /\ Write(merged, merged)
        /\ unloaded' = IF phase = "down" THEN {} ELSE merged \ tokens
        /\ cli' = "written"
     \/ SaveFails /\ cli' = "idle" /\ UNCHANGED unloaded
  /\ UNCHANGED <<broker, pairing, requests, tokens, issued, lapsed, bounds, looked,
                 given, ending, answered, endings, files, listed, noted>>

\* A record that cannot be written, or is cut off, is read as none.
MigrateNote ==
  /\ cli = "written"
  /\ \/ /\ noted' = listed
        /\ cli' = "noted" /\ UNCHANGED faults
     \/ /\ faults < MaxFaults /\ faults' = faults + 1
        /\ noted' \in {noted, {}}
        /\ cli' = "idle"
  /\ UNCHANGED <<broker, pairing, requests, tokens, disk, issued, lapsed, bounds, commands,
                 history, files, listed>>

\* restartBroker stops the broker that it finds.
MigrateStop ==
  /\ cli = "noted" /\ seen /\ Stop
  /\ cli' = "stopped"
  /\ UNCHANGED <<files, listed, noted>>

\* The command is done: with --json, or when it finds no broker, it restarts
\* none; and it ends whether or not the one it stopped comes up again.
MigrateDone ==
  /\ cli \in {"noted", "stopped"}
  /\ cli' = "idle"
  /\ UNCHANGED <<vars, files, listed, noted>>

BrokerStep == Next /\ UNCHANGED migration

MigrationNext ==
  \/ BrokerStep
  \/ \E f \in Legacy : LegacyFileAppears(f)
  \/ MigrateRead \/ MigrateWrite \/ MigrateNote \/ MigrateStop \/ MigrateDone

MigrationSpec == MigrationInit /\ [][MigrationNext]_allVars
-----------------------------------------------------------------------------
\* Type correctness of the command's state.
MigrationTypeOK ==
  /\ files \subseteq Legacy /\ listed \subseteq files /\ noted \subseteq files
  /\ cli \in {"idle", "read", "written", "noted", "stopped"}
  /\ cli # "read" => merged = {}

\* What a migration noted as merged is accepted by every broker started after
\* the merged file was written, until it expires, is ended or is lost with the
\* file; the broker that was running then lacks exactly what it had not
\* loaded, until it is restarted.
MigratedAreRecognized ==
  /\ MigrationTypeOK
  /\ phase # "down" =>
       LegacyTokens(noted) \ (ending \cup lapsed \cup lost \cup unloaded) \subseteq tokens

\* A merged token that was exchanged or revoked is not accepted again: what is
\* noted as merged is not merged a second time (migration.ts:66).
MergedStaysEnded == \A t \in ended : t[1] \in Legacy => t \notin tokens \cup disk.tokens
=============================================================================
