--------------------------- MODULE MCAuthMigration ---------------------------
(***************************************************************************)
(* Two authorization requests, two pairing sessions, two grants, and one   *)
(* or two legacy files.  At most one token is revoked by its client.       *)
(* Around an `unpair` that writes the file itself there is at most one     *)
(* failing save or expiry, and no wrong code but the last.  Once there is  *)
(* a legacy file, the broker is left one pairing session, one page, the    *)
(* right code, one failing save and no expiry, and nothing fails around an *)
(* `unpair`; before, nobody has its token.                                 *)
(***************************************************************************)
EXTENDS AuthMigration, FiniteSets, TLC

FewRevoked == Cardinality(answered) <= 1
Unpairing == looked \/ overlooked # {}
UpToTheCode == left \in {0, MaxAttempts}

WithoutLegacy ==
  /\ files = {} /\ \A t \in lapsed \cup answered \cup ending : t[1] \notin Legacy
  /\ Unpairing => faults + lapses <= 1 /\ answered = {} /\ UpToTheCode

WithLegacy ==
  /\ files # {} /\ created <= 1 /\ UpToTheCode /\ faults <= 1 /\ lapses = 0
  /\ Cardinality({r \in Requests : req[r] # "new"}) <= 1
  /\ Unpairing => faults = 0 /\ answered = {}

Bounded == FewRevoked /\ (WithoutLegacy \/ WithLegacy)
BoundedSpec == MigrationInit /\ [][MigrationNext /\ Bounded']_allVars

RequestsAlike == Permutations(Requests)
LegacyAlike == Permutations(Legacy)
=============================================================================
