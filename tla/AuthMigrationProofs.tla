------------------------- MODULE AuthMigrationProofs -------------------------
(***************************************************************************)
(* Proofs about Authorization and AuthMigration, for any numbers of        *)
(* requests, pairings, grants, legacy files, failing saves and restarts.   *)
(*                                                                         *)
(* Two invariants carry them.  Pairings follows a pairing from its session *)
(* over its code to its refresh token, in memory, in the file and in what  *)
(* the migration is about to write.  Ends relates those three stores to    *)
(* what clients were given and what was ended, with commands that work on  *)
(* the file of a broker that runs: what the history lists as copied,       *)
(* overlooked, lost or unloaded is excepted, and nothing else is.          *)
(***************************************************************************)
EXTENDS AuthMigration, TLAPS

\* A token of a grant that was made, or of a legacy file.
IsIssued(t) == t[1] \in Legacy \cup 1..grants

\* Where tokens are: in memory, in the file, and in what is to be written.
Stored == tokens \cup disk.tokens \cup merged

\* Numbers are given out in order.
Numbering ==
  /\ \A g \in Grants : root[g] <= created
  /\ \A f \in Legacy : root[f] = 0
  /\ \A r \in Requests : from[r] <= created
  /\ \A t \in Stored \cup given \cup ended : IsIssued(t)

\* A pairing is at one place: its session, its code or its refresh token.
OnePlace ==
  /\ OneEach(tokens) /\ OneEach(disk.tokens) /\ OneEach(merged)
  /\ \A r \in Codes : from[r] # 0 /\ from[r] # session
  /\ \A r, s \in Codes : from[r] = from[s] => r = s
  /\ \A t \in Refreshers(Stored) :
       root[t[1]] # session /\ \A r \in Codes : root[t[1]] # from[r]

Pairings == TypeOK /\ MigrationTypeOK /\ Numbering /\ OnePlace

\* What clients were given and what was noted, or is about to be, as merged.
Reckoned ==
  given \cup LegacyTokens(noted) \cup (IF cli = "written" THEN LegacyTokens(listed) ELSE {})

\* What clients may still count on.
Due == Reckoned \ (ending \cup lapsed \cup lost)

\* What the command is going to write has the tokens of the legacy files.
Migrating == cli = "read" => LegacyTokens(listed) \ lapsed \subseteq merged

\* What is due is in the file, and in the memory of a broker that has loaded
\* it.
DueIsKept ==
  /\ Due \subseteq disk.tokens
  /\ phase # "down" => Due \subseteq tokens \cup unloaded

\* EndedStaysEnded, with what is going to be written.
EndedIsGone == \A t \in ended \ copied : t[1] \in Legacy \/ t \notin Stored

\* NothingSurvivesRevokeAll, with what is going to be written.
OverIsOver ==
  /\ session = 0 \/ ~Over(session)
  /\ \A r \in Codes : ~Over(from[r])
  /\ \A t \in Rooted(Stored) : ~Over(root[t[1]])

Ends == Migrating /\ DueIsKept /\ EndedIsGone /\ OverIsOver
-----------------------------------------------------------------------------
(* Types.                                                                  *)

\* What can be in the file.
LEMMA FileTypes ==
  /\ Unreadable \in [readable : BOOLEAN, tokens : SUBSET Tokens]
  /\ Unreadable.tokens = {} /\ ~Unreadable.readable
  /\ \A S \in SUBSET Tokens :
       [readable |-> TRUE, tokens |-> S] \in [readable : BOOLEAN, tokens : SUBSET Tokens]
BY DEF Unreadable

\* What a write and a failed write leave in the file.
LEMMA WriteTypes ==
  ASSUME TypeOK, NEW content \in SUBSET Tokens, NEW known,
         Write(content, known) \/ SaveFails
  PROVE  /\ disk' \in [readable : BOOLEAN, tokens : SUBSET Tokens]
         /\ faults' \in 0..MaxFaults /\ lost' \subseteq Tokens
<1>1. disk.tokens \subseteq Tokens /\ lost \subseteq Tokens
  BY DEF TypeOK
<1>2. CASE Write(content, known)
  BY <1>1, <1>2, FileTypes DEF TypeOK, Write
<1>3. CASE SaveFails
  BY <1>1, <1>3, FileTypes, ConstantsAssumption DEF TypeOK, SaveFails
<1> QED
  BY <1>2, <1>3

\* A file is a readable flag and a set of tokens, whatever a save did.
LEMMA SaveTypes ==
  ASSUME TypeOK, NEW content \in SUBSET Tokens, Saved(content) \/ SaveFails
  PROVE  /\ disk' \in [readable : BOOLEAN, tokens : SUBSET Tokens]
         /\ faults' \in 0..MaxFaults /\ lost' \subseteq Tokens
<1>1. content \ lapsed \in SUBSET Tokens
  OBVIOUS
<1> QED
  BY <1>1, WriteTypes DEF Saved

\* The tokens of a grant.
LEMMA PairTypes ==
  ASSUME TypeOK, grants < MaxGrants, NEW offline \in BOOLEAN
  PROVE  /\ grants + 1 \in Grants /\ grants + 1 \in 0..MaxGrants
         /\ grants + 1 \notin Legacy /\ grants + 1 \notin 1..grants
         /\ Pair(grants + 1, offline) \subseteq Tokens
         /\ \A t \in Pair(grants + 1, offline) : t[1] = grants + 1
BY ConstantsAssumption DEF TypeOK, Grants, Tokens, Kinds, Pair

\* Issuing keeps the types of what it changes.
LEMMA IssueTypes ==
  ASSUME TypeOK, NEW origin \in 0..MaxPairings, NEW offline \in BOOLEAN,
         NEW gone \in SUBSET Tokens, Issue(origin, offline, gone)
  PROVE  /\ grants' \in 0..MaxGrants /\ root' \in [Grants -> 0..MaxPairings]
         /\ tokens' \subseteq Tokens /\ ending' \subseteq Tokens
         /\ disk' \in [readable : BOOLEAN, tokens : SUBSET Tokens] /\ faults' \in 0..MaxFaults
         /\ given' \subseteq Tokens /\ ended' \subseteq Tokens
         /\ copied' \subseteq ended' /\ lost' \subseteq Tokens
         /\ UNCHANGED <<answered, barrier, overlooked, unloaded>>
<1> DEFINE new == Pair(grants + 1, offline)
<1>1. /\ grants < MaxGrants /\ grants' = grants + 1
      /\ root' = [root EXCEPT ![grants + 1] = origin]
      /\ tokens' = (tokens \ gone) \cup new
      /\ ending' = ending \cup gone
      /\ given' = given \cup new \/ given' = given
      /\ \/ ended' = ended \cup gone /\ copied' = (copied \ gone) \cup (gone \cap merged)
         \/ UNCHANGED <<ended, copied>>
      /\ Saved(tokens') \/ SaveFails
      /\ UNCHANGED <<answered, barrier, overlooked, unloaded>>
  BY DEF Issue, End
<1>2. new \subseteq Tokens /\ grants + 1 \in Grants /\ grants + 1 \in 0..MaxGrants
  BY <1>1, PairTypes
<1> HIDE DEF new
<1>3. tokens' \subseteq Tokens
  BY <1>1, <1>2 DEF TypeOK
<1>4. /\ disk' \in [readable : BOOLEAN, tokens : SUBSET Tokens]
      /\ faults' \in 0..MaxFaults /\ lost' \subseteq Tokens
  BY <1>1, <1>3, SaveTypes
<1> QED
  BY <1>1, <1>2, <1>3, <1>4 DEF TypeOK

\* Steps of pairing and of authorization requests.
LEMMA PairingTypes ==
  ASSUME TypeOK,
         \/ CreatePairing \/ LapseOnce
         \/ \E r \in Requests : OpenPage(r) \/ EnterCode(r) \/ EnterWrongCode(r) \/ RedeemMismatch(r)
  PROVE  TypeOK'
<1> USE ConstantsAssumption DEF broker, pairing, requests, issued, bounds, commands, endings, history
<1>1. CASE CreatePairing
  BY <1>1 DEF CreatePairing, TypeOK
<1>2. CASE LapseOnce
  BY <1>2 DEF LapseOnce, Lapse, TypeOK
<1>3. ASSUME NEW r \in Requests, OpenPage(r) \/ RedeemMismatch(r) PROVE TypeOK'
  BY <1>3 DEF OpenPage, RedeemMismatch, TypeOK
<1>4. ASSUME NEW r \in Requests, EnterCode(r) PROVE TypeOK'
  BY <1>4 DEF EnterCode, TypeOK
<1>5. ASSUME NEW r \in Requests, EnterWrongCode(r) PROVE TypeOK'
  <2>1. left' \in 0..MaxAttempts /\ session' \in {0, created} /\ (session' # 0 => left' > 0)
    BY <1>5 DEF EnterWrongCode, TypeOK
  <2> QED
    BY <1>5, <2>1 DEF EnterWrongCode, TypeOK
<1> QED
  BY <1>1, <1>2, <1>3, <1>4, <1>5

\* Steps of the token endpoint, revocation and expiry.
LEMMA TokenTypes ==
  ASSUME TypeOK,
         \/ \E r \in Requests : Redeem(r)
         \/ \E t \in Tokens : Refresh(t) \/ Revoke(t) \/ RevokeAbsent(t) \/ LapseToken(t)
         \/ RevokeAll \/ LookForBroker \/ RevokeAllOffline \/ RegisterClient
  PROVE  TypeOK'
<1> USE DEF broker, pairing, requests, issued, bounds, commands, endings, history
<1>1. {} \in SUBSET Tokens /\ tokens \in SUBSET Tokens
  BY DEF TypeOK
<1>2. ASSUME NEW r \in Requests, Redeem(r) PROVE TypeOK'
  <2>1. PICK offline \in BOOLEAN : Issue(from[r], offline, {})
    BY <1>2 DEF Redeem
  <2>2. from[r] \in 0..MaxPairings
    BY DEF TypeOK
  <2>3. /\ grants' \in 0..MaxGrants /\ root' \in [Grants -> 0..MaxPairings]
        /\ tokens' \subseteq Tokens /\ ending' \subseteq Tokens
        /\ disk' \in [readable : BOOLEAN, tokens : SUBSET Tokens] /\ faults' \in 0..MaxFaults
        /\ given' \subseteq Tokens /\ ended' \subseteq Tokens
        /\ copied' \subseteq ended' /\ lost' \subseteq Tokens
        /\ UNCHANGED <<answered, barrier, overlooked, unloaded>>
    BY <1>1, <2>1, <2>2, IssueTypes
  <2> QED
    BY <1>2, <2>3 DEF Redeem, TypeOK
<1>3. ASSUME NEW t \in Tokens, Refresh(t) PROVE TypeOK'
  <2>1. root[t[1]] \in 0..MaxPairings /\ {t} \in SUBSET Tokens
    BY DEF TypeOK, Tokens
  <2> QED
    BY <1>3, <2>1, IssueTypes DEF Refresh, TypeOK
<1>4. ASSUME NEW t \in Tokens, Revoke(t) PROVE TypeOK'
  <2>1. tokens' \in SUBSET Tokens /\ (Saved(tokens') \/ SaveFails)
    BY <1>1, <1>4 DEF Revoke
  <2>2. /\ disk' \in [readable : BOOLEAN, tokens : SUBSET Tokens]
        /\ faults' \in 0..MaxFaults /\ lost' \subseteq Tokens
    BY <2>1, SaveTypes
  <2>3. ended' \subseteq Tokens /\ copied' \subseteq ended'
    BY <1>4 DEF Revoke, End, TypeOK
  <2> QED
    BY <1>4, <2>1, <2>2, <2>3 DEF Revoke, TypeOK
<1>5. ASSUME NEW t \in Tokens, RevokeAbsent(t) PROVE TypeOK'
  BY <1>5 DEF RevokeAbsent, TypeOK
<1>6. ASSUME NEW t \in Tokens, LapseToken(t) PROVE TypeOK'
  BY <1>6, ConstantsAssumption DEF LapseToken, Lapse, TypeOK
<1>7. ASSUME NEW S \in SUBSET (0..MaxPairings), NEW held \in SUBSET Tokens, UNCHANGED <<created, root>>,
             EverythingEnded(S, held) \/ UNCHANGED endings
      PROVE  /\ ended' \subseteq Tokens /\ copied' \subseteq ended'
             /\ barrier' \in 0..created' /\ overlooked' \subseteq 0..MaxPairings
  <2>1. Issued \subseteq Tokens /\ disk.tokens \subseteq Tokens
    BY ConstantsAssumption DEF Issued, Tokens, Grants, TypeOK
  <2>2. RootsOf(held) \subseteq 0..MaxPairings
    BY DEF RootsOf, Tokens, TypeOK
  <2>3. created \in 0..created
    BY ConstantsAssumption DEF TypeOK
  <2> QED
    BY <1>7, <2>1, <2>2, <2>3 DEF EverythingEnded, End, TypeOK
<1>8. {} \in SUBSET (0..MaxPairings) /\ merged \in SUBSET Tokens /\ tokens \cup merged \in SUBSET Tokens
      /\ Outstanding \in SUBSET (0..MaxPairings)
  BY ConstantsAssumption DEF TypeOK, Outstanding, Codes
<1>9. CASE RevokeAll
  <2>1. ending' \subseteq Tokens
    BY <1>9 DEF RevokeAll, TypeOK
  <2> QED
    BY <1>1, <1>7, <1>8, <1>9, <2>1, SaveTypes DEF RevokeAll, TypeOK
<1>10. CASE RevokeAllOffline
  <2>1. ending' \subseteq Tokens
    BY <1>10 DEF RevokeAllOffline, TypeOK
  <2> QED
    BY <1>1, <1>7, <1>8, <1>10, <2>1, WriteTypes DEF RevokeAllOffline, TypeOK
<1>11. CASE RegisterClient
  BY <1>1, <1>11, SaveTypes DEF RegisterClient, TypeOK
<1>12. CASE LookForBroker
  BY <1>12 DEF LookForBroker, TypeOK
<1> QED
  BY <1>2, <1>3, <1>4, <1>5, <1>6, <1>9, <1>10, <1>11, <1>12

\* Steps of the broker process.
LEMMA ProcessTypes == ASSUME TypeOK, Start \/ Publish \/ Stop PROVE TypeOK'
<1> USE ConstantsAssumption DEF broker, pairing, requests, issued, bounds, commands, endings, history
<1>1. CASE Start
  BY <1>1 DEF Start, TypeOK
<1>2. CASE Publish
  BY <1>2 DEF Publish, TypeOK
<1>3. CASE Stop
  BY <1>3 DEF Stop, TypeOK
<1> QED
  BY <1>1, <1>2, <1>3

\* What the command is going to write is its own.
LEMMA BrokerKeepsMerged == Next => merged' = merged
BY DEF Next, CreatePairing, OpenPage, EnterCode, EnterWrongCode, Redeem, RedeemMismatch, Refresh,
       Revoke, RevokeAbsent, LapseToken, RevokeAll, LookForBroker, RevokeAllOffline, RegisterClient,
       LapseOnce, Lapse, Start, Publish, Stop, commands

\* A step of the broker or of the command keeps the types.
LEMMA TypesPreserved ==
  TypeOK /\ MigrationTypeOK /\ [MigrationNext]_allVars => TypeOK' /\ MigrationTypeOK'
<1> SUFFICES ASSUME TypeOK, MigrationTypeOK, [MigrationNext]_allVars
             PROVE  TypeOK' /\ MigrationTypeOK'
  OBVIOUS
<1> USE DEF broker, pairing, requests, issued, bounds, commands, endings, history
<1>1. Next => TypeOK'
  BY PairingTypes, TokenTypes, ProcessTypes DEF Next
<1>2. CASE BrokerStep
  BY <1>1, <1>2, BrokerKeepsMerged DEF BrokerStep, migration, MigrationTypeOK
<1>3. ASSUME NEW f \in Legacy, LegacyFileAppears(f) PROVE TypeOK' /\ MigrationTypeOK'
  BY <1>3 DEF LegacyFileAppears, vars, TypeOK, MigrationTypeOK
<1>4. \A S \in SUBSET Legacy : LegacyTokens(S) \subseteq Tokens
  BY DEF LegacyTokens, Tokens, Grants, Kinds
<1>5. CASE MigrateRead
  <2>1. merged' \subseteq Tokens
    BY <1>4, <1>5 DEF MigrateRead, TypeOK, MigrationTypeOK
  <2> QED
    BY <1>5, <2>1 DEF MigrateRead, TypeOK, MigrationTypeOK
<1>6. CASE MigrateWrite
  <2>1. /\ disk' \in [readable : BOOLEAN, tokens : SUBSET Tokens]
        /\ faults' \in 0..MaxFaults /\ lost' \subseteq Tokens
    BY <1>6, WriteTypes DEF MigrateWrite, TypeOK
  <2>2. unloaded' \subseteq Tokens /\ (phase = "down" => unloaded' = {})
    BY <1>6 DEF MigrateWrite, TypeOK
  <2> QED
    BY <1>6, <2>1, <2>2 DEF MigrateWrite, TypeOK, MigrationTypeOK
<1>7. CASE MigrateNote
  <2>1. faults' \in 0..MaxFaults
    BY <1>7, ConstantsAssumption DEF MigrateNote, TypeOK
  <2> QED
    BY <1>7, <2>1 DEF MigrateNote, TypeOK, MigrationTypeOK
<1>8. CASE MigrateDone
  BY <1>8 DEF MigrateDone, vars, TypeOK, MigrationTypeOK
<1>9. CASE MigrateStop
  BY <1>9, ProcessTypes DEF MigrateStop, Stop, MigrationTypeOK
<1>10. CASE UNCHANGED allVars
  BY <1>10 DEF allVars, vars, migration, TypeOK, MigrationTypeOK
<1> QED
  BY <1>2, <1>3, <1>5, <1>6, <1>7, <1>8, <1>9, <1>10 DEF MigrationNext
-----------------------------------------------------------------------------
(* Where a pairing is.                                                     *)

\* Before the first pairing.
LEMMA PairingsInit == MigrationInit => Pairings
<1> SUFFICES ASSUME MigrationInit PROVE Pairings
  OBVIOUS
<1> USE ConstantsAssumption DEF MigrationInit, Init
<1>1. Grants = 1..MaxGrants \cup Legacy /\ Legacy \subseteq Grants
  BY DEF Grants
<1>2. [readable |-> TRUE, tokens |-> {}] \in [readable : BOOLEAN, tokens : SUBSET Tokens]
  BY FileTypes
<1>3. TypeOK
  <2>1. /\ req \in [Requests -> {"new", "pending", "code", "spent"}]
        /\ from \in [Requests -> 0..MaxPairings] /\ root \in [Grants -> 0..MaxPairings]
    OBVIOUS
  <2>2. disk \in [readable : BOOLEAN, tokens : SUBSET Tokens]
    BY <1>2
  <2>3. /\ created \in 0..MaxPairings /\ session \in {0, created} /\ left \in 0..MaxAttempts
        /\ grants \in 0..MaxGrants /\ barrier \in 0..created
        /\ faults \in 0..MaxFaults /\ starts \in 0..MaxStarts /\ lapses \in 0..MaxLapses
    OBVIOUS
  <2>4. /\ phase = "down" /\ seen = FALSE /\ session = 0 /\ tokens = {} /\ lapsed = {}
        /\ given = {} /\ ending = {} /\ ended = {} /\ answered = {} /\ copied = {}
        /\ looked = FALSE /\ merged = {} /\ overlooked = {} /\ lost = {} /\ unloaded = {}
    OBVIOUS
  <2> HIDE DEF MigrationInit, Init
  <2> QED
    BY <2>1, <2>2, <2>3, <2>4 DEF TypeOK
<1>4. MigrationTypeOK
  BY DEF MigrationTypeOK
<1>5. Numbering
  BY <1>1 DEF Numbering, Stored
<1>6. OnePlace
  BY DEF OnePlace, OneEach, Refreshers, Rooted, Stored, Codes
<1> QED
  BY <1>3, <1>4, <1>5, <1>6 DEF Pairings

\* Tokens only move between the stores, or are lost; sessions and codes end.
LEMMA Moving ==
  ASSUME Pairings, TypeOK', MigrationTypeOK',
         UNCHANGED <<grants, root, created, from>>,
         session' \in {0, session},
         \A r \in Requests : req'[r] = "code" => req[r] = "code",
         tokens' \subseteq tokens \/ tokens' \subseteq disk.tokens,
         \/ disk'.tokens \subseteq tokens \/ disk'.tokens \subseteq disk.tokens
         \/ disk'.tokens \subseteq merged,
         merged' \subseteq merged \/ merged' \subseteq disk.tokens \cup LegacyTokens(Legacy),
         \A t \in given' \cup ended' : IsIssued(t)
  PROVE  Pairings'
<1> USE DEF Pairings
<1>1. Stored' \subseteq Stored \cup LegacyTokens(Legacy)
  BY DEF Stored
<1>2. \A t \in LegacyTokens(Legacy) : t[1] \in Legacy /\ IsIssued(t) /\ root[t[1]] = 0
  BY DEF LegacyTokens, IsIssued, Numbering
<1>3. Numbering'
  BY <1>1, <1>2 DEF Numbering, IsIssued
<1>4. \A t \in Refreshers(Stored)' : t \in Refreshers(Stored) /\ root[t[1]] # 0
  BY <1>1, <1>2 DEF Refreshers, Rooted
<1>5. OneEach(tokens)'
  BY DEF OnePlace, OneEach, Refreshers, Rooted
<1>6. OneEach(disk.tokens)'
  BY DEF OnePlace, OneEach, Refreshers, Rooted
<1>7. OneEach(merged)'
  BY <1>2 DEF OnePlace, OneEach, Refreshers, Rooted
<1>8. \A r \in Codes' : r \in Codes /\ from'[r] = from[r] /\ from[r] # session'
  BY DEF Codes, OnePlace
<1>9. OnePlace'
  BY <1>4, <1>5, <1>6, <1>7, <1>8 DEF OnePlace
<1> QED
  BY <1>3, <1>9

\* A new session has a number of its own, and a code takes its place.
LEMMA SessionSteps ==
  ASSUME Pairings, TypeOK', UNCHANGED <<migration, merged>>,
         CreatePairing \/ \E r \in Requests : EnterCode(r)
  PROVE  Pairings'
<1> USE DEF Pairings, issued, endings, history, migration
<1>1. MigrationTypeOK'
  BY DEF MigrationTypeOK
<1>2. \A t \in Stored : t[1] \in Grants
  BY DEF Stored, TypeOK, MigrationTypeOK, Tokens
<1>3. CASE CreatePairing
  <2> USE <1>3 DEF CreatePairing
  <2>1. UNCHANGED <<requests, tokens, disk, grants, root, merged, given, ended>> /\ created \in Nat
        /\ session' = created + 1 /\ created' = created + 1
    BY ConstantsAssumption DEF TypeOK
  <2>2. \A g \in Grants : root[g] \in Nat /\ root[g] <= created
    BY ConstantsAssumption DEF TypeOK, Numbering
  <2>3. \A r \in Requests : from[r] \in Nat /\ from[r] <= created
    BY ConstantsAssumption DEF TypeOK, Numbering
  <2>4. Numbering'
    BY <2>1, <2>2, <2>3 DEF Numbering, requests, Stored, IsIssued
  <2>5. \A r \in Codes : r \in Requests /\ from[r] # session'
    BY <2>1, <2>3 DEF Codes
  <2>6. \A t \in Stored : root[t[1]] # session'
    BY <1>2, <2>1, <2>2
  <2>7. OnePlace'
    BY <2>1, <2>5, <2>6 DEF OnePlace, OneEach, Refreshers, Rooted, Stored, Codes, requests
  <2> QED
    BY <1>1, <2>4, <2>7
<1>4. ASSUME NEW r \in Requests, EnterCode(r) PROVE Pairings'
  <2> USE <1>4 DEF EnterCode
  <2>1. /\ session # 0 /\ session' = 0 /\ session <= created
        /\ Codes' = Codes \cup {r}
        /\ from'[r] = session /\ \A s \in Requests \ {r} : from'[s] = from[s]
        /\ r \notin Codes
        /\ UNCHANGED <<created, tokens, disk, grants, root, merged, given, ended>>
    BY ConstantsAssumption DEF TypeOK, Codes
  <2>2. Numbering'
    BY <2>1 DEF Numbering, Stored, IsIssued
  <2>3. Codes \subseteq Requests
    BY DEF Codes
  <2>4. OnePlace'
    BY <2>1, <2>3 DEF OnePlace, OneEach, Refreshers, Rooted, Stored
  <2> QED
    BY <1>1, <2>2, <2>4
<1> QED
  BY <1>3, <1>4

\* A grant is made: for a code that is spent, or for a refresh token that is
\* replaced.
LEMMA IssueSteps ==
  ASSUME Pairings, TypeOK', UNCHANGED <<migration, merged>>, UNCHANGED <<session, created, from>>,
         NEW offline \in BOOLEAN, NEW origin \in 0..MaxPairings, NEW gone \in SUBSET tokens,
         Issue(origin, offline, gone),
         \A r \in Requests : req'[r] = "code" => req[r] = "code",
         origin # 0 => /\ origin # session /\ origin <= created
                       /\ \A r \in Codes' : from[r] # origin
                       /\ \A t \in Refreshers(tokens \ gone) : root[t[1]] # origin
  PROVE  Pairings'
<1> USE DEF Pairings, migration
<1> DEFINE g == grants + 1
           new == Pair(g, offline)
<1>1. /\ grants < MaxGrants /\ grants' = g /\ root' = [root EXCEPT ![g] = origin]
      /\ tokens' = (tokens \ gone) \cup new
      /\ given' \subseteq given \cup new /\ ended' \subseteq ended \cup gone
      /\ disk'.tokens \subseteq tokens' \/ disk'.tokens \subseteq disk.tokens
  BY FileTypes DEF Issue, End, Saved, Write, SaveFails
<1>2. /\ g \in Grants /\ g \notin Legacy /\ g \notin 1..grants /\ \A t \in new : t[1] = g
      /\ \A t, u \in new : t[2] = "refresh" /\ u[2] = "refresh" => t = u
  BY <1>1, PairTypes DEF Pair
<1>3. 1..grants \subseteq 1..g /\ g \in 1..g
  BY ConstantsAssumption DEF TypeOK
<1> HIDE DEF g, new
<1>4. \A t : IsIssued(t) => t[1] # g /\ IsIssued(t)'
  BY <1>1, <1>2, <1>3 DEF IsIssued
<1>5. \A t \in new : IsIssued(t)'
  BY <1>1, <1>2, <1>3 DEF IsIssued
<1>6. \A t \in Stored \cup given \cup ended : IsIssued(t)
  BY DEF Numbering
<1>7. /\ root'[g] = origin
      /\ \A h \in Grants \ {g} : root'[h] = root[h]
      /\ \A t \in Stored : t \in Tokens /\ root'[t[1]] = root[t[1]]
  BY <1>1, <1>2, <1>4, <1>6 DEF TypeOK, MigrationTypeOK, Stored, Tokens
<1>8. Stored' \subseteq Stored \cup new /\ MigrationTypeOK'
  BY <1>1 DEF Stored, MigrationTypeOK
<1>9. Numbering'
  <2>1. \A t \in Stored' \cup given' \cup ended' : IsIssued(t)'
    BY <1>1, <1>4, <1>5, <1>6, <1>8 DEF Stored
  <2>2. \A h \in Grants : root'[h] <= created'
    BY <1>7, ConstantsAssumption DEF Numbering, TypeOK
  <2>3. \A f \in Legacy : root'[f] = 0
    BY <1>2, <1>7 DEF Numbering, Grants
  <2> QED
    BY <2>1, <2>2, <2>3 DEF Numbering
<1>10. OneEach(tokens)'
  <2> SUFFICES ASSUME NEW t \in tokens', NEW u \in tokens', t[2] = "refresh", u[2] = "refresh",
                      root'[t[1]] # 0, root'[t[1]] = root'[u[1]]
               PROVE  t = u
    BY DEF OneEach, Refreshers, Rooted
  <2>1. \A v \in new, w \in tokens \ gone :
          v[2] = "refresh" /\ w[2] = "refresh" /\ root'[v[1]] # 0 => root'[v[1]] # root'[w[1]]
    BY <1>2, <1>7 DEF Refreshers, Rooted, Stored
  <2>2. CASE t \in tokens \ gone /\ u \in tokens \ gone
    BY <2>2, <1>7 DEF OnePlace, OneEach, Refreshers, Rooted, Stored
  <2>3. CASE t \in new /\ u \in new
    BY <2>3, <1>2
  <2> QED
    BY <1>1, <2>1, <2>2, <2>3
<1>11. OneEach(disk.tokens)'
  <2>1. CASE disk'.tokens \subseteq tokens'
    BY <1>10, <2>1 DEF OneEach, Refreshers, Rooted
  <2>2. CASE disk'.tokens \subseteq disk.tokens
    BY <1>7, <2>2 DEF OnePlace, OneEach, Refreshers, Rooted, Stored
  <2> QED
    BY <1>1, <2>1, <2>2
<1>12. OneEach(merged)'
  BY <1>7 DEF OnePlace, OneEach, Refreshers, Rooted, Stored
<1>13. Codes' \subseteq Codes
  BY DEF Codes
<1>14. ASSUME NEW t \in Refreshers(Stored)'
       PROVE  root'[t[1]] # session' /\ \A r \in Codes' : root'[t[1]] # from'[r]
  <2>1. t \in Stored' /\ t[2] = "refresh" /\ root'[t[1]] # 0
    BY DEF Refreshers, Rooted
  <2>2. CASE t \in new
    BY <1>2, <1>7, <2>1, <2>2
  <2>3. CASE t \in Stored
    BY <1>7, <1>13, <2>1, <2>3 DEF OnePlace, Refreshers, Rooted
  <2> QED
    BY <1>8, <2>1, <2>2, <2>3
<1>15. OnePlace'
  BY <1>10, <1>11, <1>12, <1>13, <1>14 DEF OnePlace
<1> QED
  BY <1>8, <1>9, <1>15

\* The steps of the broker.
LEMMA BrokerPairings == ASSUME Pairings, TypeOK', UNCHANGED migration, Next PROVE Pairings'
<1> USE DEF Pairings, broker, pairing, requests, issued, bounds, commands, endings, history, migration
<1>1. MigrationTypeOK' /\ UNCHANGED merged
  BY BrokerKeepsMerged DEF MigrationTypeOK
<1>2. \A t \in given \cup ended : IsIssued(t)
  BY DEF Numbering
<1>3. CASE CreatePairing \/ \E r \in Requests : EnterCode(r)
  BY <1>1, <1>3, SessionSteps
<1>4. ASSUME NEW r \in Requests, Redeem(r) PROVE Pairings'
  <2>1. PICK offline \in BOOLEAN : Issue(from[r], offline, {})
    BY <1>4 DEF Redeem
  <2>2. r \in Codes /\ Codes' = Codes \ {r} /\ from[r] \in 0..MaxPairings
        /\ \A s \in Requests : req'[s] = "code" => req[s] = "code"
    BY <1>4 DEF Redeem, Codes, TypeOK
  <2>3. from[r] # session /\ from[r] <= created /\ \A s \in Codes' : from[s] # from[r]
    BY <2>2 DEF OnePlace, Numbering
  <2>4. \A t \in Refreshers(tokens \ {}) : root[t[1]] # from[r]
    BY <2>2 DEF OnePlace, Refreshers, Rooted, Stored
  <2> QED
    BY <1>1, <1>4, <2>1, <2>2, <2>3, <2>4, IssueSteps DEF Redeem
<1>5. ASSUME NEW t \in Tokens, Refresh(t) PROVE Pairings'
  <2>1. t \in tokens /\ t[2] = "refresh" /\ Issue(root[t[1]], TRUE, {t})
        /\ UNCHANGED <<req, from, session, created>>
    BY <1>5 DEF Refresh
  <2>2. t[1] \in Grants /\ root[t[1]] \in 0..MaxPairings /\ root[t[1]] <= created
    BY DEF Tokens, TypeOK, Numbering
  <2>3. root[t[1]] # 0 => t \in Refreshers(Stored) /\ t \in Refreshers(tokens)
    BY <2>1 DEF Refreshers, Rooted, Stored
  <2>4. root[t[1]] # 0 => /\ root[t[1]] # session
                          /\ \A r \in Codes' : from[r] # root[t[1]]
                          /\ \A u \in Refreshers(tokens \ {t}) : root[u[1]] # root[t[1]]
    BY <2>1, <2>3 DEF OnePlace, OneEach, Refreshers, Rooted, Codes
  <2> QED
    BY <1>1, <2>1, <2>2, <2>4, IssueSteps
<1>6. (Saved(tokens') \/ SaveFails) /\ tokens' \subseteq tokens
        => disk'.tokens \subseteq tokens \/ disk'.tokens \subseteq disk.tokens
  BY FileTypes DEF Saved, Write, SaveFails
<1>7. Saved({}) \/ Write({}, disk.tokens) \/ SaveFails => disk'.tokens \subseteq disk.tokens
  BY FileTypes DEF Saved, Write, SaveFails
<1>8. \A S, held : EverythingEnded(S, held) => \A t \in ended' : IsIssued(t)
  BY <1>2 DEF EverythingEnded, End, Issued, IsIssued, Numbering, Stored
<1>9. CASE LapseOnce \/ \E r \in Requests : OpenPage(r) \/ EnterWrongCode(r) \/ RedeemMismatch(r)
  <2>1. /\ UNCHANGED <<grants, root, created, from, tokens, disk, given, ended>>
        /\ session' \in {0, session}
    BY <1>9 DEF LapseOnce, OpenPage, EnterWrongCode, RedeemMismatch
  <2>2. \A r \in Requests : req'[r] = "code" => req[r] = "code"
    BY <1>9 DEF LapseOnce, OpenPage, EnterWrongCode, RedeemMismatch, TypeOK
  <2> QED
    BY <1>1, <1>2, <2>1, <2>2, Moving
<1>10. ASSUME NEW t \in Tokens, Revoke(t) \/ RevokeAbsent(t) \/ LapseToken(t) PROVE Pairings'
  <2>1. /\ UNCHANGED <<grants, root, created, from, session, req, given>>
        /\ tokens' \subseteq tokens
        /\ disk'.tokens \subseteq tokens \/ disk'.tokens \subseteq disk.tokens
    BY <1>6, <1>10 DEF Revoke, RevokeAbsent, LapseToken
  <2>2. \A u \in ended' : IsIssued(u)
    BY <1>2, <1>10 DEF Revoke, End, RevokeAbsent, LapseToken, Numbering, Stored
  <2> QED
    BY <1>1, <1>2, <2>1, <2>2, Moving
<1>11. CASE RevokeAll \/ LookForBroker \/ RevokeAllOffline \/ RegisterClient
  <2>1. /\ UNCHANGED <<grants, root, created, from, given>> /\ session' \in {0, session}
        /\ tokens' \subseteq tokens
        /\ disk'.tokens \subseteq tokens \/ disk'.tokens \subseteq disk.tokens
    BY <1>6, <1>7, <1>11 DEF RevokeAll, LookForBroker, RevokeAllOffline, RegisterClient
  <2>2. \A r \in Requests : req'[r] = "code" => req[r] = "code"
    BY <1>11 DEF RevokeAll, LookForBroker, RevokeAllOffline, RegisterClient
  <2>3. \A u \in ended' : IsIssued(u)
    BY <1>2, <1>8, <1>11 DEF RevokeAll, LookForBroker, RevokeAllOffline, RegisterClient
  <2> QED
    BY <1>1, <1>2, <2>1, <2>2, <2>3, Moving
<1>12. CASE Start \/ Publish \/ Stop
  <2>1. /\ UNCHANGED <<grants, root, created, from, disk, given, ended>> /\ session' \in {0, session}
        /\ tokens' \subseteq tokens \/ tokens' \subseteq disk.tokens
    BY <1>12 DEF Start, Publish, Stop
  <2>2. \A r \in Requests : req'[r] = "code" => req[r] = "code"
    BY <1>12 DEF Start, Publish, Stop
  <2> QED
    BY <1>1, <1>2, <2>1, <2>2, Moving
<1> QED
  BY <1>3, <1>4, <1>5, <1>9, <1>10, <1>11, <1>12 DEF Next

\* A step of the broker or of the command keeps every pairing at one place.
LEMMA PairingsPreserved == Pairings /\ [MigrationNext]_allVars => Pairings'
<1> SUFFICES ASSUME Pairings, [MigrationNext]_allVars PROVE Pairings'
  OBVIOUS
<1> USE DEF broker, pairing, requests, issued, bounds, commands, endings, history, migration
<1>1. TypeOK' /\ MigrationTypeOK'
  BY TypesPreserved DEF Pairings
<1>2. CASE BrokerStep
  BY <1>1, <1>2, BrokerPairings DEF BrokerStep
<1>3. (\A t \in given \cup ended : IsIssued(t)) /\ \A t \in LegacyTokens(Legacy) : IsIssued(t)
  BY DEF Pairings, Numbering, IsIssued, LegacyTokens
<1>4. \A S \in SUBSET Legacy : LegacyTokens(S) \subseteq LegacyTokens(Legacy)
  BY DEF LegacyTokens
<1>5. CASE \/ MigrateRead \/ MigrateWrite \/ MigrateNote \/ MigrateDone
           \/ \E f \in Legacy : LegacyFileAppears(f)
           \/ UNCHANGED allVars
  <2>1. UNCHANGED <<grants, root, created, from, session, req, tokens, ended>>
    BY <1>5 DEF MigrateRead, MigrateWrite, MigrateNote, MigrateDone,
                LegacyFileAppears, allVars, vars
  <2>2. disk'.tokens \subseteq disk.tokens \/ disk'.tokens \subseteq merged
    BY <1>5, FileTypes DEF MigrateRead, MigrateWrite, MigrateNote, MigrateDone,
                LegacyFileAppears, allVars, vars, Write, SaveFails
  <2>3. merged' \subseteq merged \/ merged' \subseteq disk.tokens \cup LegacyTokens(Legacy)
    BY <1>4, <1>5 DEF MigrateRead, MigrateWrite, MigrateNote, MigrateDone,
                LegacyFileAppears, allVars, vars, Pairings, MigrationTypeOK
  <2>4. given' = given
    BY <1>5 DEF MigrateRead, MigrateWrite, MigrateNote, MigrateDone,
                LegacyFileAppears, allVars, vars
  <2> QED
    BY <1>1, <1>3, <2>1, <2>2, <2>3, <2>4, Moving
<1>6. CASE MigrateStop
  <2>1. /\ UNCHANGED <<grants, root, created, from, disk, merged, given, ended>>
        /\ session' = 0 /\ tokens' = {}
        /\ \A r \in Requests : req'[r] = "code" => req[r] = "code"
    BY <1>6 DEF MigrateStop, Stop
  <2> QED
    BY <1>1, <1>3, <2>1, Moving
<1> QED
  BY <1>2, <1>5, <1>6 DEF MigrationNext

\* Every pairing is at one place, commands that overlap a broker included.
THEOREM PairingsInvariant == MigrationSpec => []Pairings
BY PairingsInit, PairingsPreserved, PTL DEF MigrationSpec

\* The variables of the broker and of the command keep their types.
THEOREM TypeCorrect == MigrationSpec => [](TypeOK /\ MigrationTypeOK)
BY PairingsInvariant, PTL DEF Pairings

\* A pairing code, its authorization code and every refresh token that goes
\* back to it are used with success once.
THEOREM OneGrant == MigrationSpec => []OneGrantPerPairing
<1>1. Pairings => OneGrantPerPairing
  BY DEF Pairings, OnePlace, OneGrantPerPairing, Refreshers, Rooted, Stored
<1> QED
  BY <1>1, PairingsInvariant, PTL
-----------------------------------------------------------------------------
(* What clients hold and what was ended.                                   *)

\* Before the first pairing.
LEMMA EndsInit == MigrationInit => Ends
<1> SUFFICES ASSUME MigrationInit PROVE Ends
  OBVIOUS
<1> USE DEF MigrationInit, Init
<1>1. Migrating
  BY DEF Migrating
<1>2. DueIsKept /\ EndedIsGone
  BY DEF DueIsKept, Due, Reckoned, LegacyTokens, EndedIsGone
<1>3. OverIsOver
  BY DEF OverIsOver, Codes, Rooted, Stored
<1> QED
  BY <1>1, <1>2, <1>3 DEF Ends

\* A failed write leaves in the file all that it does not list as lost.
LEMMA FailedWrite ==
  ASSUME SaveFails
  PROVE  /\ disk'.tokens \subseteq disk.tokens /\ disk.tokens \ lost' \subseteq disk'.tokens
         /\ lost \subseteq lost'
BY FileTypes DEF SaveFails

\* A write leaves in the file what it wrote, and lists what it did not know.
LEMMA Written ==
  ASSUME NEW content, NEW known, Write(content, known)
  PROVE  /\ disk'.tokens = content
         /\ \A t : t \notin lost' \cup content => t \notin lost /\ (t \in disk.tokens => t \in known)
BY DEF Write

\* The broker saves what is in memory: tokens that leave it were to be ended,
\* and those that enter it are written before a client is answered.
LEMMA SaveKeeps ==
  ASSUME DueIsKept, NEW new, NEW gone \in SUBSET tokens, tokens' = (tokens \ gone) \cup new,
         ending \cup gone \subseteq ending', UNCHANGED <<lapsed, unloaded>>, phase # "down",
         \/ Saved(tokens') /\ Reckoned' \subseteq Reckoned \cup new
         \/ SaveFails /\ Reckoned' \subseteq Reckoned
  PROVE  DueIsKept'
<1>1. Due \subseteq disk.tokens /\ Due \subseteq tokens \cup unloaded
  BY DEF DueIsKept
<1>2. CASE Saved(tokens') /\ Reckoned' \subseteq Reckoned \cup new
  <2>1. Write(tokens' \ lapsed, tokens)
    BY <1>2 DEF Saved
  <2>2. Due' \subseteq tokens' \ lapsed
    <3> SUFFICES ASSUME NEW t \in Due', t \notin tokens' \ lapsed PROVE FALSE
      OBVIOUS
    <3>1. t \in Reckoned \cup new /\ t \notin ending' /\ t \notin lapsed /\ t \notin lost'
      BY <1>2 DEF Due
    <3>2. t \notin lost /\ (t \in disk.tokens => t \in tokens)
      BY <2>1, <3>1, Written
    <3>3. t \notin new /\ t \notin gone
      BY <3>1
    <3>4. t \in Due
      BY <3>1, <3>2, <3>3 DEF Due
    <3> QED
      BY <1>1, <3>1, <3>2, <3>3, <3>4
  <2> QED
    BY <2>1, <2>2, Written DEF DueIsKept
<1>3. CASE SaveFails /\ Reckoned' \subseteq Reckoned
  <2>1. Due' \subseteq Due /\ Due' \cap lost' = {} /\ Due' \cap ending' = {}
    BY <1>3, FailedWrite DEF Due
  <2> QED
    BY <1>1, <1>3, <2>1, FailedWrite DEF DueIsKept
<1> QED
  BY <1>2, <1>3

\* What is due can only shrink when nobody is answered with a token.
LEMMA Owing ==
  ASSUME DueIsKept, Reckoned' \subseteq Reckoned,
         ending \subseteq ending', lapsed \subseteq lapsed', lost \subseteq lost'
  PROVE  Due' \subseteq Due /\ Due' \cap (ending' \cup lapsed' \cup lost') = {}
BY DEF Due

\* What was ended stays so when tokens only move between the stores, or come
\* from legacy files.
LEMMA Carrying ==
  ASSUME Pairings, EndedIsGone, OverIsOver,
         UNCHANGED <<root, from, endings>>,
         session' \in {0, session}, Codes' \subseteq Codes,
         Stored' \subseteq Stored \cup LegacyTokens(Legacy)
  PROVE  EndedIsGone' /\ OverIsOver'
<1> USE DEF endings
<1>1. \A t \in LegacyTokens(Legacy) : t[1] \in Legacy /\ root[t[1]] = 0
  BY DEF Pairings, Numbering, LegacyTokens
<1>2. EndedIsGone'
  BY <1>1 DEF EndedIsGone
<1>3. OverIsOver'
  BY <1>1 DEF OverIsOver, Over, Rooted
<1> QED
  BY <1>2, <1>3

\* A grant: its tokens are new, and the one it replaces leaves both stores.
LEMMA IssueEnds ==
  ASSUME Pairings, EndedIsGone, OverIsOver,
         UNCHANGED <<session, from, merged>>, Codes' \subseteq Codes,
         NEW origin \in 0..MaxPairings, NEW offline \in BOOLEAN, NEW gone \in SUBSET tokens,
         Issue(origin, offline, gone), origin # 0 => ~Over(origin)
  PROVE  EndedIsGone' /\ OverIsOver'
<1> USE DEF Pairings
<1> DEFINE g == grants + 1
           new == Pair(g, offline)
<1>1. /\ grants < MaxGrants /\ root' = [root EXCEPT ![g] = origin]
      /\ tokens' = (tokens \ gone) \cup new
      /\ \/ Saved(tokens') /\ End(gone, merged)
         \/ SaveFails /\ UNCHANGED <<ended, copied>>
      /\ UNCHANGED <<barrier, overlooked>>
  BY DEF Issue
<1>2. g \in Grants /\ g \notin Legacy /\ g \notin 1..grants /\ \A t \in new : t[1] = g
  BY <1>1, PairTypes
<1>3. \A t \in Stored \cup given \cup ended : t[1] # g
  BY <1>2 DEF Numbering, IsIssued
<1> HIDE DEF g, new
<1>4. /\ root'[g] = origin
      /\ \A t \in Stored : t \in Tokens /\ root'[t[1]] = root[t[1]]
  BY <1>1, <1>2, <1>3 DEF TypeOK, Stored, Tokens
<1>5. /\ Saved(tokens') => disk'.tokens = tokens' \ lapsed
      /\ SaveFails => disk'.tokens \subseteq disk.tokens
  BY Written, FailedWrite DEF Saved
<1>6. Stored' \subseteq Stored \cup new
  BY <1>1, <1>5 DEF Stored
<1>7. EndedIsGone'
  <2>1. CASE Saved(tokens') /\ End(gone, merged)
    <3> SUFFICES ASSUME NEW t \in ended' \ copied' PROVE t[1] \in Legacy \/ t \notin Stored'
      BY DEF EndedIsGone
    <3>1. CASE t \in gone
      <4>1. t \notin merged /\ t \notin new
        BY <1>2, <1>3, <2>1, <3>1 DEF End, Stored
      <4> QED
        BY <1>1, <1>5, <2>1, <3>1, <4>1 DEF Stored
    <3>2. CASE t \notin gone
      <4>1. t \in ended \ copied /\ t \notin new
        BY <1>2, <1>3, <2>1, <3>2 DEF End
      <4> QED
        BY <1>6, <4>1 DEF EndedIsGone
    <3> QED
      BY <3>1, <3>2
  <2>2. CASE UNCHANGED <<ended, copied>>
    BY <1>2, <1>3, <1>6, <2>2 DEF EndedIsGone
  <2> QED
    BY <1>1, <2>1, <2>2
<1>8. \A t \in Rooted(Stored)' : ~Over(root[t[1]])'
  <2>1. \A p : Over(p)' <=> Over(p)
    BY <1>1 DEF Over
  <2>2. \A t \in new : t \in Rooted(Stored)' => ~Over(root'[t[1]])
    BY <1>2, <1>4 DEF Rooted
  <2>3. \A t \in Stored : t \in Rooted(Stored)' => ~Over(root'[t[1]])
    BY <1>4 DEF OverIsOver, Rooted
  <2> QED
    BY <1>1, <1>6, <2>2, <2>3 DEF Rooted, Over
<1>9. OverIsOver'
  BY <1>1, <1>8 DEF OverIsOver, Over
<1> QED
  BY <1>7, <1>9

\* A revoke-all, by the broker or beside it: a token or a pairing lives on
\* only with a process that it does not reach.
LEMMA RevokeAllEnds ==
  ASSUME Pairings, EndedIsGone, OverIsOver, UNCHANGED <<root, from, merged>>,
         NEW S, NEW held, EverythingEnded(S, held),
         Stored' \subseteq held,
         session' \in {0, session}, session' # 0 => session \in S,
         \A r \in Codes' : r \in Codes /\ from[r] \in S
  PROVE  EndedIsGone' /\ OverIsOver'
<1>1. /\ ended' = ended \cup (Issued \cup tokens \cup disk.tokens)
      /\ copied' = (copied \ (Issued \cup tokens \cup disk.tokens))
                     \cup ((Issued \cup tokens \cup disk.tokens) \cap held)
      /\ overlooked' = S \cup RootsOf(held)
  BY DEF EverythingEnded, End
<1>2. \A t \in ended' : t[1] \in Legacy \/ t \in Issued \cup tokens \cup disk.tokens
  <2>1. \A t \in ended : t \in Tokens /\ (t[1] \in Legacy \/ t[1] \in 1..grants)
    BY DEF Pairings, Numbering, IsIssued, TypeOK
  <2>2. \A t \in Tokens : t[1] \in 1..grants => t \in Issued
    BY DEF Issued, Tokens
  <2> QED
    BY <1>1, <2>1, <2>2
<1>3. EndedIsGone'
  BY <1>1, <1>2 DEF EndedIsGone
<1>4. \A t \in Stored' : root[t[1]] \in overlooked'
  BY <1>1 DEF RootsOf
<1>5. OverIsOver'
  BY <1>1, <1>4 DEF OverIsOver, Over, Rooted
<1> QED
  BY <1>3, <1>5

\* Steps of the broker that end tokens.
LEMMA RevocationEnds ==
  ASSUME Pairings, Ends, UNCHANGED <<migration, merged>>,
         RevokeAll \/ RevokeAllOffline \/ \E t \in Tokens : Revoke(t)
  PROVE  DueIsKept' /\ EndedIsGone' /\ OverIsOver'
<1> USE DEF Ends, migration, issued, broker, pairing, requests, commands, bounds
<1>1. ASSUME NEW t \in Tokens, Revoke(t)
      PROVE  DueIsKept' /\ EndedIsGone' /\ OverIsOver'
  <2>1. /\ phase = "up" /\ t \in tokens /\ tokens' = (tokens \ {t}) \cup {}
        /\ ending' = ending \cup {t}
        /\ UNCHANGED <<phase, given, lapsed, root, from, session, req, barrier, overlooked, unloaded>>
        /\ \/ Saved(tokens') /\ End({t}, merged)
           \/ SaveFails /\ UNCHANGED <<ended, copied>>
    BY <1>1 DEF Revoke
  <2>2. Reckoned' = Reckoned /\ Codes' = Codes
    BY <2>1 DEF Reckoned, Codes
  <2>3. DueIsKept'
    <3>1. {t} \in SUBSET tokens /\ ending \cup {t} \subseteq ending' /\ phase # "down"
      BY <2>1
    <3> QED
      BY <2>1, <2>2, <3>1, SaveKeeps
  <2>4. /\ Saved(tokens') => disk'.tokens = tokens' \ lapsed
        /\ SaveFails => disk'.tokens \subseteq disk.tokens
    BY Written, FailedWrite DEF Saved
  <2>5. Stored' \subseteq Stored
    BY <2>1, <2>4 DEF Stored
  <2>6. EndedIsGone'
    <3>1. CASE Saved(tokens') /\ End({t}, merged)
      <4> SUFFICES ASSUME NEW u \in ended' \ copied' PROVE u[1] \in Legacy \/ u \notin Stored'
        BY DEF EndedIsGone
      <4>1. CASE u = t
        BY <2>1, <2>4, <3>1, <4>1 DEF End, Stored
      <4>2. CASE u # t
        BY <2>5, <3>1, <4>2 DEF End, EndedIsGone
      <4> QED
        BY <4>1, <4>2
    <3>2. CASE UNCHANGED <<ended, copied>>
      BY <2>5, <3>2 DEF EndedIsGone
    <3> QED
      BY <2>1, <3>1, <3>2
  <2>7. OverIsOver'
    BY <2>1, <2>2, <2>5 DEF OverIsOver, Over, Rooted
  <2> QED
    BY <2>3, <2>6, <2>7
<1>2. CASE RevokeAll
  <2>1. /\ phase = "up" /\ tokens' = {} /\ Codes' = {}
        /\ ending' = ending \cup given \cup tokens /\ session' \in {0, session}
        /\ UNCHANGED <<phase, given, lapsed, root, from, unloaded>>
        /\ \/ Saved({}) /\ session' = 0 /\ EverythingEnded({}, merged)
           \/ SaveFails /\ UNCHANGED endings
    BY <1>2 DEF RevokeAll, Codes
  <2>2. Reckoned' = Reckoned
    BY <2>1 DEF Reckoned
  <2>3. DueIsKept'
    <3>1. /\ tokens \in SUBSET tokens /\ tokens' = (tokens \ tokens) \cup {}
          /\ ending \cup tokens \subseteq ending' /\ phase # "down"
          /\ Saved(tokens') \/ SaveFails
      BY <2>1
    <3> QED
      BY <2>1, <2>2, <3>1, SaveKeeps
  <2>4. CASE Saved({}) /\ session' = 0 /\ EverythingEnded({}, merged)
    <3>1. Stored' \subseteq merged
      BY <2>1, <2>4, Written DEF Saved, Stored
    <3> QED
      BY <2>1, <2>3, <2>4, <3>1, RevokeAllEnds
  <2>5. CASE SaveFails /\ UNCHANGED endings
    <3>1. Stored' \subseteq Stored
      BY <2>1, <2>5, FailedWrite DEF Stored
    <3> QED
      BY <2>1, <2>3, <2>5, <3>1, Carrying
  <2> QED
    BY <2>1, <2>4, <2>5
<1>3. CASE RevokeAllOffline
  <2>1. /\ ending' = ending \cup given \cup disk.tokens
        /\ UNCHANGED <<phase, session, req, given, lapsed, root, from, tokens, unloaded>>
        /\ \/ Write({}, disk.tokens) /\ EverythingEnded(Outstanding, tokens \cup merged)
           \/ SaveFails /\ UNCHANGED endings
    BY <1>3 DEF RevokeAllOffline
  <2>2. Reckoned' = Reckoned /\ Codes' = Codes
    BY <2>1 DEF Reckoned, Codes
  <2>3. lost \subseteq lost'
    BY <2>1, FailedWrite DEF Write
  <2>4. Due' = {}
    BY <2>1, <2>2, <2>3 DEF Due, DueIsKept
  <2>5. DueIsKept'
    BY <2>4 DEF DueIsKept
  <2>6. CASE Write({}, disk.tokens) /\ EverythingEnded(Outstanding, tokens \cup merged)
    <3>1. Stored' \subseteq tokens \cup merged
      BY <2>1, <2>6, Written DEF Stored
    <3>2. session' \in Outstanding /\ \A r \in Codes' : r \in Codes /\ from[r] \in Outstanding
      BY <2>1, <2>2 DEF Outstanding
    <3> QED
      BY <2>1, <2>2, <2>5, <2>6, <3>1, <3>2, RevokeAllEnds
  <2>7. CASE SaveFails /\ UNCHANGED endings
    <3>1. Stored' \subseteq Stored
      BY <2>1, <2>7, FailedWrite DEF Stored
    <3> QED
      BY <2>1, <2>2, <2>5, <2>7, <3>1, Carrying
  <2> QED
    BY <2>1, <2>6, <2>7
<1> QED
  BY <1>1, <1>2, <1>3

\* Steps of the broker that move tokens between memory and the file.
LEMMA ProcessEnds ==
  ASSUME Pairings, Ends, UNCHANGED <<noted, listed, merged>>, cli' = cli \/ cli' # "written",
         RegisterClient \/ Start \/ Publish \/ Stop
  PROVE  DueIsKept' /\ EndedIsGone' /\ OverIsOver'
<1> USE DEF Ends, issued, broker, pairing, requests, history, bounds, commands
<1>1. Due \subseteq disk.tokens /\ (phase # "down" => Due \subseteq tokens \cup unloaded)
  BY DEF DueIsKept
<1>2. /\ UNCHANGED <<root, from, endings, given, ending, lapsed>>
      /\ session' \in {0, session} /\ Codes' \subseteq Codes
      /\ tokens' \subseteq tokens \cup disk.tokens
  BY DEF RegisterClient, Start, Publish, Stop, Codes
<1>3. Reckoned' \subseteq Reckoned
  BY <1>2 DEF Reckoned
<1>4. disk'.tokens \subseteq tokens \cup disk.tokens
  <2>1. Saved(tokens) => disk'.tokens \subseteq tokens
    BY Written DEF Saved
  <2>2. SaveFails => disk'.tokens \subseteq disk.tokens
    BY FailedWrite
  <2> QED
    BY <2>1, <2>2 DEF RegisterClient, Start, Publish, Stop
<1>5. EndedIsGone' /\ OverIsOver'
  <2>1. Stored' \subseteq Stored
    BY <1>2, <1>4 DEF Stored
  <2> QED
    BY <1>2, <2>1, Carrying
<1>6. CASE RegisterClient
  <2>1. /\ phase # "down" /\ tokens' = (tokens \ {}) \cup {} /\ (Saved(tokens') \/ SaveFails)
        /\ {} \in SUBSET tokens /\ ending \cup {} \subseteq ending' /\ UNCHANGED <<lapsed, unloaded>>
    BY <1>6 DEF RegisterClient
  <2> QED
    BY <1>3, <1>5, <2>1, SaveKeeps
<1>7. CASE Start \/ Publish \/ Stop
  <2>1. UNCHANGED <<disk, lost>>
    BY <1>7 DEF Start, Publish, Stop
  <2>2. Due' \subseteq Due /\ Due' \cap lapsed = {}
    BY <1>2, <1>3, <2>1, Owing
  <2>3. phase' # "down" => tokens' = disk.tokens \ lapsed \/ (phase # "down" /\ UNCHANGED <<tokens, unloaded>>)
    BY <1>7 DEF Start, Publish, Stop
  <2> QED
    BY <1>1, <1>5, <2>1, <2>2, <2>3 DEF DueIsKept
<1> QED
  BY <1>6, <1>7

\* Steps that touch neither memory nor the file.
LEMMA QuietEnds ==
  ASSUME Pairings, Ends,
         UNCHANGED <<phase, tokens, disk, root, from, endings, given, lost, unloaded>>,
         Reckoned' \subseteq Reckoned, ending \subseteq ending', lapsed \subseteq lapsed',
         merged' \subseteq merged \cup disk.tokens \cup LegacyTokens(Legacy),
         session' \in {0, session}, Codes' \subseteq Codes
  PROVE  DueIsKept' /\ EndedIsGone' /\ OverIsOver'
<1>1. Stored' \subseteq Stored \cup LegacyTokens(Legacy)
  BY DEF Stored
<1>2. EndedIsGone' /\ OverIsOver'
  BY <1>1, Carrying DEF Ends
<1>3. DueIsKept'
  BY Owing DEF Ends, DueIsKept
<1> QED
  BY <1>2, <1>3

\* The steps of the broker, and of an `unpair`.
LEMMA BrokerEnds ==
  ASSUME Pairings, Ends, UNCHANGED migration, Next
  PROVE  Ends'
<1> USE DEF Ends, broker, pairing, requests, issued, bounds, commands, history, migration
<1>1. /\ UNCHANGED <<cli, noted, listed, merged>> /\ barrier \in Nat /\ created \in Nat
      /\ barrier <= created /\ session \in {0, created}
  BY BrokerKeepsMerged, ConstantsAssumption DEF Pairings, TypeOK
<1>2. lapsed \subseteq lapsed'
  BY DEF Next, CreatePairing, OpenPage, EnterCode, EnterWrongCode, Redeem, RedeemMismatch,
         Refresh, Revoke, RevokeAbsent, LapseToken, RevokeAll, LookForBroker, RevokeAllOffline,
         RegisterClient, LapseOnce, Start, Publish, Stop
<1>3. Migrating'
  BY <1>1, <1>2 DEF Migrating
<1> SUFFICES DueIsKept' /\ EndedIsGone' /\ OverIsOver'
  BY <1>3
<1>4. given' = given => Reckoned' = Reckoned
  BY <1>1 DEF Reckoned
<1>5. CASE CreatePairing \/ \E r \in Requests : EnterCode(r)
  <2>1. UNCHANGED <<phase, tokens, disk, root, endings, given, ending, lapsed, lost, unloaded>>
    BY <1>5 DEF CreatePairing, EnterCode
  <2>2. Stored' = Stored /\ Due' = Due
    BY <1>1, <1>4, <2>1 DEF Stored, Due
  <2>3. DueIsKept' /\ EndedIsGone'
    BY <2>1, <2>2 DEF DueIsKept, EndedIsGone, endings
  <2>4. \A p : Over(p)' <=> Over(p)
    BY <2>1 DEF Over, endings
  <2>5. (session' = 0 \/ ~Over(session')) /\ \A r \in Codes' : ~Over(from'[r])
    <3>1. CASE CreatePairing
      BY <1>1, <3>1 DEF CreatePairing, OverIsOver, Over, Codes
    <3>2. ASSUME NEW r \in Requests, EnterCode(r)
          PROVE  session' = 0 /\ \A s \in Codes' : ~Over(from'[s])
      <4>1. \A s \in Codes' : s = r \/ (s \in Codes /\ from'[s] = from[s])
        BY <3>2 DEF EnterCode, Codes, Pairings, TypeOK
      <4>2. session' = 0 /\ from'[r] = session /\ ~Over(session)
        BY <1>1, <3>2 DEF EnterCode, OverIsOver, Pairings, TypeOK
      <4> QED
        BY <4>1, <4>2 DEF OverIsOver
    <3> QED
      BY <1>5, <3>1, <3>2
  <2>6. \A t \in Rooted(Stored)' : ~Over(root[t[1]])
    BY <2>1, <2>2 DEF OverIsOver, Rooted
  <2> QED
    BY <2>1, <2>3, <2>5, <2>6 DEF OverIsOver, Over, endings
<1>6. ASSUME NEW origin \in 0..MaxPairings, NEW offline \in BOOLEAN, NEW gone \in SUBSET tokens,
             Issue(origin, offline, gone), phase = "up", origin # 0 => ~Over(origin),
             UNCHANGED <<phase, session, from, lapsed>>, Codes' \subseteq Codes
      PROVE  DueIsKept' /\ EndedIsGone' /\ OverIsOver'
  <2>1. EndedIsGone' /\ OverIsOver'
    BY <1>1, <1>6, IssueEnds
  <2> DEFINE new == Pair(grants + 1, offline)
  <2>2. /\ tokens' = (tokens \ gone) \cup new /\ ending \cup gone \subseteq ending'
        /\ UNCHANGED unloaded /\ phase # "down"
        /\ \/ Saved(tokens') /\ given' = given \cup new
           \/ SaveFails /\ given' = given
    BY <1>6 DEF Issue
  <2> HIDE DEF new
  <2>3. \/ Saved(tokens') /\ Reckoned' \subseteq Reckoned \cup new
        \/ SaveFails /\ Reckoned' \subseteq Reckoned
    BY <1>1, <2>2 DEF Reckoned
  <2>4. DueIsKept'
    BY <1>6, <2>2, <2>3, SaveKeeps
  <2> QED
    BY <2>1, <2>4
<1>7. ASSUME NEW r \in Requests, Redeem(r)
      PROVE  DueIsKept' /\ EndedIsGone' /\ OverIsOver'
  <2>1. PICK offline \in BOOLEAN : Issue(from[r], offline, {})
    BY <1>7 DEF Redeem
  <2>2. from[r] \in 0..MaxPairings /\ r \in Codes /\ Codes' \subseteq Codes /\ {} \in SUBSET tokens
    BY <1>7 DEF Redeem, Codes, Pairings, TypeOK
  <2>3. ~Over(from[r]) /\ phase = "up" /\ UNCHANGED <<phase, session, from, lapsed>>
    BY <1>7, <2>2 DEF Redeem, OverIsOver
  <2> QED
    BY <1>6, <2>1, <2>2, <2>3
<1>8. ASSUME NEW t \in Tokens, Refresh(t)
      PROVE  DueIsKept' /\ EndedIsGone' /\ OverIsOver'
  <2>1. /\ t \in tokens /\ Issue(root[t[1]], TRUE, {t}) /\ phase = "up"
        /\ UNCHANGED <<phase, session, req, from, lapsed>>
    BY <1>8 DEF Refresh
  <2>2. root[t[1]] \in 0..MaxPairings /\ (root[t[1]] # 0 => ~Over(root[t[1]]))
    BY <2>1 DEF Pairings, TypeOK, Tokens, OverIsOver, Rooted, Stored
  <2>3. Codes' \subseteq Codes /\ {t} \in SUBSET tokens /\ TRUE \in BOOLEAN
    BY <2>1 DEF Codes
  <2> QED
    BY <1>6, <2>1, <2>2, <2>3
<1>9. CASE RevokeAll \/ RevokeAllOffline \/ \E t \in Tokens : Revoke(t)
  BY <1>1, <1>9, RevocationEnds
<1>10. CASE RegisterClient \/ Start \/ Publish \/ Stop
  BY <1>1, <1>10, ProcessEnds
<1>11. CASE \/ LapseOnce \/ LookForBroker \/ \E t \in Tokens : RevokeAbsent(t) \/ LapseToken(t)
            \/ \E r \in Requests : OpenPage(r) \/ EnterWrongCode(r) \/ RedeemMismatch(r)
  <2>1. /\ UNCHANGED <<phase, tokens, disk, root, from, endings, given, lost, unloaded>>
        /\ ending \subseteq ending' /\ session' \in {0, session}
    BY <1>11 DEF LapseOnce, LookForBroker, RevokeAbsent, LapseToken, OpenPage, EnterWrongCode,
                 RedeemMismatch
  <2>2. Codes' \subseteq Codes
    BY <1>11 DEF LapseOnce, LookForBroker, RevokeAbsent, LapseToken, OpenPage, EnterWrongCode,
                 RedeemMismatch, Codes, Pairings, TypeOK
  <2> QED
    BY <1>1, <1>2, <1>4, <2>1, <2>2, QuietEnds
<1> QED
  BY <1>5, <1>7, <1>8, <1>9, <1>10, <1>11 DEF Next

\* The steps of the command, beside a broker that may be there.
LEMMA EndsPreserved == ASSUME Pairings, Ends, [MigrationNext]_allVars PROVE Ends'
<1> USE DEF Ends, broker, pairing, requests, issued, bounds, history, migration
<1>1. CASE BrokerStep
  BY <1>1, BrokerEnds DEF BrokerStep
<1>2. \A S \in SUBSET Legacy : LegacyTokens(S) \subseteq LegacyTokens(Legacy)
  BY DEF LegacyTokens
<1>3. CASE (\E f \in Legacy : LegacyFileAppears(f)) \/ MigrateDone \/ UNCHANGED allVars
  <2>1. /\ UNCHANGED <<phase, session, req, from, tokens, disk, root, lapsed, merged, given, ending,
                       endings, lost, unloaded, listed, noted>>
        /\ cli' = cli \/ cli' = "idle"
    BY <1>3 DEF LegacyFileAppears, MigrateDone, allVars, vars, commands
  <2>2. Codes' = Codes /\ Reckoned' \subseteq Reckoned
    BY <2>1 DEF Codes, Reckoned
  <2>3. Migrating'
    BY <2>1 DEF Migrating
  <2> QED
    BY <2>1, <2>2, <2>3, QuietEnds
<1>4. CASE MigrateRead
  <2>1. /\ UNCHANGED <<broker, pairing, requests, tokens, disk, issued, lapsed, history, noted>>
        /\ listed' = files /\ cli' = "read"
        /\ merged' = (disk.tokens \cup LegacyTokens(files)) \ lapsed
    BY <1>4 DEF MigrateRead
  <2>2. Codes' = Codes /\ Reckoned' \subseteq Reckoned
    BY <2>1 DEF Codes, Reckoned
  <2>3. Migrating'
    BY <2>1 DEF Migrating
  <2>4. merged' \subseteq merged \cup disk.tokens \cup LegacyTokens(Legacy)
    BY <1>2, <2>1 DEF Pairings, MigrationTypeOK
  <2> QED
    BY <2>1, <2>2, <2>3, <2>4, QuietEnds
<1>5. CASE MigrateWrite
  <2>1. /\ cli = "read" /\ merged' = {}
        /\ UNCHANGED <<phase, session, req, from, tokens, root, lapsed, given, ending, endings,
                       listed, noted>>
        /\ \/ /\ Write(merged, merged) /\ cli' = "written"
              /\ phase # "down" => unloaded' = merged \ tokens
           \/ SaveFails /\ cli' = "idle" /\ UNCHANGED unloaded
    BY <1>5 DEF MigrateWrite
  <2>2. Codes' = Codes /\ Migrating'
    BY <2>1 DEF Codes, Migrating
  <2>3. Stored' \subseteq Stored \cup LegacyTokens(Legacy)
    BY <2>1, Written, FailedWrite DEF Stored
  <2>4. EndedIsGone' /\ OverIsOver'
    BY <2>1, <2>2, <2>3, Carrying
  <2>5. CASE /\ Write(merged, merged) /\ cli' = "written"
             /\ phase # "down" => unloaded' = merged \ tokens
    <3>1. Reckoned' \subseteq Reckoned \cup LegacyTokens(listed)
      BY <2>1 DEF Reckoned
    <3>2. Due' \subseteq merged
      <4> SUFFICES ASSUME NEW t \in Due', t \notin merged PROVE FALSE
        OBVIOUS
      <4>1. t \in Reckoned' /\ t \notin ending /\ t \notin lapsed /\ t \notin lost'
        BY <2>1 DEF Due
      <4>2. t \notin lost /\ t \notin disk.tokens
        BY <2>5, <4>1, Written
      <4>3. t \notin LegacyTokens(listed)
        BY <2>1, <4>1 DEF Migrating
      <4> QED
        BY <3>1, <4>1, <4>2, <4>3 DEF Due, DueIsKept
    <3>3. phase' # "down" => merged \subseteq tokens' \cup unloaded'
      BY <2>1, <2>5
    <3> QED
      BY <2>2, <2>4, <2>5, <3>2, <3>3, Written DEF DueIsKept
  <2>6. CASE SaveFails /\ cli' = "idle" /\ UNCHANGED unloaded
    <3>1. Reckoned' \subseteq Reckoned
      BY <2>1, <2>6 DEF Reckoned
    <3>2. Due' \subseteq Due /\ Due' \cap lost' = {}
      BY <2>1, <2>6, <3>1, Owing, FailedWrite
    <3> QED
      BY <2>1, <2>2, <2>4, <2>6, <3>2, FailedWrite DEF DueIsKept
  <2> QED
    BY <2>1, <2>5, <2>6
<1>6. CASE MigrateNote
  <2>1. /\ cli = "written" /\ cli' \in {"noted", "idle"}
        /\ UNCHANGED <<broker, pairing, requests, tokens, disk, issued, lapsed, commands, history,
                       listed>>
        /\ noted' \in {listed, noted, {}}
    BY <1>6 DEF MigrateNote
  <2>2. Codes' = Codes /\ LegacyTokens({}) = {}
    BY <2>1 DEF Codes, LegacyTokens
  <2>3. Reckoned' \subseteq Reckoned /\ Migrating'
    BY <2>1, <2>2 DEF Reckoned, Migrating
  <2> QED
    BY <2>1, <2>2, <2>3, QuietEnds DEF commands
<1>7. CASE MigrateStop
  <2>1. Stop /\ cli = "noted" /\ cli' = "stopped" /\ UNCHANGED <<noted, listed, merged>>
    BY <1>7 DEF MigrateStop, Stop, commands
  <2>2. Migrating'
    BY <2>1 DEF Migrating
  <2> QED
    BY <2>1, <2>2, ProcessEnds
<1> QED
  BY <1>1, <1>3, <1>4, <1>5, <1>6, <1>7 DEF MigrationNext

\* The three stores, what was given and what was ended agree, but for what the
\* history excepts, whatever command works beside the broker.
THEOREM EndsInvariant == MigrationSpec => [](Pairings /\ Ends)
<1>1. Pairings /\ Ends /\ [MigrationNext]_allVars => (Pairings /\ Ends)'
  BY PairingsPreserved, EndsPreserved
<1> QED
  BY <1>1, PairingsInit, EndsInit, PTL DEF MigrationSpec

\* A rotated or revoked token whose end was saved is never back, in memory or
\* in the file, unless a process held a copy of it at that moment.
THEOREM EndedForGood == MigrationSpec => []EndedStaysEnded
<1>1. Ends => EndedStaysEnded
  BY DEF Ends, EndedIsGone, EndedStaysEnded, Stored
<1> QED
  BY <1>1, EndsInvariant, PTL

\* After an acknowledged revoke-all no session, code or token of a pairing
\* from before it is left, but of pairings that a process held which the
\* revoke-all does not reach.
THEOREM RevokeAllIsComplete == MigrationSpec => []NothingSurvivesRevokeAll
<1>1. Ends => NothingSurvivesRevokeAll
  BY DEF Ends, OverIsOver, NothingSurvivesRevokeAll, Rooted, Stored
<1> QED
  BY <1>1, EndsInvariant, PTL

\* A token a client was answered with works until it expires or someone sets
\* out to end it, across failed saves, restarts and migrations, unless a write
\* took it out of the file and none put it back.
THEOREM Kept == MigrationSpec => []KeptUntilEnded
<1>1. Ends => KeptUntilEnded
  BY DEF Ends, DueIsKept, Due, Reckoned, KeptUntilEnded, Current
<1> QED
  BY <1>1, EndsInvariant, PTL

\* A broker started after a migration wrote the file accepts what was noted as
\* merged, and nobody ended or overwrote; one that was running lacks exactly
\* what it had not loaded.
THEOREM Recognized == MigrationSpec => []MigratedAreRecognized
<1>1. Pairings /\ Ends => MigratedAreRecognized
  BY DEF Pairings, Ends, DueIsKept, Due, Reckoned, MigratedAreRecognized
<1> QED
  BY <1>1, EndsInvariant, PTL
=============================================================================
