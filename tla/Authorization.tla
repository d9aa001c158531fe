----------------------------- MODULE Authorization -----------------------------
(***************************************************************************)
(* How Claude comes to hold tokens for the installation: pairing sessions  *)
(* (src/pairing/manager.ts), authorization requests and codes              *)
(* (src/auth/oauth.ts), the token store and its file (src/auth/store.ts),  *)
(* restarts of the broker, and `c2c unpair` (src/broker/daemon.ts).        *)
(*                                                                         *)
(* Every HTTP handler here is synchronous, so it is one action.  The file  *)
(* is written in place (writeSecureJson): a write that fails may leave it  *)
(* as it was or unreadable, and what the handler did in memory stands.     *)
(*                                                                         *)
(* A token is a grant (one answer of the token endpoint) and a kind.  A    *)
(* code is named by the request it was issued for.  Clients, scopes, PKCE  *)
(* and redirect URIs are left to one choice: whether they match.  Expiry   *)
(* is a choice too, because the model has no clock.                        *)
(*                                                                         *)
(* Commands are processes of their own and nothing keeps them from working *)
(* on the file of a broker that runs: `unpair` looks for a broker before   *)
(* it writes, and a migration (AuthMigration) holds a copy of the file it  *)
(* will write back.  What such a command undoes or overlooks is recorded   *)
(* in the history, and the properties except that and nothing else.        *)
(***************************************************************************)
EXTENDS Integers

CONSTANTS
  Requests,      \* authorization requests; each page is opened once
  Legacy,        \* grants of per-workspace bridges, from before the installation
  MaxAttempts,   \* maxAttempts of the PairingManager
  MaxPairings, MaxGrants, MaxFaults, MaxStarts, MaxLapses  \* bounds of the model

ASSUME ConstantsAssumption ==
  /\ MaxAttempts \in Nat \ {0}
  /\ MaxPairings \in Nat /\ MaxGrants \in Nat
  /\ MaxFaults \in Nat /\ MaxStarts \in Nat /\ MaxLapses \in Nat
  /\ \A f \in Legacy : f \notin 1..MaxGrants

Kinds == {"access", "refresh"}
Grants == 1..MaxGrants \cup Legacy
Tokens == Grants \X Kinds

VARIABLES
  phase,    \* the broker: "down", "starting" (store loaded), "up"
  seen,     \* whether its runtime record is there for commands to find
  session,  \* the active pairing session, or 0; sessions are numbered
  left,     \* its attemptsLeft
  created,  \* sessions created so far
  req,      \* each request: "new", "pending", "code", "spent"
  from,     \* the pairing session its code was issued for
  tokens,   \* AuthStore.tokens
  disk,     \* the auth file
  looked,   \* whether an `unpair` has found no runtime record and will save
  merged,   \* the tokens a migration is going to write; {} when there is none
  grants,   \* grants so far
  root,     \* the pairing session a grant goes back to
  lapsed,   \* tokens that have expired
  faults, starts, lapses,
  given,    \* history: tokens that a client was answered with
  ending,   \* history: tokens that a client or a command set out to end
  ended,    \* history: tokens whose end was saved and then acknowledged
  answered, \* history: tokens for which /oauth/revoke answered 200
  barrier,  \* history: sessions created before the last acknowledged revoke-all
  copied,   \* history: ended tokens of which another process then held a copy
  overlooked, \* history: pairings of which some process still held a session, a
            \* code or a token when the last revoke-all was acknowledged
  lost,     \* history: tokens that a write tore out of the file, or replaced by
            \* content put together without them, and no later write put back
  unloaded  \* history: tokens that a migration wrote beside the broker that runs,
            \* and that it does not have

broker == <<phase, seen>>
pairing == <<session, left, created>>
requests == <<req, from>>
issued == <<grants, root>>
bounds == <<starts, lapses>>
commands == <<looked, merged>>
endings == <<ended, barrier, copied, overlooked>>
history == <<given, ending, answered, endings, lost, unloaded>>
vars == <<broker, pairing, requests, tokens, disk, issued, lapsed, faults, bounds, commands,
          history>>

Unreadable == [readable |-> FALSE, tokens |-> {}]

Init ==
  /\ phase = "down" /\ seen = FALSE
  /\ session = 0 /\ left = 0 /\ created = 0
  /\ req = [r \in Requests |-> "new"]
  /\ from = [r \in Requests |-> 0]
  /\ tokens = {}
  /\ disk = [readable |-> TRUE, tokens |-> {}]
  /\ grants = 0
  /\ root = [g \in Grants |-> 0]
  /\ lapsed = {}
  /\ faults = 0 /\ starts = 0 /\ lapses = 0
  /\ looked = FALSE /\ merged = {}
  /\ given = {} /\ ending = {} /\ answered = {}
  /\ ended = {} /\ barrier = 0 /\ copied = {} /\ overlooked = {}
  /\ lost = {} /\ unloaded = {}

\* A client can present only what it was given.
Known(t) == t \in given \/ t[1] \in Legacy

\* A write of `content` by a process that knew of the tokens `known`.
Write(content, known) ==
  /\ disk' = [readable |-> TRUE, tokens |-> content]
  /\ lost' = (lost \cup (disk.tokens \ known)) \ content
  /\ UNCHANGED faults

\* save: expired tokens are left out.
Saved(content) == Write(content \ lapsed, tokens)

SaveFails ==
  /\ faults < MaxFaults
  /\ faults' = faults + 1
  /\ \/ UNCHANGED <<disk, lost>>
     \/ disk' = Unreadable /\ lost' = lost \cup disk.tokens

\* The tokens S have ended for good, but for those a process holds a copy of.
End(S, held) ==
  /\ ended' = ended \cup S
  /\ copied' = (copied \ S) \cup (S \cap held)
-----------------------------------------------------------------------------
(* Pairing and authorization requests.                                     *)

\* POST /admin/pairing: the previous session is invalidated.
CreatePairing ==
  /\ phase = "up" /\ created < MaxPairings
  /\ created' = created + 1
  /\ session' = created'
  /\ left' = MaxAttempts
  /\ UNCHANGED <<broker, requests, tokens, disk, issued, lapsed, faults, bounds, commands,
                 history>>

\* GET /oauth/authorize.
OpenPage(r) ==
  /\ phase = "up" /\ req[r] = "new"
  /\ req' = [req EXCEPT ![r] = "pending"]
  /\ UNCHANGED <<broker, pairing, from, tokens, disk, issued, lapsed, faults, bounds, commands,
                 history>>

\* POST /oauth/authorize with the pairing code of the active session.
EnterCode(r) ==
  /\ phase = "up" /\ req[r] = "pending" /\ session # 0
  /\ session' = 0
  /\ req' = [req EXCEPT ![r] = "code"]
  /\ from' = [from EXCEPT ![r] = session]
  /\ UNCHANGED <<broker, left, created, tokens, disk, issued, lapsed, faults, bounds, commands,
                 history>>

\* POST /oauth/authorize with a code that does not match.
EnterWrongCode(r) ==
  /\ phase = "up" /\ req[r] = "pending" /\ session # 0
  /\ left' = left - 1
  /\ session' = IF left' > 0 THEN session ELSE 0
  /\ UNCHANGED <<broker, created, requests, tokens, disk, issued, lapsed, faults, bounds, commands,
                 history>>
-----------------------------------------------------------------------------
(* The token endpoint.                                                     *)

Pair(g, offline) == {<<g, k>> : k \in IF offline THEN Kinds ELSE {"access"}}

\* Mutant: the store is saved before the new tokens are in it.
IssueLate(origin, offline, gone) ==
  LET new == Pair(grants + 1, offline) IN
  /\ grants < MaxGrants
  /\ grants' = grants + 1
  /\ root' = [root EXCEPT ![grants + 1] = origin]
  /\ tokens' = (tokens \ gone) \cup new
  /\ ending' = ending \cup gone
  /\ Saved(tokens \ gone)
  /\ given' = given \cup new
  /\ End(gone, merged)
  /\ UNCHANGED <<answered, barrier, overlooked, unloaded>>

\* issueTokens, with `gone` the refresh token it replaces: memory first.
Issue(origin, offline, gone) ==
  LET new == Pair(grants + 1, offline) IN
  /\ grants < MaxGrants
  /\ grants' = grants + 1
  /\ root' = [root EXCEPT ![grants + 1] = origin]
  /\ tokens' = (tokens \ gone) \cup new
  /\ ending' = ending \cup gone
  /\ \/ /\ Saved(tokens')
        /\ given' = given \cup new
        /\ End(gone, merged)
     \/ /\ SaveFails
        /\ UNCHANGED <<given, ended, copied>>
  /\ UNCHANGED <<answered, barrier, overlooked, unloaded>>

Redeem(r) ==
  /\ phase = "up" /\ req[r] = "code"
  /\ req' = [req EXCEPT ![r] = "spent"]
  /\ \E offline \in BOOLEAN : Issue(from[r], offline, {})
  /\ UNCHANGED <<broker, pairing, from, lapsed, bounds, commands>>

\* The client, the redirect URI or the verifier does not match: the code is
\* consumed all the same.
RedeemMismatch(r) ==
  /\ phase = "up" /\ req[r] = "code"
  /\ req' = [req EXCEPT ![r] = "spent"]
  /\ UNCHANGED <<broker, pairing, from, tokens, disk, issued, lapsed, faults, bounds, commands,
                 history>>

\* Mutant: the old refresh token is kept.
RefreshKeeping(t) ==
  /\ phase = "up" /\ Known(t)
  /\ t \in tokens \ lapsed /\ t[2] = "refresh"
  /\ Issue(root[t[1]], TRUE, {})
  /\ UNCHANGED <<broker, pairing, requests, lapsed, bounds, commands>>

Refresh(t) ==
  /\ phase = "up" /\ Known(t)
  /\ t \in tokens \ lapsed /\ t[2] = "refresh"
  /\ Issue(root[t[1]], TRUE, {t})
  /\ UNCHANGED <<broker, pairing, requests, lapsed, bounds, commands>>
-----------------------------------------------------------------------------
(* Revocation.                                                             *)

\* Mutant: revokeToken does not save.
RevokeUnsaved(t) ==
  /\ phase = "up" /\ Known(t) /\ t \in tokens
  /\ tokens' = tokens \ {t}
  /\ ending' = ending \cup {t}
  /\ End({t}, merged) /\ answered' = answered \cup {t}
  /\ UNCHANGED <<broker, pairing, requests, disk, issued, lapsed, faults, bounds, commands,
                 given, barrier, overlooked, lost, unloaded>>

\* POST /oauth/revoke of a token the store has.
Revoke(t) ==
  /\ phase = "up" /\ Known(t) /\ t \in tokens
  /\ tokens' = tokens \ {t}
  /\ ending' = ending \cup {t}
  /\ \/ /\ Saved(tokens')
        /\ End({t}, merged) /\ answered' = answered \cup {t}
     \/ SaveFails /\ UNCHANGED <<ended, copied, answered>>
  /\ UNCHANGED <<broker, pairing, requests, issued, lapsed, bounds, commands,
                 given, barrier, overlooked, unloaded>>

\* POST /oauth/revoke of a token it does not have: 200, and no save.
RevokeAbsent(t) ==
  /\ phase = "up" /\ Known(t) /\ t \notin tokens
  /\ ending' = ending \cup {t}
  /\ answered' = answered \cup {t}
  /\ UNCHANGED <<broker, pairing, requests, tokens, disk, issued, lapsed, faults, bounds, commands,
                 given, endings, lost, unloaded>>

Issued == (1..grants) \X Kinds

RootsOf(S) == {root[t[1]] : t \in S}

\* revokeAll is acknowledged: a token or a pairing lives on only with a
\* process that `held` the token, or the session or code of one of `pairings`.
EverythingEnded(pairings, held) ==
  /\ End(Issued \cup tokens \cup disk.tokens, held)
  /\ barrier' = created
  /\ overlooked' = pairings \cup RootsOf(held)

\* Mutant: the authorization codes are not cleared.
RevokeTokensOnly ==
  /\ phase = "up"
  /\ tokens' = {}
  /\ ending' = ending \cup given \cup tokens
  /\ \/ Saved({}) /\ session' = 0 /\ EverythingEnded({}, merged)
     \/ SaveFails /\ UNCHANGED <<session, endings>>
  /\ UNCHANGED <<broker, left, created, requests, issued, lapsed, bounds, commands,
                 given, answered, unloaded>>

\* POST /admin/revoke-all.  When the save throws, the pairing session stays.
RevokeAll ==
  /\ phase = "up"
  /\ tokens' = {}
  /\ req' = [r \in Requests |-> IF req[r] = "code" THEN "spent" ELSE req[r]]
  /\ ending' = ending \cup given \cup tokens
  /\ \/ Saved({}) /\ session' = 0 /\ EverythingEnded({}, merged)
     \/ SaveFails /\ UNCHANGED <<session, endings>>
  /\ UNCHANGED <<broker, left, created, from, issued, lapsed, bounds, commands,
                 given, answered, unloaded>>

\* revokeInstallationAuth of a command looks for a runtime record ...
LookForBroker ==
  /\ ~seen /\ ~looked
  /\ looked' = TRUE
  /\ UNCHANGED <<broker, pairing, requests, tokens, disk, issued, lapsed, faults, bounds, merged,
                 history>>

Codes == {r \in Requests : req[r] = "code"}
Outstanding == {session} \cup {from[r] : r \in Codes}

\* ... and, having found none, loads the file into a store of its own and
\* saves that empty, whatever a broker that starts or runs by now has.
RevokeAllOffline ==
  /\ looked
  /\ looked' = FALSE
  /\ ending' = ending \cup given \cup disk.tokens
  /\ \/ Write({}, disk.tokens) /\ EverythingEnded(Outstanding, tokens \cup merged)
     \/ SaveFails /\ UNCHANGED endings
  /\ UNCHANGED <<broker, pairing, requests, tokens, issued, lapsed, bounds, merged,
                 given, answered, unloaded>>

\* POST /oauth/register saves the store too.
RegisterClient ==
  /\ phase = "up"
  /\ Saved(tokens) \/ SaveFails
  /\ UNCHANGED <<broker, pairing, requests, tokens, issued, lapsed, bounds, commands,
                 given, ending, answered, endings, unloaded>>
-----------------------------------------------------------------------------
(* Expiry.                                                                 *)

Lapse == lapses < MaxLapses /\ lapses' = lapses + 1 /\ UNCHANGED starts

\* A pairing session, an authorization request or a code that has expired is
\* dropped when it is next looked at.
LapseOnce ==
  /\ Lapse
  /\ \/ session # 0 /\ session' = 0 /\ UNCHANGED req
     \/ /\ \E r \in Requests : /\ req[r] \in {"pending", "code"}
                               /\ req' = [req EXCEPT ![r] = "spent"]
        /\ UNCHANGED session
  /\ UNCHANGED <<broker, left, created, from, tokens, disk, issued, lapsed, faults, commands,
                 history>>

\* The access token of a grant expires before its refresh token.
LapseToken(t) ==
  /\ Lapse
  /\ t[1] \in Legacy \cup 1..grants /\ t \notin lapsed
  /\ t[2] = "refresh" /\ t[1] \notin Legacy => <<t[1], "access">> \in lapsed
  /\ lapsed' = lapsed \cup {t}
  /\ UNCHANGED <<broker, pairing, requests, tokens, disk, issued, faults, commands, history>>
-----------------------------------------------------------------------------
(* The broker process.                                                     *)

\* load: an unreadable file is an empty store.
Start ==
  /\ phase = "down" /\ starts < MaxStarts
  /\ phase' = "starting"
  /\ starts' = starts + 1
  /\ tokens' = disk.tokens \ lapsed
  /\ UNCHANGED <<seen, pairing, requests, disk, issued, lapsed, faults, lapses, commands,
                 history>>

\* persistRuntime, once it listens.
Publish ==
  /\ phase = "starting"
  /\ phase' = "up" /\ seen' = TRUE
  /\ UNCHANGED <<pairing, requests, tokens, disk, issued, lapsed, faults, bounds, commands,
                 history>>

\* It stops, fails to start or crashes; only the first removes the record.
Stop ==
  /\ phase # "down"
  /\ phase' = "down" /\ seen' \in {seen, FALSE}
  /\ tokens' = {} /\ session' = 0 /\ unloaded' = {}
  /\ req' = [r \in Requests |-> IF req[r] = "new" THEN "new" ELSE "spent"]
  /\ UNCHANGED <<left, created, from, disk, issued, lapsed, faults, bounds, commands,
                 given, ending, answered, endings, lost>>

Next ==
  \/ CreatePairing
  \/ \E r \in Requests : OpenPage(r) \/ EnterCode(r) \/ EnterWrongCode(r)
  \/ \E r \in Requests : Redeem(r) \/ RedeemMismatch(r)
  \/ \E t \in Tokens : Refresh(t) \/ Revoke(t) \/ RevokeAbsent(t) \/ LapseToken(t)
  \/ RevokeAll \/ LookForBroker \/ RevokeAllOffline \/ RegisterClient
  \/ LapseOnce
  \/ Start \/ Publish \/ Stop

Spec == Init /\ [][Next]_vars
-----------------------------------------------------------------------------
\* Type correctness of the store, the pairing session and the file.
TypeOK ==
  /\ phase \in {"down", "starting", "up"} /\ seen \in BOOLEAN
  /\ created \in 0..MaxPairings /\ session \in {0, created}
  /\ left \in 0..MaxAttempts /\ (session # 0 => left > 0)
  /\ req \in [Requests -> {"new", "pending", "code", "spent"}]
  /\ from \in [Requests -> 0..MaxPairings]
  /\ tokens \subseteq Tokens /\ (phase = "down" => tokens = {})
  /\ disk \in [readable : BOOLEAN, tokens : SUBSET Tokens]
  /\ grants \in 0..MaxGrants /\ root \in [Grants -> 0..MaxPairings]
  /\ lapsed \subseteq Tokens
  /\ faults \in 0..MaxFaults /\ starts \in 0..MaxStarts /\ lapses \in 0..MaxLapses
  /\ given \subseteq Tokens /\ ending \subseteq Tokens
  /\ ended \subseteq Tokens /\ answered \subseteq Tokens
  /\ barrier \in 0..created
  /\ looked \in BOOLEAN /\ merged \subseteq Tokens
  /\ copied \subseteq ended /\ overlooked \subseteq 0..MaxPairings
  /\ lost \subseteq Tokens /\ unloaded \subseteq Tokens /\ (phase = "down" => unloaded = {})

\* A grant with the root 0 goes back to a legacy file.
Rooted(S) == {t \in S : root[t[1]] # 0}
Refreshers(S) == {t \in Rooted(S) : t[2] = "refresh"}
OneEach(S) == \A t, u \in Refreshers(S) : root[t[1]] = root[u[1]] => t = u

\* A pairing code is entered with success once, its authorization code is
\* exchanged once, and a refresh token is exchanged once: whatever the saves,
\* failures and restarts in between, a pairing is at any time one of an open
\* session, one outstanding code or one usable refresh token, in memory and in
\* the file.  (One-time sessions and codes, refresh-token rotation.)
OneGrantPerPairing ==
  /\ TypeOK
  /\ OneEach(tokens) /\ OneEach(disk.tokens)
  /\ \A r, s \in Codes : from[r] = from[s] => r = s
  /\ \A r \in Codes : from[r] # session
  /\ \A r \in Codes : \A t \in Refreshers(tokens \cup disk.tokens) : root[t[1]] # from[r]
  /\ \A t \in Refreshers(tokens \cup disk.tokens) : session = 0 \/ root[t[1]] # session

\* A token whose rotation or revocation was saved and acknowledged is never
\* back: neither a failed save later nor a restart revives it, and of the
\* commands only one that held a copy of it at that moment does.  (The tokens
\* of legacy files, which are never rewritten, are left to AuthMigration.)
EndedStaysEnded ==
  \A t \in ended \ copied : t[1] \in Legacy \/ t \notin tokens \cup disk.tokens

Current == IF phase = "down" THEN disk.tokens ELSE tokens

\* A token that a client was answered with works until it expires or someone
\* sets out to end it, across failed saves and restarts, unless a write tore
\* it out of the file or replaced it by content put together without it, and
\* no later write put it back in time for the broker to load it.
KeptUntilEnded == given \ (ending \cup lapsed \cup lost \cup unloaded) \subseteq Current

Over(p) == p <= barrier /\ p \notin overlooked

\* After an acknowledged revoke-all, no session, code or token that goes back
\* to a pairing from before it is left, in the broker or in the file; but for
\* the pairings of which a process that the revoke-all does not reach held
\* one: a broker without a record yet, or a migration about to write.
NothingSurvivesRevokeAll ==
  /\ session = 0 \/ ~Over(session)
  /\ \A r \in Codes : ~Over(from[r])
  /\ \A t \in Rooted(tokens \cup disk.tokens) : ~Over(root[t[1]])

\* A token whose revocation was answered with success is not accepted again.
RevokedIsRefused == phase = "up" => answered \cap (tokens \ lapsed) = {}
=============================================================================
