--------------------------- MODULE EndpointRepair ---------------------------
(***************************************************************************)
(* Commands that look after the public endpoint of an installation: health *)
(* checks and repairs (src/src/admin/installation-health.ts), the          *)
(* lifecycle operations that end in one (installation-lifecycle.ts), the   *)
(* set-up of a named tunnel (src/src/tunnel/installation.ts and            *)
(* named-provision.ts) and the confirmation of the connector's address     *)
(* (src/src/config/endpoint.ts), each a process of its own that talks to   *)
(* the broker of module Tunnel and shares two files with the others: the   *)
(* tunnel choice and the last endpoint.                                    *)
(*                                                                         *)
(* A command is a program counter, pc, and the values it read and still    *)
(* uses: its copy of the runtime file (rt), the address it works with, how *)
(* it came by it, the confirmed address it read, and what it waits for.    *)
(***************************************************************************)
EXTENDS Tunnel

CONSTANTS Admins,   \* commands that may run at the same time
          MaxCommands  \* bound: commands ever begun

ASSUME RepairBounds == MaxCommands \in Nat

VARIABLES stored,    \* preference of the stored tunnel choice
          account,   \* the Cloudflare account (external): no tunnel ("none"), a tunnel ("created") whose
                     \* host name leads to it ("routed") or exists and leads elsewhere ("taken")
          endpoint,  \* the endpoint file: the observed and the confirmed address
          begun,     \* commands begun so far
          pc, op, rt, addr, how, prev, waits,
          seen,      \* history: addresses served since the command began
          shown,     \* history: addresses a finished command has shown the user
          confirmed, \* history: addresses the user has confirmed
          inherited  \* history: addresses an older file counts as confirmed

adminVars == <<pc, op, rt, addr, how, prev, waits>>
fileVars == <<stored, account, endpoint>>
historyVars == <<seen, shown, confirmed, inherited>>
repairVars == <<tunnelVars, adminVars, fileVars, historyVars, begun>>

Operations == {"check", "fix", "start", "restart", "recover", "stop", "named", "quick", "confirm"}
NoRuntime == [gen |-> 0, url |-> None]
PublicURLs == 1..Stable

RepairTypeOK ==
  /\ TunnelTypeOK
  /\ stored \in {"unset", "quick", "named"} /\ account \in {"none", "created", "taken", "routed"}
  /\ endpoint \in [mcp : Addresses, confirmed : Addresses] /\ begun \in 0..MaxCommands
  /\ pc \in [Admins -> {"idle", "ensure", "create", "route", "store", "shutdown", "replace",
                        "info", "probe", "unhook", "choose", "ask", "request", "wait", "observe",
                        "save", "pair", "confirm", "healthy", "ended"}]
  /\ op \in [Admins -> Operations] /\ rt \in [Admins -> [gen : 0..MaxBrokers, url : Addresses]]
  /\ addr \in [Admins -> Addresses] /\ how \in [Admins -> {"none", "up", "cached", "started"}]
  /\ prev \in [Admins -> Addresses] /\ waits \in [Admins -> 0..MaxSpawns]
  /\ seen \in [Admins -> SUBSET PublicURLs] /\ shown \subseteq PublicURLs
  /\ confirmed \subseteq PublicURLs /\ inherited \subseteq PublicURLs

\* A fresh installation, or one whose named tunnel was set up and shown before: its file says that
\* nothing was confirmed, or is of a version that had no such field, and its address then counts.
RepairInit ==
  /\ TunnelInit
  /\ \/ /\ stored \in {"unset", "quick"} /\ account = "none" /\ shown = {}
        /\ endpoint = [mcp |-> None, confirmed |-> None] /\ inherited = {}
     \/ /\ stored = "named" /\ account = "routed" /\ shown = {Stable}
        /\ inherited \in {{}, {Stable}}
        /\ endpoint = [mcp |-> Stable, confirmed |-> IF inherited = {} THEN None ELSE Stable]
  /\ begun = 0 /\ pc = [a \in Admins |-> "idle"] /\ op = [a \in Admins |-> "check"]
  /\ rt = [a \in Admins |-> NoRuntime] /\ addr = [a \in Admins |-> None]
  /\ how = [a \in Admins |-> "none"] /\ prev = [a \in Admins |-> None] /\ waits = [a \in Admins |-> 0]
  /\ seen = [a \in Admins |-> {}] /\ confirmed = {}

Goto(a, where) == pc' = [pc EXCEPT ![a] = where]
RuntimeFile == IF broker = "down" THEN NoRuntime ELSE [gen |-> gen, url |-> published]
\* A request with this copy of port and token reaches the broker that answers now.
Reaches(a) == broker = "up" /\ rt[a].gen = gen
\* What getInstallationStatus reports of the broker: a runtime file without an answer is unknown.
BrokerState == CASE broker = "up" -> "running" [] broker = "down" -> "stopped" [] OTHER -> "unknown"

\* Every step keeps the history of addresses served while a command is at work.
Watch == /\ seen' = [b \in Admins |-> IF pc'[b] = "idle" THEN {} ELSE seen[b] \union Served \union Served']
         /\ UNCHANGED inherited
Quiet == UNCHANGED <<tunnelVars, fileVars, shown, confirmed, begun>> /\ Watch

-----------------------------------------------------------------------------
(* Beginning a command, and the broker it needs. *)

\* A command starts. A check only reads the runtime file, a recovery is refused unless the state
\* of the broker is unknown; the commands that use the tunnel go for the broker first.
Begin(a, o) ==
  /\ pc[a] = "idle" /\ begun < MaxCommands /\ o # "confirm"
  /\ begun' = begun + 1 /\ op' = [op EXCEPT ![a] = o] /\ rt' = [rt EXCEPT ![a] = RuntimeFile]
  /\ how' = [how EXCEPT ![a] = "none"] /\ addr' = [addr EXCEPT ![a] = None]
  /\ Goto(a, CASE o = "check" -> IF broker = "down" THEN "ended" ELSE "info"
               [] o = "recover" /\ BrokerState # "unknown" -> "ended"
               [] o \in {"restart", "recover", "stop"} -> "shutdown"
               [] OTHER -> "ensure")
  /\ UNCHANGED <<tunnelVars, fileVars, prev, waits, shown, confirmed>> /\ Watch

KindOfStored == IF stored = "named" THEN "named" ELSE "quick"
BrokerUp == IF broker = "up" THEN UNCHANGED tunnelVars ELSE StartBroker(KindOfStored)
GetBroker(a, where) == /\ BrokerUp /\ Goto(a, where)
                       /\ rt' = [rt EXCEPT ![a] = [gen |-> gen', url |-> published']]
                       /\ UNCHANGED <<fileVars, addr, how, prev, waits, shown, confirmed, begun>>

\* ensureBroker: reuse the broker that answers, or start one.
EnsureBroker(a) ==
  /\ pc[a] = "ensure" /\ GetBroker(a, CASE op[a] = "named" -> "create" [] op[a] = "quick" -> "choose"
                                        [] OTHER -> "info")
  /\ UNCHANGED op /\ Watch

\* stopBrokerRuntime, and the first half of restart and recovery: the broker is shut down...
ShutDown(a) ==
  /\ pc[a] = "shutdown"
  /\ IF broker = "up" THEN Close ELSE broker' = "down" /\ UNCHANGED
       <<gen, kind, child, url, published, spawned, proc, mine, announced, told, timers, call, crossed>>
  /\ Goto(a, IF op[a] = "stop" THEN "ended" ELSE "replace")
  /\ UNCHANGED <<fileVars, op, rt, addr, how, prev, waits, shown, confirmed, begun>> /\ Watch

\* ... and its replacement started, unless another command has. A lifecycle operation then
\* reconciles by a check with repair, a set-up asks the new broker for its tunnel.
Replace(a) ==
  /\ pc[a] = "replace" /\ GetBroker(a, IF op[a] = "named" THEN "ask" ELSE "ensure")
  /\ op' = [op EXCEPT ![a] = IF op[a] = "named" THEN "named" ELSE "fix"] /\ Watch

\* No broker could be had: a check goes on with the runtime file it read, other commands fail.
BrokerFails(a) ==
  /\ pc[a] \in {"ensure", "replace"}
  /\ Goto(a, IF op[a] = "fix" /\ pc[a] = "ensure" /\ rt[a] # NoRuntime THEN "info" ELSE "ended")
  /\ UNCHANGED <<op, rt, addr, how, prev, waits>> /\ Quiet

-----------------------------------------------------------------------------
(* provisionNamedTunnel. *)

\* Whatever fails, the quick tunnel is stored instead of the named one; the broker is restarted
\* either way.
Fallback(a) == stored' = "quick" /\ Goto(a, "shutdown") /\ UNCHANGED account
Provisioning(a, step) ==
  /\ pc[a] = step
  /\ UNCHANGED <<tunnelVars, endpoint, op, rt, addr, how, prev, waits, shown, confirmed, begun>> /\ Watch

\* Log in and create the tunnel, or find the one there is...
CreateTunnel(a) ==
  /\ \/ /\ account' = IF account = "none" THEN "created" ELSE account
        /\ Goto(a, "route") /\ UNCHANGED stored
     \/ Fallback(a)
  /\ Provisioning(a, "create")

\* ... route its host name, replacing what routed it before; an error that says the name exists
\* passes for success (isBenignRouteError), although the name then leads where it led...
RouteDns(a) ==
  /\ \/ /\ account' \in {"routed", IF account = "routed" THEN "routed" ELSE "taken"}
        /\ Goto(a, "store") /\ UNCHANGED stored
     \/ Fallback(a)
  /\ Provisioning(a, "route")

\* ... and store the choice.
StoreNamed(a) ==
  /\ (stored' = "named" /\ Goto(a, "shutdown") /\ UNCHANGED account) \/ Fallback(a)
  /\ Provisioning(a, "store")

-----------------------------------------------------------------------------
(* checkEndpoint. *)

\* GET /admin/info: the address of a tunnel that runs is probed, without one the choice is looked up.
Info(a) ==
  /\ pc[a] = "info"
  /\ Goto(a, IF ~Reaches(a) THEN "ended" ELSE IF Running THEN "probe" ELSE "choose")
  /\ addr' = [addr EXCEPT ![a] = IF Reaches(a) /\ Running THEN announced[url] ELSE None]
  /\ UNCHANGED <<op, rt, how, prev, waits>> /\ Quiet

\* Who answers at an address: the process that announced it, or whoever a host name leads to that
\* is not routed to the tunnel.
Answers(u) == u \in Served \/ (u = Stable /\ account # "routed")

\* GET <address>/health: any answer of success will do, and it may fail at any time.
Probe(a, ok) ==
  /\ pc[a] = "probe" /\ (ok => Answers(addr[a]))
  /\ how' = [how EXCEPT ![a] = "up"]
  /\ Goto(a, IF ok THEN "observe" ELSE IF op[a] = "fix" THEN "unhook" ELSE "ended")
  /\ UNCHANGED <<op, rt, addr, prev, waits>> /\ Quiet

\* An unreachable tunnel is stopped, errors ignored, before it is started again.
Unhook(a) ==
  /\ pc[a] = "unhook" /\ Goto(a, "request")
  /\ IF Reaches(a) THEN Stop ELSE UNCHANGED tunnelVars
  /\ UNCHANGED <<fileVars, op, rt, addr, how, prev, waits, shown, confirmed, begun>> /\ Watch

\* resolveInstallationTunnel: without a choice the user is asked, or the quick tunnel is chosen;
\* the quick tunnel asked for replaces no choice that was made. A plain check ends here, and so
\* does every command on a machine without cloudflared.
Choose(a, default) ==
  /\ pc[a] = "choose"
  /\ \E installed \in BOOLEAN : LET go == installed /\ (op[a] = "quick" \/ (op[a] = "fix" /\ (stored # "unset" \/ default)))
     IN /\ stored' = IF go /\ stored = "unset" THEN "quick" ELSE stored
        /\ Goto(a, IF go THEN "ask" ELSE "ended")
  /\ UNCHANGED <<tunnelVars, account, endpoint, op, rt, addr, how, prev, waits, shown, confirmed, begun>>
  /\ Watch

After(a) == IF op[a] = "fix" THEN "observe" ELSE "healthy"

\* ensureBrokerTunnel: the address in the command's copy of the runtime file, if there is one.
Ask(a) ==
  /\ pc[a] = "ask"
  /\ IF rt[a].url = None THEN Goto(a, "request") /\ UNCHANGED <<addr, how>>
     ELSE /\ addr' = [addr EXCEPT ![a] = rt[a].url] /\ how' = [how EXCEPT ![a] = "cached"]
          /\ Goto(a, After(a))
  /\ UNCHANGED <<op, rt, prev, waits>> /\ Quiet

\* POST /admin/tunnel/start: answered at once if a tunnel is up, otherwise by the promise.
RequestTunnel(a) ==
  /\ pc[a] = "request" /\ how' = [how EXCEPT ![a] = "started"]
  /\ IF ~Reaches(a) THEN Goto(a, "ended") /\ UNCHANGED <<tunnelVars, addr, waits>>
     ELSE \/ StartUp /\ addr' = [addr EXCEPT ![a] = published'] /\ Goto(a, After(a)) /\ UNCHANGED waits
          \/ StartSpawn /\ waits' = [waits EXCEPT ![a] = spawned'] /\ Goto(a, "wait") /\ UNCHANGED addr
          \/ ~Running /\ Goto(a, "ended") /\ UNCHANGED <<tunnelVars, addr, waits>>  \* no cloudflared
  /\ UNCHANGED <<fileVars, op, rt, prev, shown, confirmed, begun>> /\ Watch

\* Mutant: the answer is used whatever it says.
AwaitAny(a) ==
  /\ pc[a] = "wait" /\ (call[waits[a]] # "pending" \/ waits[a] \notin timers)
  /\ addr' = [addr EXCEPT ![a] = announced[waits[a]]] /\ Goto(a, After(a))
  /\ UNCHANGED <<op, rt, how, prev, waits>> /\ Quiet

\* The answer arrives, or the client's 90 s are over, twice the time limit of a start.
Await(a) ==
  /\ pc[a] = "wait" /\ (call[waits[a]] # "pending" \/ waits[a] \notin timers)
  /\ IF call[waits[a]] = "resolved"
     THEN addr' = [addr EXCEPT ![a] = announced[waits[a]]] /\ Goto(a, After(a))
     ELSE Goto(a, "ended") /\ UNCHANGED addr
  /\ UNCHANGED <<op, rt, how, prev, waits>> /\ Quiet

-----------------------------------------------------------------------------
(* The endpoint file. *)

\* observeEndpoint reads what was confirmed...
Observe(a) ==
  /\ pc[a] = "observe" /\ Goto(a, "save")
  /\ prev' = [prev EXCEPT ![a] = endpoint.confirmed]
  /\ UNCHANGED <<op, rt, addr, how, waits>> /\ Quiet

\* Mutant: what is observed is taken to be confirmed.
SaveConfirmed(a) ==
  /\ pc[a] = "save" /\ endpoint' = [mcp |-> addr[a], confirmed |-> addr[a]]
  /\ Goto(a, "healthy")
  /\ UNCHANGED <<tunnelVars, stored, account, op, rt, addr, how, prev, waits, shown, confirmed, begun>> /\ Watch

\* ... and writes it back beside the address now observed.
Save(a) ==
  /\ pc[a] = "save" /\ endpoint' = [mcp |-> addr[a], confirmed |-> prev[a]]
  /\ Goto(a, IF op[a] = "fix" THEN "pair" ELSE "healthy")
  /\ UNCHANGED <<tunnelVars, stored, account, op, rt, addr, how, prev, waits, shown, confirmed, begun>> /\ Watch

\* connectorAction: the connector has to be created, or updated to another address.
ConnectorPending == endpoint.mcp # None /\ endpoint.mcp # endpoint.confirmed

\* A repair with a pending connector needs a pairing code; createInstallationPairing goes through
\* ensureBroker and may start one; its failure is an issue.
Pair(a) ==
  /\ pc[a] = "pair"
  /\ \/ ConnectorPending /\ GetBroker(a, "healthy")
     \/ Goto(a, "healthy") /\ UNCHANGED <<tunnelVars, fileVars, rt, addr, how, prev, waits, shown, confirmed, begun>>
  /\ UNCHANGED op /\ Watch

\* The user has set up the connector with an address a command has shown, and confirms it:
\* refused unless it is the one observed...
Compare(a, u) ==
  /\ pc[a] = "idle" /\ begun < MaxCommands /\ begun' = begun + 1
  /\ op' = [op EXCEPT ![a] = "confirm"] /\ addr' = [addr EXCEPT ![a] = u]
  /\ how' = [how EXCEPT ![a] = "none"]
  /\ Goto(a, IF endpoint.mcp = u THEN "confirm" ELSE "ended")
  /\ confirmed' = confirmed \union {u}
  /\ UNCHANGED <<tunnelVars, fileVars, rt, prev, waits, shown>> /\ Watch

\* ... and saved with the record that was read for the comparison.
Confirm(a) ==
  /\ pc[a] = "confirm" /\ endpoint' = [mcp |-> addr[a], confirmed |-> addr[a]] /\ Goto(a, "ended")
  /\ UNCHANGED <<tunnelVars, stored, account, op, rt, addr, how, prev, waits, shown, confirmed, begun>> /\ Watch

\* The command prints its result and ends.
Finish(a) ==
  /\ pc[a] \in {"healthy", "ended"} /\ Goto(a, "idle")
  /\ shown' = IF pc[a] = "healthy" THEN shown \union {addr[a]} ELSE shown
  /\ waits' = [waits EXCEPT ![a] = 0]
  /\ UNCHANGED <<tunnelVars, fileVars, op, rt, addr, how, prev, confirmed, begun>> /\ Watch

-----------------------------------------------------------------------------
Event == (ProcessEvent \/ Crash) /\ UNCHANGED <<fileVars, adminVars, shown, confirmed, begun>> /\ Watch

Command(a) ==
  \/ \E o \in Operations : Begin(a, o)
  \/ EnsureBroker(a) \/ ShutDown(a) \/ Replace(a) \/ BrokerFails(a)
  \/ CreateTunnel(a) \/ RouteDns(a) \/ StoreNamed(a)
  \/ \E ok \in BOOLEAN : Probe(a, ok) \/ Choose(a, ok)
  \/ Info(a) \/ Unhook(a) \/ Ask(a) \/ RequestTunnel(a) \/ Await(a)
  \/ Observe(a) \/ Save(a) \/ Pair(a) \/ Confirm(a) \/ Finish(a)
  \/ \E u \in shown : Compare(a, u)

RepairNext == Event \/ \E a \in Admins : Command(a)

RepairSpec == RepairInit /\ [][RepairNext]_repairVars /\ TunnelFairness

-----------------------------------------------------------------------------
(* Properties. *)

\* What a repair ends with as the healthy public address was served at some time since the repair
\* began (installation-health.ts:344-353, docs/local-e2e.md:197).
RepairedWasServed == \A a \in Admins : pc[a] = "healthy" /\ op[a] = "fix" => addr[a] \in seen[a]

\* An address that a command shows, and did not take from its copy of the runtime file, was that of
\* a running cloudflared at some time since the command began, whatever the other commands did to
\* the tunnel meanwhile and whoever else answers at the address.
AskedWasServed == \A a \in Admins : pc[a] = "healthy" /\ how[a] # "cached" => addr[a] \in seen[a]

\* The stored choice is the named tunnel only when the account has the tunnel and its host name is
\* there, routed to the tunnel or, where Cloudflare answered that the name exists, to what it led to
\* before, whatever step of the set-up failed and whoever set it up (named-provision.ts:207-225);
\* and an address stands as confirmed only if the user confirmed it or an older file did, whatever
\* observations and confirmations overlapped (endpoint.ts:39-73).
FilesAreEarned ==
  /\ RepairTypeOK
  /\ stored = "named" => account \in {"routed", "taken"}
  /\ endpoint.confirmed = None \/ endpoint.confirmed \in confirmed \union inherited
=============================================================================
