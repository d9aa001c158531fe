------------------------------- MODULE Tunnel -------------------------------
(***************************************************************************)
(* The public tunnel of one broker: CloudflaredQuickTunnel and             *)
(* CloudflaredNamedTunnel (src/src/tunnel/cloudflared.ts and               *)
(* cloudflared-named.ts) behind the broker's tunnel routes                 *)
(* (src/src/broker/server.ts).                                             *)
(*                                                                         *)
(* A start spawns a cloudflared process and is answered by that process's  *)
(* first announcing line, its exit, its spawn error or a time limit.       *)
(* Every callback works on the provider's two fields, this.child and       *)
(* this.url (this.connected for a named tunnel), whichever process it is   *)
(* about: the model keeps these two fields apart from the processes.       *)
(* The value of url is the process whose line set it, 0 is null.           *)
(***************************************************************************)
EXTENDS Integers, FiniteSets

CONSTANTS MaxSpawns,  \* bound: cloudflared processes ever spawned
          MaxBrokers  \* bound: brokers ever started

ASSUME TunnelBounds == MaxSpawns \in Nat \ {0} /\ MaxBrokers \in Nat \ {0}

VARIABLES broker,    \* "up", "down" (no runtime file) or "dead" (runtime file left behind)
          gen,       \* brokers started so far: the port and admin token of the last
          kind,      \* the provider of the running broker
          child,     \* this.child
          url,       \* this.url, this.connected
          published, \* publicBaseUrl, and publicUrl of the runtime file
          spawned,   \* processes spawned so far
          proc,      \* the processes: "running" or "exited"
          mine,      \* the processes whose events the running broker hears
          announced, \* the address each process has printed, 0 before
          told,      \* processes that were sent SIGTERM
          timers,    \* processes whose start timer is armed
          call,      \* the promise of the start that spawned the process
          crossed    \* history: processes of starts that met another's process

tunnelVars == <<broker, gen, kind, child, url, published, spawned, proc, mine, announced, told,
                timers, call, crossed>>

Processes == 1..MaxSpawns
None == 0
Stable == MaxSpawns + 1   \* the address of the named tunnel
Addresses == 0..Stable

\* The address a process announces: its own for a quick tunnel, the configured host name otherwise.
Address(c) == IF kind = "named" THEN Stable ELSE c

\* The addresses under which a process that has announced itself can be reached.
Served == {announced[c] : c \in {p \in Processes : proc[p] = "running"}} \ {None}

TunnelTypeOK ==
  /\ broker \in {"up", "down", "dead"} /\ gen \in 0..MaxBrokers /\ kind \in {"quick", "named"}
  /\ child \in 0..MaxSpawns /\ url \in 0..MaxSpawns /\ published \in Addresses
  /\ spawned \in 0..MaxSpawns /\ proc \in [Processes -> {"none", "running", "exited"}]
  /\ mine \subseteq Processes /\ announced \in [Processes -> Addresses] /\ told \subseteq Processes
  /\ timers \subseteq mine /\ crossed \subseteq Processes
  /\ call \in [Processes -> {"none", "pending", "resolved", "rejected"}]

TunnelInit ==
  /\ broker = "down" /\ gen = 0 /\ kind = "quick" /\ child = None /\ url = None /\ published = None
  /\ spawned = 0 /\ proc = [c \in Processes |-> "none"] /\ mine = {} /\ announced = [c \in Processes |-> None]
  /\ told = {} /\ timers = {} /\ call = [c \in Processes |-> "none"] /\ crossed = {}

-----------------------------------------------------------------------------
(* The provider. *)

Running == child # None /\ url # None

\* Processes still to be heard of: a start waits for them, they were told to end, or they crossed.
Unsettled == {o \in mine : proc[o] = "running" /\ (call[o] = "pending" \/ o \in told \union crossed)}

\* start() when no tunnel is up: spawn, forget the last address, arm the timer.
Spawn ==
  /\ spawned < MaxSpawns
  /\ spawned' = spawned + 1
  /\ child' = spawned' /\ url' = None
  /\ proc' = [proc EXCEPT ![spawned'] = "running"]
  /\ call' = [call EXCEPT ![spawned'] = "pending"]
  /\ mine' = mine \union {spawned'} /\ timers' = timers \union {spawned'}
  /\ crossed' = IF Unsettled = {} THEN crossed ELSE crossed \union Unsettled \union {spawned'}

Settle(c, how) == call' = IF call[c] = "pending" THEN [call EXCEPT ![c] = how] ELSE call

\* What differs for a named tunnel: its timer is cleared only along with its own promise, and a
\* spawn error leaves it without an address.
LineClears(c) == kind = "quick" \/ call[c] = "pending"
ExitClears(c) == kind = "quick" \/ url = None
UrlAfterError == IF kind = "named" THEN None ELSE url

\* A line with the address, or "registered tunnel connection": it counts unless an address is
\* known. The route that waits then publishes the address and saves the runtime file. A quick
\* tunnel prints its address once, a named one a line for each connection.
Line(c) ==
  /\ c \in mine /\ proc[c] = "running" /\ (announced[c] = None \/ kind = "named")
  /\ announced' = [announced EXCEPT ![c] = Address(c)]
  /\ IF url = None
     THEN /\ url' = c
          /\ timers' = IF LineClears(c) THEN timers \ {c} ELSE timers
          /\ Settle(c, "resolved")
          /\ published' = IF call[c] = "pending" THEN Address(c) ELSE published
     ELSE UNCHANGED <<url, timers, call, published>>
  /\ UNCHANGED <<broker, gen, kind, child, spawned, proc, mine, told, crossed>>

\* Mutant: the time limit rejects the start and leaves its process running.
TimeoutKeeps(c) ==
  /\ c \in timers
  /\ timers' = timers \ {c}
  /\ IF url = None THEN Settle(c, "rejected") ELSE UNCHANGED call
  /\ UNCHANGED <<broker, gen, kind, child, url, published, spawned, proc, mine, announced, told, crossed>>

\* The time limit of a start: nothing to do when an address is known, whosever it is.
Timeout(c) ==
  /\ c \in timers
  /\ timers' = timers \ {c}
  /\ IF url = None THEN told' = told \union {c} /\ Settle(c, "rejected") ELSE UNCHANGED <<told, call>>
  /\ UNCHANGED <<broker, gen, kind, child, url, published, spawned, proc, mine, announced, crossed>>

\* Mutant: an exit clears the timer of its start and rejects it only if it had been told to end.
ExitUnanswered(c) ==
  /\ proc[c] = "running"
  /\ proc' = [proc EXCEPT ![c] = "exited"]
  /\ IF c \in mine
     THEN /\ child' = None /\ url' = None /\ timers' = timers \ {c}
          /\ IF c \in told THEN Settle(c, "rejected") ELSE UNCHANGED call
     ELSE UNCHANGED <<child, url, call, timers>>
  /\ UNCHANGED <<broker, gen, kind, published, spawned, mine, announced, told, crossed>>

\* A process exits, by itself or because it was told to, and the exit event clears both fields.
Exit(c) ==
  /\ proc[c] = "running"
  /\ proc' = [proc EXCEPT ![c] = "exited"]
  /\ IF c \in mine
     THEN /\ child' = None /\ url' = None
          /\ IF url = None THEN Settle(c, "rejected") ELSE UNCHANGED call
          /\ timers' = IF ExitClears(c) THEN timers \ {c} ELSE timers
     ELSE UNCHANGED <<child, url, call, timers>>
  /\ UNCHANGED <<broker, gen, kind, published, spawned, mine, announced, told, crossed>>

\* The process could not be started: there is an error event and no process.
SpawnError(c) ==
  /\ c \in mine /\ proc[c] = "running" /\ announced[c] = None
  /\ proc' = [proc EXCEPT ![c] = "exited"]
  /\ child' = None /\ url' = UrlAfterError
  /\ timers' = timers \ {c} /\ Settle(c, "rejected")
  /\ UNCHANGED <<broker, gen, kind, published, spawned, mine, announced, told, crossed>>

-----------------------------------------------------------------------------
(* The routes and the life of the broker. *)

\* POST /admin/tunnel/start with a tunnel up: the address is published again.
StartUp == broker = "up" /\ Running /\ published' = announced[url]
           /\ UNCHANGED <<broker, gen, kind, child, url, spawned, proc, mine, announced, told,
                          timers, call, crossed>>

\* POST /admin/tunnel/start with none up, or not yet.
StartSpawn == broker = "up" /\ ~Running /\ Spawn
              /\ UNCHANGED <<broker, gen, kind, published, announced, told>>

\* stop(): only the current process is told.
StopTunnel == /\ told' = IF child = None THEN told ELSE told \union {child}
              /\ child' = None /\ url' = None /\ published' = None

\* POST /admin/tunnel/stop.
Stop == broker = "up" /\ StopTunnel
        /\ UNCHANGED <<broker, gen, kind, spawned, proc, mine, announced, timers, call, crossed>>

\* The broker is gone: nobody hears its processes, and requests that waited fail.
Forget == /\ mine' = {} /\ timers' = {}
          /\ call' = [c \in Processes |-> IF call[c] = "pending" THEN "rejected" ELSE call[c]]
          /\ UNCHANGED <<spawned, proc, announced, crossed>>

\* shutdown() and the exit of the process, the runtime file removed (BrokerLifecycle has the details).
Close == broker = "up" /\ broker' = "down" /\ StopTunnel /\ Forget /\ UNCHANGED <<gen, kind>>

\* The broker is killed: its tunnel goes on, its runtime file stays.
Crash == broker = "up" /\ broker' = "dead" /\ child' = None /\ url' = None /\ Forget
         /\ UNCHANGED <<gen, kind, published, told>>

\* startBroker: a new provider, of the kind the stored tunnel choice asks for, and no address.
StartBroker(k) ==
  /\ broker # "up" /\ gen < MaxBrokers
  /\ broker' = "up" /\ gen' = gen + 1 /\ kind' = k /\ published' = None
  /\ UNCHANGED <<child, url, spawned, proc, mine, announced, told, timers, call, crossed>>

ProcessEvent == \E c \in Processes : Line(c) \/ Timeout(c) \/ Exit(c) \/ SpawnError(c)

TunnelFairness == \A c \in Processes : WF_tunnelVars(Timeout(c))

-----------------------------------------------------------------------------
(* Properties. *)

\* A cloudflared process that runs and was not told to end is the current one, which a stop or the
\* shutdown of the broker ends, unless its start met another one's process: a start while one
\* waits, or while a process that was told to end has not yet done so (cloudflared.ts:37,91), or
\* while a process of such a start still runs.
NoStrayTunnel ==
  \A c \in mine : proc[c] = "running" /\ c \notin told => c = child \/ c \in crossed

\* A start whose process meets no other one's is answered: by the line, the exit, the spawn error
\* or the time limit, also when a stop comes in between.
LoneStartIsAnswered ==
  \A c \in Processes : (call[c] = "pending" /\ c \notin crossed) ~> (call[c] # "pending" \/ c \in crossed)
=============================================================================
