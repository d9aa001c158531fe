------------------------ MODULE EndpointRepairProofs ------------------------
(***************************************************************************)
(* Proofs about Tunnel and EndpointRepair, for any numbers of processes,   *)
(* brokers and commands.                                                   *)
(*                                                                         *)
(* The invariant has two halves.  Tunneling is about the provider alone: a *)
(* process whose start met no other one's is the only one that runs, and a *)
(* known address is that of a running process.  Earning is about what a    *)
(* command at each program counter has a right to believe.                 *)
(***************************************************************************)
EXTENDS EndpointRepair, TLAPS

\* Processes the provider hears of are numbered in order.
Numbered == mine \subseteq 1..spawned

\* A process that crossed no other one runs alone; until it is told to end it
\* is the current one, and its start waits or an address is known.
Alone ==
  \A c \in mine \ crossed : proc[c] = "running" =>
    /\ \A o \in mine \ {c} : proc[o] # "running"
    /\ c \notin told => c = child /\ (call[c] = "pending" \/ url # None)

\* A known address is that of a process that runs.
UrlIsServed == url # None => url \in mine /\ proc[url] = "running" /\ announced[url] # None

Tunneling == TunnelTypeOK /\ Numbered /\ Alone /\ UrlIsServed

\* What a command does to the tunnel, or the environment.
ShutDownOther ==
  /\ broker' = "down"
  /\ UNCHANGED <<gen, kind, child, url, published, spawned, proc, mine, announced, told, timers, call, crossed>>
TunnelStep ==
  \/ ProcessEvent \/ Crash \/ Close \/ Stop \/ StartUp \/ StartSpawn
  \/ \E k \in {"quick", "named"} : StartBroker(k)
  \/ ShutDownOther \/ UNCHANGED tunnelVars

\* The account has the tunnel and a host name, and what may stand as confirmed.
Routed == account \in {"routed", "taken"}
Believed == confirmed \union inherited \union {None}

\* What a command that shows or saves an address has seen of it, and what the
\* one it saves beside it, the choice it stores and the address it confirms
\* rest on.
Saving == {"observe", "save", "pair", "healthy"}
EarnedBy(a) ==
  /\ pc[a] \in Saving => addr[a] # None /\ (how[a] # "cached" => addr[a] \in seen[a])
  /\ pc[a] = "probe" => addr[a] # None /\ addr[a] \in seen[a]
  /\ pc[a] = "wait" => /\ waits[a] \in Processes
                       /\ call[waits[a]] = "resolved" => announced[waits[a]] \in seen[a]
  /\ pc[a] = "confirm" => addr[a] \in confirmed
  /\ pc[a] = "store" => Routed
  /\ prev[a] \in Believed

Earning ==
  /\ stored = "named" => Routed
  /\ endpoint.confirmed \in Believed
  /\ \A a \in Admins : EarnedBy(a)

Repairing == Tunneling /\ RepairTypeOK /\ Earning

\* The types of the commands and of their files.
CommandTypes ==
  /\ stored \in {"unset", "quick", "named"} /\ account \in {"none", "created", "taken", "routed"}
  /\ endpoint \in [mcp : Addresses, confirmed : Addresses] /\ begun \in 0..MaxCommands
  /\ pc \in [Admins -> {"idle", "ensure", "create", "route", "store", "shutdown", "replace",
                        "info", "probe", "unhook", "choose", "ask", "request", "wait", "observe",
                        "save", "pair", "confirm", "healthy", "ended"}]
  /\ op \in [Admins -> Operations] /\ rt \in [Admins -> [gen : 0..MaxBrokers, url : Addresses]]
  /\ addr \in [Admins -> Addresses] /\ how \in [Admins -> {"none", "up", "cached", "started"}]
  /\ prev \in [Admins -> Addresses] /\ waits \in [Admins -> 0..MaxSpawns]
  /\ shown \subseteq PublicURLs /\ confirmed \subseteq PublicURLs

\* A step of command a is one of no other command.
Local(a) == \A b \in Admins \ {a} : /\ pc'[b] = pc[b] /\ addr'[b] = addr[b] /\ how'[b] = how[b]
                                    /\ waits'[b] = waits[b] /\ prev'[b] = prev[b]

\* What a step may do to the files and the account.
FilesKept ==
  /\ confirmed \subseteq confirmed' /\ (Routed => Routed')
  /\ stored' = "named" => Routed'
  /\ endpoint'.confirmed \in confirmed' \union inherited \union {None}
FilesUntouched == UNCHANGED <<stored, account, endpoint, confirmed>>

\* The places at which a command has no claim to make.
Plain == {"idle", "ensure", "create", "route", "shutdown", "replace", "info", "unhook",
          "choose", "ask", "request", "ended"}
USE DEF Routed, Believed
-----------------------------------------------------------------------------
(* The tunnel.                                                             *)

\* The arithmetic of addresses.
LEMMA AddressFacts ==
  /\ MaxSpawns \in Nat /\ MaxBrokers \in Nat /\ None = 0 /\ None \in Addresses
  /\ \A c \in Processes : c \in Addresses /\ c # None /\ c \in 0..MaxSpawns /\ c \in Nat
  /\ Stable \in Addresses /\ Stable # None
  /\ \A c \in Processes : Address(c) \in Addresses /\ Address(c) # None
  /\ Addresses \ {None} = PublicURLs
BY TunnelBounds DEF None, Addresses, Processes, Stable, Address, PublicURLs

\* A promise is settled once.
LEMMA SettleEffect ==
  ASSUME TunnelTypeOK, NEW c \in Processes, NEW how_ \in {"resolved", "rejected"}, Settle(c, how_)
  PROVE  /\ call' \in [Processes -> {"none", "pending", "resolved", "rejected"}]
         /\ \A o \in Processes : o # c => call'[o] = call[o]
         /\ call'[c] = IF call[c] = "pending" THEN how_ ELSE call[c]
BY DEF Settle, TunnelTypeOK

\* The numbers of a new process.
LEMMA SpawnEffect ==
  ASSUME TunnelTypeOK, StartSpawn
  PROVE  /\ spawned' \in Processes /\ spawned' = spawned + 1 /\ spawned' \notin 1..spawned
         /\ 1..spawned' = (1..spawned) \union {spawned'}
         /\ child' = spawned' /\ url' = None /\ UNCHANGED <<broker, gen, kind, published, announced, told>>
         /\ proc' = [proc EXCEPT ![spawned'] = "running"] /\ call' = [call EXCEPT ![spawned'] = "pending"]
         /\ mine' = mine \union {spawned'} /\ timers' = timers \union {spawned'}
         /\ Unsettled \subseteq mine /\ crossed \subseteq crossed'
         /\ crossed' = IF Unsettled = {} THEN crossed ELSE crossed \union Unsettled \union {spawned'}
BY TunnelBounds DEF TunnelTypeOK, StartSpawn, Spawn, Processes, Unsettled

\* Events of the processes keep the types.
LEMMA EventTypes == ASSUME TunnelTypeOK, ProcessEvent PROVE TunnelTypeOK'
<1> USE AddressFacts DEF TunnelTypeOK
<1>1. PICK c \in Processes : Line(c) \/ Timeout(c) \/ Exit(c) \/ SpawnError(c)
  BY DEF ProcessEvent
<1>2. CASE Line(c)
  <2>1. call' \in [Processes -> {"none", "pending", "resolved", "rejected"}] /\ timers' \subseteq mine
    BY <1>2, SettleEffect DEF Line
  <2>2. announced' \in [Processes -> Addresses] /\ url' \in 0..MaxSpawns /\ published' \in Addresses
    BY <1>2 DEF Line
  <2>3. UNCHANGED <<broker, gen, kind, child, spawned, proc, mine, told, crossed>>
    BY <1>2 DEF Line
  <2> QED
    BY <2>1, <2>2, <2>3
<1>3. CASE Timeout(c)
  <2>1. call' \in [Processes -> {"none", "pending", "resolved", "rejected"}]
    BY <1>3, SettleEffect DEF Timeout
  <2>2. timers' \subseteq mine /\ told' \subseteq Processes
    BY <1>3 DEF Timeout
  <2>3. UNCHANGED <<broker, gen, kind, child, url, published, spawned, proc, mine, announced, crossed>>
    BY <1>3 DEF Timeout
  <2> QED
    BY <2>1, <2>2, <2>3
<1>4. CASE Exit(c)
  <2>1. call' \in [Processes -> {"none", "pending", "resolved", "rejected"}]
    BY <1>4, SettleEffect DEF Exit
  <2>2. proc' \in [Processes -> {"none", "running", "exited"}] /\ timers' \subseteq mine
    BY <1>4 DEF Exit
  <2>3. child' \in 0..MaxSpawns /\ url' \in 0..MaxSpawns
    BY <1>4 DEF Exit
  <2>4. UNCHANGED <<broker, gen, kind, published, spawned, mine, announced, told, crossed>>
    BY <1>4 DEF Exit
  <2> QED
    BY <2>1, <2>2, <2>3, <2>4
<1>5. CASE SpawnError(c)
  <2>1. call' \in [Processes -> {"none", "pending", "resolved", "rejected"}]
    BY <1>5, SettleEffect DEF SpawnError
  <2>2. proc' \in [Processes -> {"none", "running", "exited"}] /\ timers' \subseteq mine
    BY <1>5 DEF SpawnError
  <2>3. child' \in 0..MaxSpawns /\ url' \in 0..MaxSpawns
    BY <1>5 DEF SpawnError, UrlAfterError
  <2>4. UNCHANGED <<broker, gen, kind, published, spawned, mine, announced, told, crossed>>
    BY <1>5 DEF SpawnError
  <2> QED
    BY <2>1, <2>2, <2>3, <2>4
<1> QED
  BY <1>1, <1>2, <1>3, <1>4, <1>5

\* So do the routes and the life of the broker.
LEMMA TunnelTypes == ASSUME TunnelTypeOK, TunnelStep PROVE TunnelTypeOK'
<1> USE AddressFacts DEF TunnelTypeOK
<1>1. CASE StartUp
  <2>1. published' \in Addresses
    BY <1>1 DEF StartUp, Running, Processes
  <2> QED
    BY <1>1, <2>1 DEF StartUp
<1>2. CASE StartSpawn
  BY <1>2, SpawnEffect
<1>3. CASE Stop
  BY <1>3 DEF Stop, StopTunnel, Processes
<1>4. CASE Close
  BY <1>4 DEF Close, StopTunnel, Forget, Processes
<1>5. CASE Crash
  BY <1>5 DEF Crash, Forget
<1>6. ASSUME NEW k \in {"quick", "named"}, StartBroker(k) PROVE TunnelTypeOK'
  BY <1>6 DEF StartBroker
<1>7. CASE ShutDownOther \/ UNCHANGED tunnelVars
  BY <1>7 DEF ShutDownOther, tunnelVars
<1> QED
  BY <1>1, <1>2, <1>3, <1>4, <1>5, <1>6, <1>7, EventTypes DEF TunnelStep

\* The history of addresses is one of public addresses.
LEMMA ServedTypes ==
  /\ TunnelTypeOK => Served \subseteq PublicURLs
  /\ TunnelTypeOK' => Served' \subseteq PublicURLs
<1> USE AddressFacts DEF Served, TunnelTypeOK
<1>1. TunnelTypeOK => Served \subseteq PublicURLs
  OBVIOUS
<1>2. TunnelTypeOK' => Served' \subseteq PublicURLs
  OBVIOUS
<1> QED
  BY <1>1, <1>2

\* An event of a process keeps the one that runs alone where it is: another
\* one that ran would have crossed it.
LEMMA EventTunneling == ASSUME Tunneling, ProcessEvent PROVE Tunneling'
<1> USE DEF Tunneling
<1>1. TunnelTypeOK'
  BY EventTypes
<1>2. PICK c \in Processes : Line(c) \/ Timeout(c) \/ Exit(c) \/ SpawnError(c)
  BY DEF ProcessEvent
<1>3. UNCHANGED <<mine, crossed, spawned>> /\ Numbered'
  BY <1>2 DEF Line, Timeout, Exit, SpawnError, Numbered
<1>4. CASE Line(c)
  <2>1. /\ UNCHANGED <<proc, told, child>> /\ c \in mine /\ proc[c] = "running"
        /\ announced' = [announced EXCEPT ![c] = Address(c)]
        /\ IF url = None THEN url' = c /\ Settle(c, "resolved") ELSE UNCHANGED <<url, call>>
    BY <1>4 DEF Line
  <2>2. UrlIsServed'
    BY <2>1, <1>3, AddressFacts DEF UrlIsServed, TunnelTypeOK
  <2>3. Alone'
    BY <2>1, <1>3, AddressFacts, SettleEffect DEF Alone
  <2> QED
    BY <1>1, <1>3, <2>2, <2>3
<1>5. CASE Timeout(c)
  <2>1. /\ UNCHANGED <<proc, url, child, announced>>
        /\ IF url = None THEN told' = told \union {c} /\ Settle(c, "rejected") ELSE UNCHANGED <<told, call>>
    BY <1>5 DEF Timeout
  <2>2. UrlIsServed'
    BY <2>1, <1>3 DEF UrlIsServed
  <2>3. Alone'
    BY <2>1, <1>3, SettleEffect DEF Alone, TunnelTypeOK
  <2> QED
    BY <1>1, <1>3, <2>2, <2>3
<1>6. CASE Exit(c)
  <2>1. /\ proc[c] = "running" /\ proc' = [proc EXCEPT ![c] = "exited"] /\ UNCHANGED <<announced, told>>
        /\ c \in mine => url' = None
        /\ c \notin mine => UNCHANGED <<child, url, call>>
    BY <1>6 DEF Exit
  <2>2. UrlIsServed'
    BY <2>1, <1>3 DEF UrlIsServed, TunnelTypeOK
  <2>3. Alone'
    BY <2>1, <1>3 DEF Alone, TunnelTypeOK
  <2> QED
    BY <1>1, <1>3, <2>2, <2>3
<1>7. CASE SpawnError(c)
  <2>1. /\ c \in mine /\ proc[c] = "running" /\ proc' = [proc EXCEPT ![c] = "exited"]
        /\ announced[c] = None /\ url' \in {url, None} /\ UNCHANGED <<announced, told>>
    BY <1>7 DEF SpawnError, UrlAfterError
  <2>2. UrlIsServed'
    BY <2>1, <1>3 DEF UrlIsServed, TunnelTypeOK
  <2>3. Alone'
    BY <2>1, <1>3 DEF Alone, TunnelTypeOK
  <2> QED
    BY <1>1, <1>3, <2>2, <2>3
<1> QED
  BY <1>2, <1>4, <1>5, <1>6, <1>7

\* So does everything else that happens to the tunnel.
LEMMA TunnelKeeps == ASSUME Tunneling, TunnelStep PROVE Tunneling'
<1> USE DEF Tunneling
<1>1. TunnelTypeOK'
  BY TunnelTypes
<1>2. CASE StartSpawn
  <2> DEFINE c == spawned'
  <2>1. /\ c \in Processes /\ c \notin 1..spawned /\ 1..c = (1..spawned) \union {c}
        /\ child' = c /\ url' = None /\ UNCHANGED <<announced, told>>
        /\ proc' = [proc EXCEPT ![c] = "running"] /\ call' = [call EXCEPT ![c] = "pending"]
        /\ mine' = mine \union {c} /\ crossed \subseteq crossed' /\ ~Running
        /\ crossed' = IF Unsettled = {} THEN crossed ELSE crossed \union Unsettled \union {c}
    BY <1>2, SpawnEffect DEF StartSpawn
  <2> HIDE DEF c
  <2>2. Numbered' /\ UrlIsServed' /\ c \notin mine
    <3>1. Numbered' /\ c \notin mine
      BY <2>1 DEF Numbered, c
    <3>2. UrlIsServed'
      BY <2>1 DEF UrlIsServed
    <3> QED
      BY <3>1, <3>2
  <2>3. ASSUME NEW o \in mine, proc[o] = "running", o \notin crossed PROVE o \in Unsettled
    <3>1. CASE o \in told \/ call[o] = "pending"
      BY <2>3, <3>1 DEF Unsettled
    <3>2. CASE o \notin told /\ call[o] # "pending"
      BY <2>1, <2>3, <3>2, AddressFacts DEF Alone, Running, TunnelTypeOK
    <3> QED
      BY <3>1, <3>2
  <2>4. ASSUME NEW o \in mine, proc[o] = "running", o \in crossed PROVE o \in Unsettled
    BY <2>4 DEF Unsettled
  <2>5. Alone'
    <3>1. CASE Unsettled = {}
      <4>1. \A o \in mine : proc[o] # "running"
        BY <2>3, <2>4, <3>1
      <4>2. \A o \in mine' \ {c} : proc'[o] # "running"
        BY <2>1, <4>1 DEF TunnelTypeOK
      <4>3. call'[c] = "pending"
        BY <2>1 DEF TunnelTypeOK
      <4> QED
        BY <2>1, <4>2, <4>3 DEF Alone
    <3>2. CASE Unsettled # {}
      <4>1. \A o \in mine \ crossed' : proc[o] # "running" /\ proc'[o] = proc[o]
        BY <2>1, <2>2, <2>3, <3>2 DEF TunnelTypeOK
      <4>2. \A o \in mine' \ crossed' : proc'[o] # "running"
        BY <2>1, <3>2, <4>1
      <4> QED
        BY <4>2 DEF Alone
    <3> QED
      BY <3>1, <3>2
  <2> QED
    BY <1>1, <2>2, <2>5
<1>3. CASE Stop
  <2>1. /\ told' = IF child = None THEN told ELSE told \union {child}
        /\ url' = None /\ UNCHANGED <<mine, spawned, proc, crossed, call>>
    BY <1>3 DEF Stop, StopTunnel
  <2>2. Alone'
    BY <2>1, AddressFacts DEF Alone, TunnelTypeOK
  <2> QED
    BY <1>1, <2>1, <2>2 DEF Numbered, UrlIsServed
<1>4. CASE Close \/ Crash
  <2>1. mine' = {} /\ url' = None
    BY <1>4 DEF Close, Crash, Forget, StopTunnel
  <2> QED
    BY <1>1, <2>1 DEF Numbered, Alone, UrlIsServed
<1>5. CASE StartUp \/ ShutDownOther \/ UNCHANGED tunnelVars \/ \E k \in {"quick", "named"} : StartBroker(k)
  <2>1. UNCHANGED <<child, url, spawned, proc, mine, announced, told, call, crossed>>
    BY <1>5 DEF StartUp, ShutDownOther, tunnelVars, StartBroker
  <2> QED
    BY <1>1, <2>1 DEF Numbered, Alone, UrlIsServed
<1> QED
  BY <1>2, <1>3, <1>4, <1>5, EventTunneling DEF TunnelStep

\* A start is resolved by a line of its process, which runs; an address said
\* again is said by one that runs.
LEMMA Announcing ==
  ASSUME Tunneling, TunnelStep, NEW c \in Processes, call'[c] = "resolved"
  PROVE  (call[c] = "resolved" /\ announced'[c] = announced[c]) \/ announced'[c] \in Served'
<1> USE DEF Tunneling
<1>1. CASE ProcessEvent
  <2>1. PICK p \in Processes : Line(p) \/ Timeout(p) \/ Exit(p) \/ SpawnError(p)
    BY <1>1 DEF ProcessEvent
  <2>2. CASE Line(p) /\ p = c
    <3>1. announced'[c] = Address(c) /\ proc'[c] = "running"
      BY <2>2 DEF Line, TunnelTypeOK
    <3> QED
      BY <3>1, AddressFacts DEF Served
  <2>3. CASE Line(p) /\ p # c
    <3>1. announced'[c] = announced[c]
      BY <2>3 DEF Line, TunnelTypeOK
    <3>2. call'[c] = call[c]
      BY <2>3, SettleEffect DEF Line
    <3> QED
      BY <3>1, <3>2
  <2>4. CASE Timeout(p) \/ Exit(p) \/ SpawnError(p)
    <3>1. announced' = announced /\ (call' = call \/ Settle(p, "rejected"))
      BY <2>4 DEF Timeout, Exit, SpawnError
    <3>2. call[c] = "resolved"
      BY <3>1, SettleEffect DEF TunnelTypeOK
    <3> QED
      BY <3>1, <3>2
  <2> QED
    BY <2>1, <2>2, <2>3, <2>4
<1>2. CASE StartSpawn
  BY <1>2, SpawnEffect DEF TunnelTypeOK
<1>3. CASE Close \/ Crash
  BY <1>3 DEF Close, Crash, Forget, TunnelTypeOK
<1>4. CASE Stop \/ StartUp \/ ShutDownOther \/ UNCHANGED tunnelVars \/ \E k \in {"quick", "named"} : StartBroker(k)
  <2>1. UNCHANGED <<call, announced>>
    BY <1>4 DEF Stop, StartUp, ShutDownOther, tunnelVars, StartBroker
  <2> QED
    BY <2>1
<1> QED
  BY <1>1, <1>2, <1>3, <1>4 DEF TunnelStep
-----------------------------------------------------------------------------
(* The commands.                                                           *)

\* A command that needs a broker leaves the one that answers, or starts one.
LEMMA BrokerUpSteps == BrokerUp => TunnelStep
BY DEF BrokerUp, KindOfStored, TunnelStep

\* Every step of the system is one of the tunnel, and keeps the history.
LEMMA StepsAreWatched == ASSUME RepairNext PROVE TunnelStep /\ Watch
<1>1. CASE Event
  BY <1>1 DEF Event, TunnelStep
<1>2. ASSUME NEW a \in Admins, Command(a) PROVE TunnelStep /\ Watch
  <2>1. ASSUME NEW o \in Operations, Begin(a, o) PROVE TunnelStep /\ Watch
    BY <2>1 DEF Begin, TunnelStep
  <2>2. CASE EnsureBroker(a) \/ Replace(a)
    BY <2>2, BrokerUpSteps DEF EnsureBroker, Replace, GetBroker
  <2>3. CASE ShutDown(a)
    BY <2>3 DEF ShutDown, TunnelStep, ShutDownOther
  <2>4. CASE CreateTunnel(a) \/ RouteDns(a) \/ StoreNamed(a)
    BY <2>4 DEF CreateTunnel, RouteDns, StoreNamed, Provisioning, TunnelStep
  <2>5. ASSUME NEW ok \in BOOLEAN, Probe(a, ok) \/ Choose(a, ok) PROVE TunnelStep /\ Watch
    BY <2>5 DEF Probe, Choose, Quiet, TunnelStep
  <2>6. CASE BrokerFails(a) \/ Info(a) \/ Ask(a) \/ Await(a) \/ Observe(a)
    BY <2>6 DEF BrokerFails, Info, Ask, Await, Observe, Quiet, TunnelStep
  <2>7. CASE Unhook(a)
    BY <2>7 DEF Unhook, TunnelStep
  <2>8. CASE RequestTunnel(a)
    BY <2>8 DEF RequestTunnel, TunnelStep
  <2>9. CASE Save(a) \/ Confirm(a) \/ Finish(a)
    BY <2>9 DEF Save, Confirm, Finish, TunnelStep
  <2>10. CASE Pair(a)
    BY <2>10, BrokerUpSteps DEF Pair, GetBroker, TunnelStep
  <2>11. ASSUME NEW u \in shown, Compare(a, u) PROVE TunnelStep /\ Watch
    BY <2>11 DEF Compare, TunnelStep
  <2> QED
    BY <1>2, <2>1, <2>2, <2>3, <2>4, <2>5, <2>6, <2>7, <2>8, <2>9, <2>10, <2>11 DEF Command
<1> QED
  BY <1>1, <1>2 DEF RepairNext

\* What a command has seen, it has seen.
LEMMA Watching ==
  ASSUME Repairing, TunnelStep, Watch
  PROVE  /\ seen' \in [Admins -> SUBSET PublicURLs]
         /\ UNCHANGED inherited
         /\ \A b \in Admins : pc'[b] # "idle" => /\ seen[b] \subseteq seen'[b]
                                               /\ Served \subseteq seen'[b] /\ Served' \subseteq seen'[b]
<1>1. Served \subseteq PublicURLs /\ Served' \subseteq PublicURLs
  BY TunnelTypes, ServedTypes DEF Repairing, Tunneling
<1>2. seen \in [Admins -> SUBSET PublicURLs]
  BY DEF Repairing, RepairTypeOK
<1>3. seen' = [b \in Admins |-> IF pc'[b] = "idle" THEN {} ELSE seen[b] \union Served \union Served']
  BY DEF Watch
<1>4. ASSUME NEW b \in Admins PROVE seen'[b] \in SUBSET PublicURLs
  BY <1>1, <1>2, <1>3
<1>5. UNCHANGED inherited
  BY DEF Watch
<1> QED
  BY <1>2, <1>3, <1>4, <1>5

\* A command believes rightly what it believed before a step of another one.
LEMMA OthersKeep ==
  ASSUME Repairing, TunnelStep, Watch, NEW b \in Admins,
         pc'[b] = pc[b], addr'[b] = addr[b], how'[b] = how[b], waits'[b] = waits[b], prev'[b] = prev[b],
         confirmed \subseteq confirmed', Routed => Routed'
  PROVE  EarnedBy(b)'
<1>1. EarnedBy(b)
  BY DEF Repairing, Earning
<1>2. ASSUME pc[b] # "idle" PROVE seen[b] \subseteq seen'[b] /\ Served' \subseteq seen'[b]
  BY <1>2, Watching
<1>3. ASSUME pc[b] = "wait", call'[waits[b]] = "resolved" PROVE announced'[waits[b]] \in seen'[b]
  <2>1. waits[b] \in Processes
    BY <1>1, <1>3 DEF EarnedBy
  <2>2. \/ call[waits[b]] = "resolved" /\ announced'[waits[b]] = announced[waits[b]]
        \/ announced'[waits[b]] \in Served'
    BY <1>3, <2>1, Announcing DEF Repairing
  <2> QED
    BY <1>1, <1>2, <1>3, <2>2 DEF EarnedBy
<1>4. /\ pc[b] \in Saving => addr[b] # None /\ (how[b] # "cached" => addr[b] \in seen'[b])
      /\ pc[b] = "probe" => addr[b] # None /\ addr[b] \in seen'[b]
  BY <1>1, <1>2 DEF EarnedBy, Saving
<1>5. UNCHANGED inherited
  BY Watching
<1> QED
  BY <1>1, <1>3, <1>4, <1>5 DEF EarnedBy, Saving

\* The events of the tunnel leave the commands and their files alone.
LEMMA EventKeeps == ASSUME Repairing, Event PROVE Repairing'
<1>1. TunnelStep /\ Watch /\ UNCHANGED <<fileVars, adminVars, shown, confirmed, begun>>
  BY DEF Event, TunnelStep
<1>2. Tunneling'
  BY <1>1, TunnelKeeps DEF Repairing
<1>3. RepairTypeOK'
  BY <1>1, <1>2, Watching DEF Repairing, RepairTypeOK, Tunneling, adminVars, fileVars
<1>4. ASSUME NEW b \in Admins PROVE EarnedBy(b)'
  BY <1>1, OthersKeep DEF adminVars, fileVars
<1>5. UNCHANGED inherited
  BY <1>1, Watching
<1> QED
  BY <1>1, <1>2, <1>3, <1>4, <1>5 DEF Repairing, Earning, adminVars, fileVars

\* A step of one command: its own claims, and what it may do to the files.
LEMMA CommandKeeps ==
  ASSUME Repairing, TunnelStep, Watch, NEW a \in Admins,
         CommandTypes', Local(a), FilesKept, EarnedBy(a)'
  PROVE  Repairing'
<1>0. UNCHANGED inherited
  BY Watching
<1>1. Tunneling'
  BY TunnelKeeps DEF Repairing
<1>2. RepairTypeOK'
  BY <1>0, <1>1, Watching DEF Repairing, RepairTypeOK, CommandTypes, Tunneling
<1>3. ASSUME NEW b \in Admins, b # a PROVE EarnedBy(b)'
  BY <1>3, OthersKeep DEF Local, FilesKept
<1> QED
  BY <1>0, <1>1, <1>2, <1>3 DEF Repairing, Earning, FilesKept

\* Files that no step writes stay earned.
LEMMA Untouched == ASSUME Repairing, FilesUntouched PROVE FilesKept
BY DEF Repairing, Earning, FilesUntouched, FilesKept

\* At a plain place only the confirmed address that was read counts.
LEMMA AtPlain ==
  ASSUME Repairing, NEW a \in Admins, pc'[a] \in Plain, prev'[a] = prev[a], confirmed \subseteq confirmed',
         UNCHANGED inherited
  PROVE  EarnedBy(a)'
BY DEF Repairing, Earning, EarnedBy, Plain, Saving

\* What is served is a public address.
LEMMA ServedIsPublic == ASSUME Repairing PROVE None \notin PublicURLs /\ Served \subseteq PublicURLs
                                               /\ PublicURLs = Addresses \ {None}
BY ServedTypes, AddressFacts DEF Repairing, RepairTypeOK, PublicURLs

\* The beginning of a command, the steps that get a broker and those of the
\* set-up of a named tunnel: the choice is stored behind the route step.
LEMMA PlainSteps ==
  ASSUME Repairing, NEW a \in Admins,
         \/ \E o \in Operations : Begin(a, o)
         \/ EnsureBroker(a) \/ ShutDown(a) \/ Replace(a) \/ BrokerFails(a)
         \/ CreateTunnel(a) \/ RouteDns(a) \/ StoreNamed(a)
         \/ Info(a) \/ Unhook(a) \/ \E default \in BOOLEAN : Choose(a, default),
         TunnelStep, Watch
  PROVE  CommandTypes' /\ Local(a) /\ FilesKept /\ EarnedBy(a)'
<1>0. CommandTypes /\ TunnelTypeOK /\ TunnelTypeOK' /\ inherited' = inherited
  BY TunnelTypes, Watching DEF Repairing, RepairTypeOK, CommandTypes
<1>1. ASSUME NEW o \in Operations, Begin(a, o) PROVE CommandTypes' /\ Local(a) /\ FilesKept /\ EarnedBy(a)'
  <2>1. /\ begun' \in 0..MaxCommands /\ pc' = [pc EXCEPT ![a] = pc'[a]] /\ pc'[a] \in Plain
        /\ op' = [op EXCEPT ![a] = o] /\ rt' = [rt EXCEPT ![a] = RuntimeFile]
        /\ how' = [how EXCEPT ![a] = "none"] /\ addr' = [addr EXCEPT ![a] = None]
        /\ UNCHANGED <<prev, waits, stored, account, endpoint, shown, confirmed>>
    BY <1>0, <1>1, RepairBounds DEF Begin, Goto, Plain, fileVars, CommandTypes
  <2>2. RuntimeFile \in [gen : 0..MaxBrokers, url : Addresses]
    BY <1>0, AddressFacts DEF RuntimeFile, NoRuntime, TunnelTypeOK
  <2>3. CommandTypes'
    BY <1>0, <2>1, <2>2, AddressFacts DEF CommandTypes, Plain
  <2> QED
    BY <1>0, <2>1, <2>3, Untouched, AtPlain DEF Local, FilesUntouched, CommandTypes
<1>2. ASSUME EnsureBroker(a) \/ Replace(a) PROVE CommandTypes' /\ Local(a) /\ FilesKept /\ EarnedBy(a)'
  <2>1. /\ pc' = [pc EXCEPT ![a] = pc'[a]] /\ pc'[a] \in Plain
        /\ rt' = [rt EXCEPT ![a] = [gen |-> gen', url |-> published']]
        /\ op' = [op EXCEPT ![a] = op'[a]] /\ op'[a] \in {op[a], "named", "fix"}
        /\ UNCHANGED <<addr, how, prev, waits, stored, account, endpoint, shown, confirmed, begun>>
    BY <1>0, <1>2 DEF EnsureBroker, Replace, GetBroker, Goto, Plain, fileVars, CommandTypes
  <2>2. [gen |-> gen', url |-> published'] \in [gen : 0..MaxBrokers, url : Addresses]
    BY <1>0 DEF TunnelTypeOK
  <2>3. rt' \in [Admins -> [gen : 0..MaxBrokers, url : Addresses]] /\ op' \in [Admins -> Operations]
    BY <1>0, <2>1, <2>2 DEF CommandTypes, Operations
  <2>4. CommandTypes'
    BY <1>0, <2>1, <2>3 DEF CommandTypes, Plain
  <2> QED
    BY <1>0, <2>1, <2>4, Untouched, AtPlain DEF Local, FilesUntouched, CommandTypes
<1>3. ASSUME ShutDown(a) \/ BrokerFails(a) \/ Unhook(a) PROVE CommandTypes' /\ Local(a) /\ FilesKept /\ EarnedBy(a)'
  <2>1. /\ pc' = [pc EXCEPT ![a] = pc'[a]] /\ pc'[a] \in Plain
        /\ UNCHANGED <<op, rt, addr, how, prev, waits, stored, account, endpoint, shown, confirmed, begun>>
    BY <1>0, <1>3 DEF ShutDown, BrokerFails, Unhook, Quiet, Goto, Plain, fileVars, CommandTypes
  <2>2. CommandTypes'
    BY <1>0, <2>1 DEF CommandTypes, Plain
  <2> QED
    BY <1>0, <2>1, <2>2, Untouched, AtPlain DEF Local, FilesUntouched, CommandTypes
<1>4. ASSUME CreateTunnel(a) \/ RouteDns(a) \/ StoreNamed(a)
      PROVE  CommandTypes' /\ Local(a) /\ FilesKept /\ EarnedBy(a)'
  <2>1. /\ pc' = [pc EXCEPT ![a] = pc'[a]] /\ pc'[a] \in Plain \union {"store"}
        /\ UNCHANGED <<op, rt, addr, how, prev, waits, endpoint, shown, confirmed, begun>>
    BY <1>0, <1>4 DEF CreateTunnel, RouteDns, StoreNamed, Provisioning, Fallback, Goto, Plain, CommandTypes
  <2>2. /\ account' \in {account, "created", "taken", "routed"} /\ (Routed => Routed')
        /\ stored' \in {stored, "quick", "named"}
        /\ pc'[a] = "store" => Routed'
        /\ stored' = "named" => stored = "named" \/ pc[a] = "store"
    BY <1>0, <1>4 DEF CreateTunnel, RouteDns, StoreNamed, Provisioning, Fallback, Goto, CommandTypes
  <2>3. CommandTypes'
    BY <1>0, <2>1, <2>2 DEF CommandTypes, Plain
  <2>4. FilesKept
    BY <2>1, <2>2 DEF FilesKept, Repairing, Earning, EarnedBy
  <2>5. EarnedBy(a)'
    BY <1>0, <2>1, <2>2 DEF EarnedBy, Repairing, Earning, Plain, Saving
  <2> QED
    BY <1>0, <2>1, <2>3, <2>4, <2>5 DEF Local, CommandTypes
<1>5. ASSUME Info(a) PROVE CommandTypes' /\ Local(a) /\ FilesKept /\ EarnedBy(a)'
  <2>5. Running => announced[url] \in Addresses
    BY <1>0, AddressFacts DEF Running, TunnelTypeOK, Processes
  <2>1. /\ pc' = [pc EXCEPT ![a] = pc'[a]] /\ pc'[a] \in {"ended", "probe", "choose"}
        /\ addr' = [addr EXCEPT ![a] = addr'[a]] /\ addr'[a] \in Addresses
        /\ UNCHANGED <<op, rt, how, prev, waits, stored, account, endpoint, shown, confirmed, begun>>
    BY <1>0, <1>5, <2>5, AddressFacts DEF Info, Quiet, Goto, fileVars, CommandTypes
  <2>2. CommandTypes'
    <3>1. addr' \in [Admins -> Addresses]
      BY <1>0, <2>1 DEF CommandTypes
    <3> QED
      BY <1>0, <2>1, <3>1 DEF CommandTypes
  <2>3. ASSUME pc'[a] = "probe" PROVE addr'[a] # None /\ addr'[a] \in seen'[a]
    <3>1. url # None /\ addr'[a] = announced[url]
      BY <1>0, <1>5, <2>3 DEF Info, Goto, Running, CommandTypes
    <3>2. announced[url] # None /\ announced[url] \in Served
      BY <3>1 DEF Repairing, Tunneling, UrlIsServed, TunnelTypeOK, Served
    <3> QED
      BY <2>3, <3>1, <3>2, Watching
  <2>4. EarnedBy(a)'
    BY <1>0, <2>1, <2>3 DEF EarnedBy, Saving, Repairing, Earning
  <2> QED
    BY <1>0, <2>1, <2>2, <2>4, Untouched DEF Local, FilesUntouched, CommandTypes
<1>6. ASSUME NEW default \in BOOLEAN, Choose(a, default)
      PROVE  CommandTypes' /\ Local(a) /\ FilesKept /\ EarnedBy(a)'
  <2>1. /\ pc' = [pc EXCEPT ![a] = pc'[a]] /\ pc'[a] \in Plain /\ stored' \in {stored, "quick"}
        /\ UNCHANGED <<op, rt, addr, how, prev, waits, account, endpoint, shown, confirmed, begun>>
    BY <1>0, <1>6 DEF Choose, Goto, Plain, CommandTypes
  <2>2. CommandTypes'
    BY <1>0, <2>1 DEF CommandTypes, Plain
  <2>3. FilesKept
    BY <2>1 DEF FilesKept, Repairing, Earning
  <2> QED
    BY <1>0, <2>1, <2>2, <2>3, AtPlain DEF Local, CommandTypes
<1> QED
  BY <1>1, <1>2, <1>3, <1>4, <1>5, <1>6

\* The steps that come by an address or hand it on: an address that was asked
\* for is served when it is answered, by the probe, the running tunnel or the
\* line that settled the start.
LEMMA AddressSteps ==
  ASSUME Repairing, NEW a \in Admins, TunnelStep, Watch,
         \/ \E ok \in BOOLEAN : Probe(a, ok)
         \/ Ask(a) \/ RequestTunnel(a) \/ Await(a) \/ Observe(a) \/ Pair(a)
  PROVE  CommandTypes' /\ Local(a) /\ FilesKept /\ EarnedBy(a)'
<1>0. /\ CommandTypes /\ TunnelTypeOK /\ TunnelTypeOK' /\ EarnedBy(a)
      /\ endpoint.confirmed \in Believed /\ inherited' = inherited
  BY TunnelTypes, Watching DEF Repairing, RepairTypeOK, CommandTypes, Earning
<1>1. ASSUME NEW ok \in BOOLEAN, Probe(a, ok) PROVE CommandTypes' /\ Local(a) /\ FilesKept /\ EarnedBy(a)'
  <2>1. /\ pc' = [pc EXCEPT ![a] = pc'[a]] /\ pc'[a] \in {"observe", "unhook", "ended"}
        /\ pc[a] = "probe"
        /\ how' = [how EXCEPT ![a] = "up"]
        /\ UNCHANGED <<op, rt, addr, prev, waits, stored, account, endpoint, shown, confirmed, begun>>
    BY <1>0, <1>1 DEF Probe, Quiet, Goto, fileVars, CommandTypes
  <2>2. CommandTypes'
    BY <1>0, <2>1 DEF CommandTypes
  <2>3. pc'[a] = "observe" => addr[a] # None /\ addr[a] \in seen'[a]
    BY <1>0, <2>1, Watching DEF EarnedBy
  <2>4. EarnedBy(a)'
    BY <1>0, <2>1, <2>3 DEF EarnedBy, Saving
  <2> QED
    BY <1>0, <2>1, <2>2, <2>4, Untouched DEF Local, FilesUntouched, CommandTypes
<1>2. ASSUME Ask(a) PROVE CommandTypes' /\ Local(a) /\ FilesKept /\ EarnedBy(a)'
  <2>1. /\ pc' = [pc EXCEPT ![a] = pc'[a]] /\ pc'[a] \in {"request", "observe", "healthy"}
        /\ addr' = [addr EXCEPT ![a] = addr'[a]] /\ addr'[a] \in {addr[a], rt[a].url}
        /\ how' = [how EXCEPT ![a] = how'[a]] /\ how'[a] \in {how[a], "cached"}
        /\ pc'[a] # "request" => addr'[a] # None /\ how'[a] = "cached"
        /\ UNCHANGED <<op, rt, prev, waits, stored, account, endpoint, shown, confirmed, begun>>
    BY <1>0, <1>2 DEF Ask, After, Quiet, Goto, fileVars, CommandTypes
  <2>2. rt[a].url \in Addresses
    BY <1>0 DEF CommandTypes
  <2>3. addr' \in [Admins -> Addresses] /\ how' \in [Admins -> {"none", "up", "cached", "started"}]
    <3>1. addr'[a] \in Addresses /\ how'[a] \in {"none", "up", "cached", "started"}
      BY <1>0, <2>1, <2>2 DEF CommandTypes
    <3>2. addr' \in [Admins -> Addresses]
      BY <1>0, <2>1, <3>1 DEF CommandTypes
    <3>3. how' \in [Admins -> {"none", "up", "cached", "started"}]
      BY <1>0, <2>1, <3>1 DEF CommandTypes
    <3> QED
      BY <3>2, <3>3
  <2>4. CommandTypes'
    <3>1. pc' \in [Admins -> {"idle", "ensure", "create", "route", "store", "shutdown", "replace",
                             "info", "probe", "unhook", "choose", "ask", "request", "wait", "observe",
                             "save", "pair", "confirm", "healthy", "ended"}]
      BY <1>0, <2>1 DEF CommandTypes
    <3> QED
      BY <1>0, <2>1, <2>3, <3>1 DEF CommandTypes
  <2>5. EarnedBy(a)'
    BY <1>0, <2>1 DEF EarnedBy, Saving
  <2> QED
    BY <1>0, <2>1, <2>4, <2>5, Untouched DEF Local, FilesUntouched, CommandTypes
<1>3. ASSUME RequestTunnel(a) PROVE CommandTypes' /\ Local(a) /\ FilesKept /\ EarnedBy(a)'
  <2>1. /\ how' = [how EXCEPT ![a] = "started"] /\ pc' = [pc EXCEPT ![a] = pc'[a]]
        /\ UNCHANGED <<op, rt, prev, stored, account, endpoint, shown, confirmed, begun>>
    BY <1>0, <1>3 DEF RequestTunnel, Goto, fileVars, CommandTypes
  <2>2. \/ pc'[a] = "ended" /\ UNCHANGED <<addr, waits>>
        \/ /\ StartUp /\ addr' = [addr EXCEPT ![a] = announced[url]] /\ pc'[a] \in {"observe", "healthy"}
           /\ UNCHANGED waits
        \/ /\ StartSpawn /\ waits' = [waits EXCEPT ![a] = spawned'] /\ pc'[a] = "wait" /\ UNCHANGED addr
    BY <1>0, <1>3 DEF RequestTunnel, StartUp, After, Goto, CommandTypes
  <2>3. CASE pc'[a] = "ended" /\ UNCHANGED <<addr, waits>>
    <3>1. CommandTypes'
      BY <1>0, <2>1, <2>3 DEF CommandTypes
    <3>2. EarnedBy(a)'
      BY <1>0, <2>1, <2>3 DEF EarnedBy, Saving
    <3> QED
      BY <1>0, <2>1, <2>3, <3>1, <3>2, Untouched DEF Local, FilesUntouched, CommandTypes
  <2>4. CASE /\ StartUp /\ addr' = [addr EXCEPT ![a] = announced[url]] /\ pc'[a] \in {"observe", "healthy"}
             /\ UNCHANGED waits
    <3>1. announced[url] \in Addresses /\ announced[url] # None /\ announced[url] \in Served
      BY <2>4 DEF StartUp, Running, Repairing, Tunneling, UrlIsServed, TunnelTypeOK, Served
    <3>2. announced[url] \in seen'[a]
      BY <2>4, <3>1, Watching
    <3>3. CommandTypes'
      BY <1>0, <2>1, <2>4, <3>1 DEF CommandTypes
    <3>4. EarnedBy(a)'
      BY <1>0, <2>1, <2>4, <3>1, <3>2 DEF EarnedBy, Saving, CommandTypes
    <3> QED
      BY <1>0, <2>1, <2>4, <3>3, <3>4, Untouched DEF Local, FilesUntouched, CommandTypes
  <2>5. CASE /\ StartSpawn /\ waits' = [waits EXCEPT ![a] = spawned'] /\ pc'[a] = "wait" /\ UNCHANGED addr
    <3>1. spawned' \in Processes /\ spawned' \in 0..MaxSpawns /\ call'[spawned'] = "pending"
      BY <1>0, <2>5, SpawnEffect, AddressFacts DEF TunnelTypeOK
    <3>2. CommandTypes'
      BY <1>0, <2>1, <2>5, <3>1 DEF CommandTypes
    <3>3. EarnedBy(a)'
      BY <1>0, <2>1, <2>5, <3>1 DEF EarnedBy, Saving, CommandTypes
    <3> QED
      BY <1>0, <2>1, <2>5, <3>2, <3>3, Untouched DEF Local, FilesUntouched, CommandTypes
  <2> QED
    BY <2>2, <2>3, <2>4, <2>5
<1>4. ASSUME Await(a) PROVE CommandTypes' /\ Local(a) /\ FilesKept /\ EarnedBy(a)'
  <2>1. /\ pc' = [pc EXCEPT ![a] = pc'[a]] /\ pc'[a] \in {"observe", "healthy", "ended"} /\ pc[a] = "wait"
        /\ UNCHANGED <<op, rt, how, prev, waits, stored, account, endpoint, shown, confirmed, begun>>
    BY <1>0, <1>4 DEF Await, After, Quiet, Goto, fileVars, CommandTypes
  <2>2. \/ pc'[a] = "ended" /\ UNCHANGED addr
        \/ call[waits[a]] = "resolved" /\ addr' = [addr EXCEPT ![a] = announced[waits[a]]]
    BY <1>0, <1>4 DEF Await, Goto, CommandTypes
  <2>3. waits[a] \in Processes /\ announced[waits[a]] \in Addresses
    BY <1>0, <2>1 DEF EarnedBy, TunnelTypeOK
  <2>4. CASE pc'[a] = "ended" /\ UNCHANGED addr
    <3>1. CommandTypes'
      BY <1>0, <2>1, <2>4 DEF CommandTypes
    <3>2. EarnedBy(a)'
      BY <1>0, <2>1, <2>4 DEF EarnedBy, Saving
    <3> QED
      BY <1>0, <2>1, <2>4, <3>1, <3>2, Untouched DEF Local, FilesUntouched, CommandTypes
  <2>5. CASE call[waits[a]] = "resolved" /\ addr' = [addr EXCEPT ![a] = announced[waits[a]]]
    <3>1. announced[waits[a]] \in seen[a] /\ seen[a] \subseteq PublicURLs
      BY <1>0, <2>1, <2>5 DEF EarnedBy, Repairing, RepairTypeOK
    <3>2. announced[waits[a]] \in seen'[a] /\ announced[waits[a]] # None
      BY <2>1, <3>1, Watching, ServedIsPublic
    <3>3. CommandTypes'
      BY <1>0, <2>1, <2>3, <2>5 DEF CommandTypes
    <3>4. EarnedBy(a)'
      BY <1>0, <2>1, <2>5, <3>2 DEF EarnedBy, Saving, CommandTypes
    <3> QED
      BY <1>0, <2>1, <2>5, <3>3, <3>4, Untouched DEF Local, FilesUntouched, CommandTypes
  <2> QED
    BY <2>2, <2>4, <2>5
<1>5. ASSUME Observe(a) PROVE CommandTypes' /\ Local(a) /\ FilesKept /\ EarnedBy(a)'
  <2>1. /\ pc' = [pc EXCEPT ![a] = pc'[a]] /\ pc'[a] = "save" /\ pc[a] = "observe"
        /\ prev' = [prev EXCEPT ![a] = endpoint.confirmed]
        /\ UNCHANGED <<op, rt, addr, how, waits, stored, account, endpoint, shown, confirmed, begun>>
    BY <1>0, <1>5 DEF Observe, Quiet, Goto, fileVars, CommandTypes
  <2>2. CommandTypes'
    BY <1>0, <2>1 DEF CommandTypes
  <2>3. seen[a] \subseteq seen'[a]
    BY <2>1, Watching
  <2>4. EarnedBy(a)'
    BY <1>0, <2>1, <2>3 DEF EarnedBy, Saving, CommandTypes
  <2> QED
    BY <1>0, <2>1, <2>2, <2>4, Untouched DEF Local, FilesUntouched, CommandTypes
<1>6. ASSUME Pair(a) PROVE CommandTypes' /\ Local(a) /\ FilesKept /\ EarnedBy(a)'
  <2>7. /\ pc' = [pc EXCEPT ![a] = "healthy"] /\ pc[a] = "pair"
        /\ rt' = rt \/ rt' = [rt EXCEPT ![a] = [gen |-> gen', url |-> published']]
        /\ UNCHANGED <<op, addr, how, prev, waits, stored, account, endpoint, shown, confirmed, begun>>
    BY <1>6 DEF Pair, GetBroker, Goto, fileVars
  <2>1. /\ pc' = [pc EXCEPT ![a] = pc'[a]] /\ pc'[a] = "healthy" /\ pc[a] = "pair"
        /\ rt' = rt \/ rt' = [rt EXCEPT ![a] = [gen |-> gen', url |-> published']]
        /\ UNCHANGED <<op, addr, how, prev, waits, stored, account, endpoint, shown, confirmed, begun>>
    BY <1>0, <2>7 DEF CommandTypes
  <2>2. [gen |-> gen', url |-> published'] \in [gen : 0..MaxBrokers, url : Addresses]
    BY <1>0 DEF TunnelTypeOK
  <2>3. rt' \in [Admins -> [gen : 0..MaxBrokers, url : Addresses]]
    BY <1>0, <2>1, <2>2 DEF CommandTypes
  <2>4. CommandTypes'
    <3>1. CommandTypes => [pc EXCEPT ![a] = "healthy"] \in
            [Admins -> {"idle", "ensure", "create", "route", "store", "shutdown", "replace",
                        "info", "probe", "unhook", "choose", "ask", "request", "wait", "observe",
                        "save", "pair", "confirm", "healthy", "ended"}]
      BY <1>0 DEF CommandTypes
    <3> QED
      BY <1>0, <2>3, <2>7, <3>1 DEF CommandTypes
  <2>5. seen[a] \subseteq seen'[a]
    BY <2>1, Watching
  <2>6. EarnedBy(a)'
    BY <1>0, <2>1, <2>5 DEF EarnedBy, Saving, CommandTypes
  <2> QED
    BY <1>0, <2>1, <2>4, <2>6, Untouched DEF Local, FilesUntouched, CommandTypes
<1> QED
  BY <1>1, <1>2, <1>3, <1>4, <1>5, <1>6

\* The steps that write the endpoint file, take the user's word, or show an
\* address.
LEMMA FileSteps ==
  ASSUME Repairing, NEW a \in Admins, TunnelStep, Watch,
         Save(a) \/ Confirm(a) \/ Finish(a) \/ \E u \in shown : Compare(a, u)
  PROVE  CommandTypes' /\ Local(a) /\ FilesKept /\ EarnedBy(a)'
<1>0. /\ CommandTypes /\ EarnedBy(a) /\ (stored = "named" => Routed)
      /\ endpoint.confirmed \in Believed /\ inherited' = inherited
  BY Watching DEF Repairing, RepairTypeOK, CommandTypes, Earning
<1>1. ASSUME Save(a) PROVE CommandTypes' /\ Local(a) /\ FilesKept /\ EarnedBy(a)'
  <2>1. /\ pc' = [pc EXCEPT ![a] = pc'[a]] /\ pc'[a] \in {"pair", "healthy"} /\ pc[a] = "save"
        /\ endpoint' = [mcp |-> addr[a], confirmed |-> prev[a]]
        /\ UNCHANGED <<stored, account, op, rt, addr, how, prev, waits, shown, confirmed, begun>>
    BY <1>0, <1>1 DEF Save, Goto, CommandTypes
  <2>2. CommandTypes'
    BY <1>0, <2>1 DEF CommandTypes
  <2>3. FilesKept
    BY <1>0, <2>1 DEF FilesKept, EarnedBy
  <2>4. EarnedBy(a)'
    BY <1>0, <2>1, Watching DEF EarnedBy, Saving
  <2> QED
    BY <1>0, <2>1, <2>2, <2>3, <2>4 DEF Local, CommandTypes
<1>2. ASSUME Confirm(a) PROVE CommandTypes' /\ Local(a) /\ FilesKept /\ EarnedBy(a)'
  <2>1. /\ pc' = [pc EXCEPT ![a] = pc'[a]] /\ pc'[a] = "ended" /\ pc[a] = "confirm"
        /\ endpoint' = [mcp |-> addr[a], confirmed |-> addr[a]]
        /\ UNCHANGED <<stored, account, op, rt, addr, how, prev, waits, shown, confirmed, begun>>
    BY <1>0, <1>2 DEF Confirm, Goto, CommandTypes
  <2>2. CommandTypes'
    BY <1>0, <2>1 DEF CommandTypes
  <2>3. FilesKept
    BY <1>0, <2>1 DEF FilesKept, EarnedBy
  <2>4. EarnedBy(a)'
    BY <1>0, <2>1 DEF EarnedBy, Saving
  <2> QED
    BY <1>0, <2>1, <2>2, <2>3, <2>4 DEF Local, CommandTypes
<1>3. ASSUME Finish(a) PROVE CommandTypes' /\ Local(a) /\ FilesKept /\ EarnedBy(a)'
  <2>1. /\ pc' = [pc EXCEPT ![a] = pc'[a]] /\ pc'[a] = "idle"
        /\ shown' = IF pc[a] = "healthy" THEN shown \union {addr[a]} ELSE shown
        /\ waits' = [waits EXCEPT ![a] = 0]
        /\ UNCHANGED <<op, rt, addr, how, prev, stored, account, endpoint, confirmed, begun>>
    BY <1>0, <1>3 DEF Finish, Goto, fileVars, CommandTypes
  <2>2. pc[a] = "healthy" => addr[a] \in PublicURLs
    BY <1>0, ServedIsPublic DEF EarnedBy, Saving, CommandTypes
  <2>3. 0 \in 0..MaxSpawns
    BY AddressFacts
  <2>4. CommandTypes'
    BY <1>0, <2>1, <2>2, <2>3 DEF CommandTypes
  <2>5. FilesUntouched /\ Local(a)
    BY <1>0, <2>1 DEF FilesUntouched, Local, CommandTypes
  <2> QED
    BY <1>0, <2>1, <2>4, <2>5, Untouched, AtPlain DEF Plain
<1>4. ASSUME NEW u \in shown, Compare(a, u) PROVE CommandTypes' /\ Local(a) /\ FilesKept /\ EarnedBy(a)'
  <2>1. /\ pc' = [pc EXCEPT ![a] = pc'[a]] /\ pc'[a] \in {"confirm", "ended"}
        /\ begun' \in 0..MaxCommands /\ op' = [op EXCEPT ![a] = "confirm"]
        /\ addr' = [addr EXCEPT ![a] = u] /\ how' = [how EXCEPT ![a] = "none"]
        /\ confirmed' = confirmed \union {u}
        /\ UNCHANGED <<stored, account, endpoint, rt, prev, waits, shown>>
    BY <1>0, <1>4, RepairBounds DEF Compare, Goto, fileVars, CommandTypes
  <2>2. u \in PublicURLs /\ u \in Addresses /\ "confirm" \in Operations
    BY <1>0, ServedIsPublic DEF CommandTypes, Operations
  <2>3. CommandTypes'
    BY <1>0, <2>1, <2>2 DEF CommandTypes
  <2>4. FilesKept
    BY <1>0, <2>1 DEF FilesKept
  <2>5. EarnedBy(a)'
    BY <1>0, <2>1 DEF EarnedBy, Saving, CommandTypes
  <2> QED
    BY <1>0, <2>1, <2>3, <2>4, <2>5 DEF Local, CommandTypes
<1> QED
  BY <1>1, <1>2, <1>3, <1>4
-----------------------------------------------------------------------------
(* What follows for every run.                                             *)

\* In the beginning nothing is known, but for a named tunnel that was set up.
LEMMA RepairingInit == RepairInit => Repairing
<1> SUFFICES ASSUME RepairInit PROVE Repairing
  OBVIOUS
<1>1. TunnelTypeOK
  BY AddressFacts DEF RepairInit, TunnelInit, TunnelTypeOK, Processes
<1>2. Numbered /\ Alone /\ UrlIsServed
  BY DEF RepairInit, TunnelInit, Numbered, Alone, UrlIsServed
<1>3. RepairTypeOK
  BY <1>1, AddressFacts, RepairBounds
  DEF RepairInit, RepairTypeOK, NoRuntime, Operations, TunnelInit
<1>4. Earning
  BY DEF RepairInit, Earning, EarnedBy, Saving
<1> QED
  BY <1>1, <1>2, <1>3, <1>4 DEF Repairing, Tunneling

\* The invariant holds of every state of every run: whatever events, crashes
\* and commands of whatever other processes come in between.
THEOREM RepairInvariant == RepairSpec => []Repairing
<1>1. ASSUME Repairing, [RepairNext]_repairVars PROVE Repairing'
  <2>1. CASE Event
    BY <1>1, <2>1, EventKeeps
  <2>2. ASSUME NEW a \in Admins, Command(a) PROVE Repairing'
    <3>1. TunnelStep /\ Watch
      BY <2>2, StepsAreWatched DEF RepairNext
    <3>2. CommandTypes' /\ Local(a) /\ FilesKept /\ EarnedBy(a)'
      BY <1>1, <2>2, <3>1, PlainSteps, AddressSteps, FileSteps DEF Command
    <3> QED
      BY <1>1, <3>1, <3>2, CommandKeeps
  <2>3. CASE UNCHANGED repairVars
    BY <1>1, <2>3
    DEF Repairing, Tunneling, TunnelTypeOK, Numbered, Alone, UrlIsServed, RepairTypeOK, Earning, EarnedBy,
        repairVars, tunnelVars, adminVars, fileVars, historyVars, Processes
  <2> QED
    BY <1>1, <2>1, <2>2, <2>3 DEF RepairNext
<1> QED
  BY <1>1, RepairingInit, PTL DEF RepairSpec

\* A cloudflared process that runs and was not told to end is the current one,
\* unless its start met another one's process, however many processes, brokers
\* and commands there are (cloudflared.ts:37,91).
THEOREM NoStray == RepairSpec => []NoStrayTunnel
<1>1. Repairing => NoStrayTunnel
  BY DEF Repairing, Tunneling, Alone, NoStrayTunnel
<1> QED
  BY <1>1, RepairInvariant, PTL

\* The named tunnel is stored only when the account has it and its host name is
\* there, routed to it or said to exist; and an address stands as confirmed only
\* if the user or an older file confirmed it, for any number of commands that
\* overlap (named-provision.ts:207-225, endpoint.ts:39-73).
THEOREM FilesEarned == RepairSpec => []FilesAreEarned
<1>1. Repairing => FilesAreEarned
  BY DEF Repairing, Earning, FilesAreEarned
<1> QED
  BY <1>1, RepairInvariant, PTL

\* An address a command shows was served since the command began, unless the
\* command took it from its copy of the runtime file
\* (installation-health.ts:344-353).
THEOREM AskedServed == RepairSpec => []AskedWasServed
<1>1. Repairing => AskedWasServed
  BY DEF Repairing, Earning, EarnedBy, Saving, AskedWasServed
<1> QED
  BY <1>1, RepairInvariant, PTL
=============================================================================
