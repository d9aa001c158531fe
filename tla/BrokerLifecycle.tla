---------------------------- MODULE BrokerLifecycle ----------------------------
(***************************************************************************)
(* The processes of an installation broker on Linux and the commands that  *)
(* ensure, restart and stop it (src/broker/installation-process.ts) from   *)
(* the CLI and the Manager, at the same time and without a lock between    *)
(* them.  Shared between them are the runtime record (src/bridge/          *)
(* runtime.ts), the write-owner lease (src/write-requests/owner.ts) and    *)
(* the process table, in which the pid of a process that has exited is     *)
(* given to another.                                                       *)
(*                                                                         *)
(* A broker is named apart from its pid: the name stands for the pid and   *)
(* its start time, and for the admin token that only this broker accepts.  *)
(* Waits end by a choice, because the model has no clock.                  *)
(***************************************************************************)
EXTENDS Naturals

CONSTANTS
  Commands,           \* lifecycle commands that can run together
  Brokers,            \* broker processes; each is spawned once
  Pids,
  Other,              \* any process that is not a broker
  Nobody,
  MaxReconciliations, \* MAX_RECONCILIATIONS
  MaxRewrites         \* bound: how often a runtime record is rewritten

ASSUME ConstantsAssumption ==
  /\ Other \notin Brokers /\ Nobody \notin Brokers \cup Pids /\ Other # Nobody
  /\ MaxReconciliations \in Nat \ {0} /\ MaxRewrites \in Nat

VARIABLES
  proc,     \* each broker: "none", how far startBroker or shutdown is, "gone"
  pid,      \* the pid it was given
  occupant, \* what runs under each pid: a broker, Other or Nobody
  lease,    \* the broker that holds the owner lock, or Nobody
  record,   \* the runtime record
  rewrites, \* how often a tunnel has changed it
  asked,    \* brokers that were asked to shut down; they leave the record
  op,       \* each command: "idle", "ensure", "restart", "stop"
  goal,     \* its loop: "stopping", "starting", "waiting" (for a child)
  pc,       \* its place in that loop
  snap,     \* the record it works on
  ident,    \* the process identity it has captured
  tries,    \* reconciliations in this loop
  ousted,   \* history: the broker a command last found to have exited
  harmed    \* history: SIGTERM reached another process than the recorded broker

processes == <<proc, pid, occupant, lease>>
place == <<op, goal, pc, snap, ident, tries>>
history == <<ousted, harmed>>
vars == <<processes, record, rewrites, asked, place, history>>

NoRecord == [broker |-> Nobody, rewrite |-> 0]

Init ==
  /\ proc = [b \in Brokers |-> "none"]
  /\ pid = [b \in Brokers |-> Nobody]
  /\ occupant = [p \in Pids |-> Nobody]
  /\ lease = Nobody
  /\ record = NoRecord /\ rewrites = 0
  /\ asked = {}
  /\ op = [c \in Commands |-> "idle"]
  /\ goal = [c \in Commands |-> "none"] /\ pc = [c \in Commands |-> "none"]
  /\ snap = [c \in Commands |-> NoRecord] /\ ident = [c \in Commands |-> Nobody]
  /\ tries = [c \in Commands |-> 0]
  /\ ousted = [c \in Commands |-> Nobody] /\ harmed = FALSE

Alive(b) == proc[b] \notin {"none", "gone"}
Answers(b) == proc[b] \in {"listening", "serving", "stopping"}
-----------------------------------------------------------------------------
(* A broker process.                                                       *)

Advance(b, here, there) == proc[b] = here /\ proc' = [proc EXCEPT ![b] = there]

BrokerOnly == UNCHANGED <<pid, occupant, place, history>>

AcquireLease(b) ==
  /\ lease = Nobody
  /\ Advance(b, "loading", "owner")
  /\ lease' = b
  /\ UNCHANGED <<record, rewrites, asked>> /\ BrokerOnly

Listen(b) ==
  /\ Advance(b, "owner", "listening")
  /\ UNCHANGED <<lease, record, rewrites, asked>> /\ BrokerOnly

Persist(b) ==
  /\ Advance(b, "listening", "serving")
  /\ record' = [broker |-> b, rewrite |-> rewrites]
  /\ UNCHANGED <<lease, rewrites, asked>> /\ BrokerOnly

\* A tunnel has come up or gone down and the record is written again.
Rewrite(b) ==
  /\ proc[b] \in {"serving", "stopping", "closed"} /\ rewrites < MaxRewrites
  /\ rewrites' = rewrites + 1
  /\ record' = [broker |-> b, rewrite |-> rewrites']
  /\ UNCHANGED <<proc, lease, asked>> /\ BrokerOnly

\* Mutant: shutdown releases the lease first of all.
BeginShutdownReleased(b) ==
  /\ Advance(b, "serving", "stopping")
  /\ lease' = Nobody
  /\ UNCHANGED <<record, rewrites, asked>> /\ BrokerOnly

\* It was asked to, or was sent SIGTERM or SIGINT.
BeginShutdown(b) ==
  /\ Advance(b, "serving", "stopping")
  /\ UNCHANGED <<lease, record, rewrites, asked>> /\ BrokerOnly

CloseServer(b) ==
  /\ Advance(b, "stopping", "closed")
  /\ UNCHANGED <<lease, record, rewrites, asked>> /\ BrokerOnly

\* clearRuntimeState, unless the shutdown was requested; it may also fail.
ClearOwnRecord(b) ==
  /\ Advance(b, "closed", "cleared")
  /\ record' \in IF b \in asked THEN {record} ELSE {record, NoRecord}
  /\ UNCHANGED <<lease, rewrites, asked>> /\ BrokerOnly

ReleaseLease(b) ==
  /\ Advance(b, "cleared", "released")
  /\ lease' = Nobody
  /\ UNCHANGED <<record, rewrites, asked>> /\ BrokerOnly

\* It exits: shut down, refused the lease, failed to start, or killed.  The
\* system releases the lock and the pid.
Exit(b) ==
  /\ Alive(b)
  /\ proc' = [proc EXCEPT ![b] = "gone"]
  /\ lease' = IF lease = b THEN Nobody ELSE lease
  /\ occupant' = [occupant EXCEPT ![pid[b]] = Nobody]
  /\ asked' = asked \ {b}
  /\ UNCHANGED <<pid, record, rewrites, place, history>>

\* Another program gets the pid, or exits.
OtherStarts(p) ==
  /\ occupant[p] = Nobody
  /\ occupant' = [occupant EXCEPT ![p] = Other]
  /\ UNCHANGED <<proc, pid, lease, record, rewrites, asked, place, history>>

OtherExits(p) ==
  /\ occupant[p] = Other
  /\ occupant' = [occupant EXCEPT ![p] = Nobody]
  /\ UNCHANGED <<proc, pid, lease, record, rewrites, asked, place, history>>
-----------------------------------------------------------------------------
(* A command: the record, and the inspection of the broker it names.       *)

Outside == UNCHANGED <<processes, record, rewrites, asked>>

At(c, here) == op[c] # "idle" /\ pc[c] = here
Goto(c, there) ==
  pc' = [pc EXCEPT ![c] = there] /\ UNCHANGED <<op, goal, snap, ident, tries>>

Call(c, what) ==
  /\ op[c] = "idle"
  /\ op' = [op EXCEPT ![c] = what]
  /\ goal' = [goal EXCEPT ![c] = IF what = "ensure" THEN "starting" ELSE "stopping"]
  /\ pc' = [pc EXCEPT ![c] = "read"]
  /\ ousted' = [ousted EXCEPT ![c] = Nobody]
  /\ UNCHANGED <<snap, ident, tries, harmed>> /\ Outside

\* The command returns or throws; it can be cancelled at any await.
Finish(c) ==
  /\ op[c] # "idle"
  /\ op' = [op EXCEPT ![c] = "idle"]
  /\ goal' = [goal EXCEPT ![c] = "none"] /\ pc' = [pc EXCEPT ![c] = "none"]
  /\ snap' = [snap EXCEPT ![c] = NoRecord] /\ ident' = [ident EXCEPT ![c] = Nobody]
  /\ tries' = [tries EXCEPT ![c] = 0]

Cancel(c) == Finish(c) /\ UNCHANGED history /\ Outside

\* The next round of the loop.  The wait for a child is bounded by time, the
\* other loops by a number of rounds.
Retry(c) ==
  /\ pc' = [pc EXCEPT ![c] = "read"]
  /\ tries' = [tries EXCEPT ![c] = IF goal[c] = "waiting" THEN 0 ELSE tries[c] + 1]
  /\ snap' = [snap EXCEPT ![c] = NoRecord] /\ ident' = [ident EXCEPT ![c] = Nobody]
  /\ UNCHANGED <<op, goal>>

\* stopCurrentBroker has returned.
Stopped(c) ==
  IF op[c] = "restart"
  THEN /\ goal' = [goal EXCEPT ![c] = "starting"] /\ pc' = [pc EXCEPT ![c] = "read"]
       /\ snap' = [snap EXCEPT ![c] = NoRecord] /\ ident' = [ident EXCEPT ![c] = Nobody]
       /\ tries' = [tries EXCEPT ![c] = 0]
       /\ UNCHANGED op
  ELSE Finish(c)

\* The error ends the command, except while it waits for its child.
GiveUp(c) == IF goal[c] = "waiting" THEN Retry(c) ELSE Finish(c)

ReadRecord(c) ==
  /\ At(c, "read") /\ tries[c] < MaxReconciliations
  /\ record # NoRecord
  /\ snap' = [snap EXCEPT ![c] = record]
  /\ pc' = [pc EXCEPT ![c] = "probe"]
  /\ UNCHANGED <<op, goal, ident, tries, history>> /\ Outside

FindNoRecord(c) ==
  /\ At(c, "read") /\ tries[c] < MaxReconciliations
  /\ record = NoRecord /\ goal[c] = "stopping"
  /\ Stopped(c)
  /\ UNCHANGED history /\ Outside

TooManyRounds(c) ==
  /\ At(c, "read") /\ tries[c] = MaxReconciliations
  /\ Finish(c)
  /\ UNCHANGED history /\ Outside

Spawn(c) ==
  /\ At(c, "read") /\ tries[c] < MaxReconciliations
  /\ record = NoRecord /\ goal[c] = "starting"
  /\ \E b \in Brokers, p \in Pids :
       /\ proc[b] = "none" /\ occupant[p] = Nobody
       /\ proc' = [proc EXCEPT ![b] = "loading"]
       /\ pid' = [pid EXCEPT ![b] = p]
       /\ occupant' = [occupant EXCEPT ![p] = b]
  /\ goal' = [goal EXCEPT ![c] = "waiting"]
  /\ tries' = [tries EXCEPT ![c] = 0]
  /\ UNCHANGED <<lease, record, rewrites, asked, op, pc, snap, ident, history>>

\* spawnBroker throws.
SpawnFails(c) ==
  /\ At(c, "read") /\ tries[c] < MaxReconciliations
  /\ record = NoRecord /\ goal[c] = "starting"
  /\ Finish(c)
  /\ UNCHANGED history /\ Outside

\* The child has exited, or the start-up deadline has passed.
WaitEnds(c) ==
  /\ At(c, "read") /\ goal[c] = "waiting"
  /\ Finish(c)
  /\ UNCHANGED history /\ Outside

Recorded(c) == pid[snap[c].broker]
Occupant(c) == occupant[Recorded(c)]

\* GET /admin/info with the recorded port and token; it may time out.
Probe(c) ==
  /\ At(c, "probe")
  /\ \/ Answers(snap[c].broker) /\ Goto(c, "heard")
     \/ Goto(c, "unheard")
  /\ UNCHANGED history /\ Outside

Unheard(c) ==
  /\ At(c, "unheard")
  /\ IF record # snap[c] THEN Retry(c)
     ELSE IF Occupant(c) = Nobody THEN Goto(c, "clear")
     ELSE GiveUp(c)
  /\ UNCHANGED history /\ Outside

CaptureIdentity(c) ==
  /\ At(c, "heard")
  /\ IF record # snap[c] THEN Retry(c)
     ELSE IF Occupant(c) = Nobody THEN Goto(c, "clear")
     ELSE /\ ident' = [ident EXCEPT ![c] = Occupant(c)]
          /\ pc' = [pc EXCEPT ![c] = "confirm"]
          /\ UNCHANGED <<op, goal, snap, tries>>
  /\ UNCHANGED history /\ Outside

\* Mutant: the captured identity is not confirmed by a second answer.
ConfirmNothing(c) ==
  /\ At(c, "confirm")
  /\ Goto(c, "confirmed")
  /\ UNCHANGED history /\ Outside

Confirm(c) ==
  /\ At(c, "confirm")
  /\ \/ Answers(snap[c].broker) /\ Goto(c, "confirmed")
     \/ GiveUp(c)
  /\ UNCHANGED history /\ Outside

Verify(c) ==
  /\ At(c, "confirmed")
  /\ IF Occupant(c) = Nobody THEN Goto(c, "clear")
     ELSE IF Occupant(c) # ident[c] THEN GiveUp(c)
     ELSE IF record # snap[c] THEN Retry(c)
     ELSE IF goal[c] = "stopping" THEN Goto(c, "shutdown")
     ELSE Finish(c)
  /\ UNCHANGED history /\ Outside

\* Mutant: whatever record there is now is removed.
ClearAnyRecord(c) ==
  /\ At(c, "clear")
  /\ record' = NoRecord
  /\ IF goal[c] = "stopping"
     THEN Stopped(c) /\ ousted' = [ousted EXCEPT ![c] = snap[c].broker]
     ELSE Retry(c) /\ UNCHANGED ousted
  /\ UNCHANGED <<processes, rewrites, asked, harmed>>

\* clearRuntimeRecordIfUnchanged, for a process found absent.
ClearStaleRecord(c) ==
  /\ At(c, "clear")
  /\ \/ /\ record \in {snap[c], NoRecord}
        /\ record' = NoRecord
        /\ IF goal[c] = "stopping"
           THEN Stopped(c) /\ ousted' = [ousted EXCEPT ![c] = snap[c].broker]
           ELSE Retry(c) /\ UNCHANGED ousted
     \/ /\ record \notin {snap[c], NoRecord}
        /\ Retry(c) /\ UNCHANGED <<record, ousted>>
  /\ UNCHANGED <<processes, rewrites, asked, harmed>>
-----------------------------------------------------------------------------
(* Stopping the broker that was verified.                                  *)

\* POST /admin/shutdown arrives or not, and its answer arrives or not.
RequestShutdown(c) ==
  /\ At(c, "shutdown")
  /\ \/ /\ Answers(snap[c].broker)
        /\ asked' = asked \cup {snap[c].broker}
        /\ Goto(c, "grace") \/ Goto(c, "force")
     \/ UNCHANGED asked /\ Goto(c, "force")
  /\ UNCHANGED <<processes, record, rewrites, history>>

Exited(c) == Occupant(c) # ident[c]

\* Mutant: an answer to the shutdown request is taken for the exit.
GraceTaken(c) ==
  /\ At(c, "grace")
  /\ Goto(c, "reconcile")
  /\ UNCHANGED history /\ Outside

\* waitForOriginalProcess sees it exit or runs into its timeout.
Grace(c) ==
  /\ At(c, "grace")
  /\ IF Exited(c) THEN Goto(c, "reconcile") ELSE Goto(c, "force")
  /\ UNCHANGED history /\ Outside

BeforeForce(c) ==
  /\ At(c, "force")
  /\ IF record \notin {snap[c], NoRecord} THEN Retry(c)
     ELSE IF Exited(c) THEN Goto(c, "reconcile")
     ELSE Goto(c, "signal")
  /\ UNCHANGED history /\ Outside

\* The identity is compared once more through a pidfd, which the signal stays
\* bound to.
Signal(c) ==
  /\ At(c, "signal")
  /\ IF Exited(c) THEN Goto(c, "reconcile") /\ UNCHANGED harmed
     ELSE /\ Goto(c, "drain")
          /\ harmed' = (harmed \/ ident[c] # snap[c].broker)
  /\ UNCHANGED ousted /\ Outside

\* Mutant: the wait after the signal has no deadline.
DrainForever(c) ==
  /\ At(c, "drain")
  /\ Exited(c) /\ Goto(c, "reconcile")
  /\ UNCHANGED history /\ Outside

Drain(c) ==
  /\ At(c, "drain")
  /\ IF Exited(c) THEN Goto(c, "reconcile") ELSE Finish(c)
  /\ UNCHANGED history /\ Outside

\* Once it is seen to have exited.  A process under its pid that is not it
\* cannot answer with its token, so that the command throws.
Reconcile(c) ==
  /\ At(c, "reconcile")
  /\ IF record = NoRecord
     THEN Stopped(c) /\ ousted' = [ousted EXCEPT ![c] = snap[c].broker]
     ELSE /\ IF record # snap[c] THEN Retry(c)
             ELSE IF Occupant(c) = Nobody THEN Goto(c, "clear")
             ELSE IF Occupant(c) = ident[c] THEN Retry(c)
             ELSE Finish(c)
          /\ UNCHANGED ousted
  /\ UNCHANGED harmed /\ Outside

BrokerStep(b) ==
  \/ AcquireLease(b) \/ Listen(b) \/ Persist(b) \/ Rewrite(b)
  \/ BeginShutdown(b) \/ CloseServer(b) \/ ClearOwnRecord(b) \/ ReleaseLease(b)
  \/ Exit(b)

CommandStep(c) ==
  \/ ReadRecord(c) \/ FindNoRecord(c) \/ TooManyRounds(c) \/ Spawn(c) \/ SpawnFails(c)
  \/ Probe(c) \/ Unheard(c) \/ CaptureIdentity(c) \/ Confirm(c) \/ Verify(c)
  \/ ClearStaleRecord(c) \/ RequestShutdown(c) \/ Grace(c) \/ BeforeForce(c)
  \/ Signal(c) \/ Drain(c) \/ Reconcile(c)

Next ==
  \/ \E b \in Brokers : BrokerStep(b)
  \/ \E p \in Pids : OtherStarts(p) \/ OtherExits(p)
  \/ \E c \in Commands :
       \/ \E what \in {"ensure", "restart", "stop"} : Call(c, what)
       \/ CommandStep(c) \/ WaitEnds(c) \/ Cancel(c)

Spec == Init /\ [][Next]_vars

\* A command goes on, and its start-up deadline does pass.  Nothing is assumed
\* of brokers: one may hang at any point.
Fairness == \A c \in Commands : WF_vars(CommandStep(c)) /\ SF_vars(WaitEnds(c))

FairSpec == Spec /\ Fairness
-----------------------------------------------------------------------------
Records == [broker : Brokers \cup {Nobody}, rewrite : 0..MaxRewrites]

\* Type correctness of the processes, the record and the commands; a place in
\* the inspection goes with a record to inspect.
TypeOK ==
  /\ proc \in [Brokers -> {"none", "loading", "owner", "listening", "serving", "stopping",
                           "closed", "cleared", "released", "gone"}]
  /\ pid \in [Brokers -> Pids \cup {Nobody}]
  /\ \A b \in Brokers : pid[b] = Nobody <=> proc[b] = "none"
  /\ occupant \in [Pids -> Brokers \cup {Other, Nobody}]
  /\ lease \in Brokers \cup {Nobody}
  /\ record \in Records /\ rewrites \in 0..MaxRewrites
  /\ asked \subseteq Brokers
  /\ op \in [Commands -> {"idle", "ensure", "restart", "stop"}]
  /\ goal \in [Commands -> {"none", "stopping", "starting", "waiting"}]
  /\ pc \in [Commands -> {"none", "read", "probe", "heard", "unheard", "confirm", "confirmed",
                          "clear", "shutdown", "grace", "force", "signal", "drain", "reconcile"}]
  /\ \A c \in Commands : op[c] = "idle" <=> pc[c] = "none"
  /\ snap \in [Commands -> Records]
  /\ \A c \in Commands : snap[c].broker = Nobody <=> pc[c] \in {"none", "read"}
  /\ ident \in [Commands -> Brokers \cup {Other, Nobody}]
  /\ tries \in [Commands -> 0..MaxReconciliations]
  /\ ousted \in [Commands -> Brokers \cup {Nobody}] /\ harmed \in BOOLEAN

\* At most one broker answers requests, whatever commands spawn at the same
\* time: the next one takes the lease after the last one has closed.
OneBrokerAnswers == \A b, d \in Brokers : Answers(b) /\ Answers(d) => b = d

\* From the moment a broker has published itself until it clears its record,
\* the record names it: no command and no other broker erases it or writes
\* over it, so that every command finds the broker that serves.
ServingIsRecorded ==
  \A b \in Brokers : proc[b] \in {"serving", "stopping", "closed"} => record.broker = b

\* SIGTERM reaches no process but the broker whose record was inspected, even
\* when that broker exits during the inspection and its pid is given away.
OnlyBrokerSignalled == ~harmed

\* A broker that a stop or a restart reports as stopped has exited.
StoppedHasExited == \A c \in Commands : ousted[c] # Nobody => proc[ousted[c]] = "gone"

\* Every command returns or throws, even when the broker it deals with hangs.
CommandsEnd == \A c \in Commands : op[c] # "idle" ~> op[c] = "idle"
=============================================================================
