------------------------- MODULE BrokerLifecycleProofs -------------------------
(***************************************************************************)
(* Proofs about BrokerLifecycle for any number of commands, brokers, pids  *)
(* and rounds.                                                             *)
(*                                                                         *)
(* The invariant ties three views of a broker together: the lease it       *)
(* holds, the pid it occupies, and what the commands believe of it.  A     *)
(* command that has captured an identity has captured the recorded         *)
(* broker's, or that broker has exited meanwhile and cannot confirm it;    *)
(* a command that is about to clear a record, or to report a broker as     *)
(* stopped, has seen that broker's pid without it.                         *)
(***************************************************************************)
EXTENDS BrokerLifecycle, TLAPS

Holding == {"owner", "listening", "serving", "stopping", "closed", "cleared"}

\* A broker from its start to its release is the holder of the lease, and a
\* live one is what its pid stands for.
Leased(b) == proc[b] \in Holding => lease = b
Placed(b) == Alive(b) => pid[b] \in Pids /\ occupant[pid[b]] = b
Published(b) == proc[b] \in {"serving", "stopping", "closed"} => record.broker = b

\* A record names a broker that was spawned.
RecordSound ==
  /\ record.broker = Nobody => record = NoRecord
  /\ record.broker # Nobody => proc[record.broker] # "none"

Gone(c) == proc[snap[c].broker] = "gone"

\* What a command has found out about the broker it inspects.
Inspecting(c) ==
  /\ pc[c] \notin {"none", "read"} => proc[snap[c].broker] # "none" /\ tries[c] < MaxReconciliations
  /\ pc[c] \in {"clear", "reconcile"} => Gone(c)
  /\ pc[c] = "confirm" => ident[c] = snap[c].broker \/ Gone(c)
  /\ pc[c] \in {"confirmed", "shutdown", "grace", "force", "signal", "drain", "reconcile"}
       => ident[c] = snap[c].broker

OustedGone(c) == ousted[c] # Nobody => proc[ousted[c]] = "gone"

Brokerage ==
  /\ TypeOK
  /\ \A b \in Brokers : Leased(b) /\ Placed(b) /\ Published(b)
  /\ RecordSound
  /\ \A c \in Commands : Inspecting(c) /\ OustedGone(c)
  /\ ~harmed
-----------------------------------------------------------------------------
\* The two halves of type correctness.
BrokerTypes ==
  /\ proc \in [Brokers -> {"none", "loading", "owner", "listening", "serving", "stopping",
                           "closed", "cleared", "released", "gone"}]
  /\ pid \in [Brokers -> Pids \cup {Nobody}]
  /\ \A b \in Brokers : pid[b] = Nobody <=> proc[b] = "none"
  /\ occupant \in [Pids -> Brokers \cup {Other, Nobody}]
  /\ lease \in Brokers \cup {Nobody}
  /\ record \in Records /\ rewrites \in 0..MaxRewrites
  /\ asked \subseteq Brokers

Places == {"none", "read", "probe", "heard", "unheard", "confirm", "confirmed",
           "clear", "shutdown", "grace", "force", "signal", "drain", "reconcile"}
Outer == {"none", "read"}

PlaceTypes ==
  /\ op \in [Commands -> {"idle", "ensure", "restart", "stop"}]
  /\ goal \in [Commands -> {"none", "stopping", "starting", "waiting"}]
  /\ pc \in [Commands -> Places]
  /\ \A c \in Commands : op[c] = "idle" <=> pc[c] = "none"
  /\ snap \in [Commands -> Records]
  /\ \A c \in Commands : snap[c].broker = Nobody <=> pc[c] \in Outer
  /\ ident \in [Commands -> Brokers \cup {Other, Nobody}]
  /\ tries \in [Commands -> 0..MaxReconciliations]

OustedTypes == ousted \in [Commands -> Brokers \cup {Nobody}]

\* The two halves and the history make up the type invariant.
LEMMA Types ==
  TypeOK <=> BrokerTypes /\ PlaceTypes /\ OustedTypes /\ harmed \in BOOLEAN
BY DEF TypeOK, BrokerTypes, PlaceTypes, OustedTypes, Places, Outer

\* The absent record is of the type of records.
LEMMA NoRecordIsRecord == NoRecord \in Records /\ NoRecord.broker = Nobody
BY ConstantsAssumption DEF NoRecord, Records

\* The ways a command moves on keep its types.
LEMMA GotoTypes ==
  ASSUME PlaceTypes, NEW c \in Commands, NEW there \in Places \ Outer, pc[c] \notin Outer,
         Goto(c, there)
  PROVE  PlaceTypes'
BY DEF PlaceTypes, Goto, Outer, Places

\* A new round keeps them while there are rounds left.
LEMMA RetryTypes ==
  ASSUME PlaceTypes, NEW c \in Commands, op[c] # "idle", tries[c] < MaxReconciliations,
         Retry(c)
  PROVE  PlaceTypes'
<1>1. snap' \in [Commands -> Records] /\ snap'[c].broker = Nobody
  BY NoRecordIsRecord DEF PlaceTypes, Retry
<1>2. tries' \in [Commands -> 0..MaxReconciliations]
  BY ConstantsAssumption DEF PlaceTypes, Retry
<1> QED BY <1>1, <1>2 DEF PlaceTypes, Retry, Outer, Places

\* The end of a command keeps them.
LEMMA FinishTypes ==
  ASSUME PlaceTypes, NEW c \in Commands, Finish(c)
  PROVE  PlaceTypes'
<1>1. snap' \in [Commands -> Records] /\ snap'[c].broker = Nobody
  BY NoRecordIsRecord DEF PlaceTypes, Finish
<1>2. tries' \in [Commands -> 0..MaxReconciliations]
  BY ConstantsAssumption DEF PlaceTypes, Finish
<1> QED BY <1>1, <1>2 DEF PlaceTypes, Finish, Outer, Places

\* So does the return of a stop, which goes on to a start in a restart.
LEMMA StoppedTypes ==
  ASSUME PlaceTypes, NEW c \in Commands, Stopped(c)
  PROVE  PlaceTypes'
<1>1. CASE op[c] # "restart"
  BY <1>1, FinishTypes DEF Stopped
<1>2. CASE op[c] = "restart"
  <2>1. snap' \in [Commands -> Records] /\ snap'[c].broker = Nobody
    BY <1>2, NoRecordIsRecord DEF PlaceTypes, Stopped
  <2>2. tries' \in [Commands -> 0..MaxReconciliations]
    BY <1>2, ConstantsAssumption DEF PlaceTypes, Stopped
  <2> QED BY <1>2, <2>1, <2>2 DEF PlaceTypes, Stopped, Outer, Places
<1> QED BY <1>1, <1>2

\* So does an error.
LEMMA GiveUpTypes ==
  ASSUME PlaceTypes, NEW c \in Commands, op[c] # "idle", tries[c] < MaxReconciliations,
         GiveUp(c)
  PROVE  PlaceTypes'
BY RetryTypes, FinishTypes DEF GiveUp
-----------------------------------------------------------------------------
\* The command is back at the record or ended.
Leaves(c) ==
  /\ pc' \in [Commands -> Places] /\ pc'[c] \in Outer
  /\ \A d \in Commands \ {c} :
       pc'[d] = pc[d] /\ snap'[d] = snap[d] /\ ident'[d] = ident[d] /\ tries'[d] = tries[d]

\* Each of them leads out of the inspection and leaves other commands alone.
LEMMA Leaving ==
  ASSUME PlaceTypes, NEW c \in Commands,
         Retry(c) \/ Finish(c) \/ Stopped(c) \/ GiveUp(c)
  PROVE  Leaves(c)
<1>1. CASE Retry(c)
  BY <1>1 DEF PlaceTypes, Retry, Leaves, Places, Outer
<1>2. CASE Finish(c)
  BY <1>2 DEF PlaceTypes, Finish, Leaves, Places, Outer
<1>3. CASE Stopped(c)
  BY <1>2, <1>3 DEF PlaceTypes, Stopped, Finish, Leaves, Places, Outer
<1>4. CASE GiveUp(c)
  BY <1>1, <1>2, <1>4 DEF GiveUp
<1> QED BY <1>1, <1>2, <1>3, <1>4

\* Processes only age: none is spawned twice or comes back.
Aged == \A b \in Brokers : /\ proc[b] # "none" => proc'[b] # "none"
                           /\ proc[b] = "gone" => proc'[b] = "gone"

\* A command that another step leaves alone still knows what it knew.
LEMMA Untouched ==
  ASSUME PlaceTypes, Aged, NEW d \in Commands, Inspecting(d),
         pc'[d] = pc[d], snap'[d] = snap[d], ident'[d] = ident[d], tries'[d] = tries[d]
  PROVE  Inspecting(d)'
<1>1. pc[d] \notin Outer => snap[d].broker \in Brokers
  BY DEF PlaceTypes, Records, Outer
<1> QED BY <1>1 DEF Inspecting, Gone, Aged, Outer

\* A command that has left knows nothing that could be wrong.
LEMMA LeavesInspecting ==
  ASSUME PlaceTypes, Aged, NEW c \in Commands, Leaves(c), \A d \in Commands : Inspecting(d)
  PROVE  \A d \in Commands : Inspecting(d)'
<1>1. Inspecting(c)'
  BY DEF Leaves, Inspecting, Outer
<1>2. ASSUME NEW d \in Commands \ {c} PROVE Inspecting(d)'
  BY <1>2, Untouched DEF Leaves
<1> QED BY <1>1, <1>2

\* The recorded pid of a broker that lives is its own.
LEMMA Absent ==
  ASSUME BrokerTypes, PlaceTypes, NEW c \in Commands, pc[c] \notin Outer, Inspecting(c),
         \A b \in Brokers : Placed(b), Occupant(c) # snap[c].broker
  PROVE  Gone(c)
<1>1. snap[c].broker \in Brokers
  BY DEF PlaceTypes, Records, Outer
<1> QED BY <1>1 DEF Inspecting, Outer, Placed, Alive, Gone, Occupant, Recorded
-----------------------------------------------------------------------------
(* The steps of a broker.                                                  *)

World == \A b \in Brokers : Leased(b) /\ Placed(b) /\ Published(b)

\* The invariant as the list of its parts.
LEMMA Parts ==
  Brokerage <=> /\ BrokerTypes /\ PlaceTypes /\ OustedTypes
                /\ World /\ RecordSound
                /\ \A c \in Commands : Inspecting(c)
                /\ \A c \in Commands : OustedGone(c)
                /\ harmed = FALSE
BY Types DEF Brokerage, World

\* The same for the state after a step.
LEMMA PartsNext ==
  ASSUME BrokerTypes', PlaceTypes', OustedTypes', World', RecordSound',
         \A c \in Commands : Inspecting(c)',
         \A c \in Commands : OustedGone(c)',
         harmed' = FALSE
  PROVE  Brokerage'
<1>1. TypeOK'
  BY DEF TypeOK, BrokerTypes, PlaceTypes, OustedTypes, Places, Outer
<1> QED BY <1>1 DEF Brokerage, World

\* With nothing running, the invariant holds.
LEMMA BrokerageInit ==
  Init => Brokerage
<1> SUFFICES ASSUME Init PROVE Brokerage
  OBVIOUS
<1>1. BrokerTypes
  BY ConstantsAssumption, NoRecordIsRecord DEF Init, BrokerTypes
<1>2. PlaceTypes /\ OustedTypes
  BY ConstantsAssumption, NoRecordIsRecord DEF Init, PlaceTypes, OustedTypes, Places, Outer
<1>3. World /\ RecordSound
  BY DEF Init, World, Leased, Placed, Published, Holding, Alive, RecordSound, NoRecord
<1>4. \A c \in Commands : Inspecting(c) /\ OustedGone(c)
  BY DEF Init, Inspecting, OustedGone
<1> QED BY <1>1, <1>2, <1>3, <1>4, Parts DEF Init

\* An action by which a broker that holds the lease goes from one stage to
\* the next, without touching the record.
LEMMA Advancing ==
  ASSUME BrokerTypes, World, RecordSound, NEW b \in Brokers,
         NEW here \in Holding, NEW there \in (Holding \cup {"released"}) \ {"serving"},
         Advance(b, here, there), here = "listening" => there \notin {"stopping", "closed"},
         here = "owner" => there \notin {"stopping", "closed"},
         here = "cleared" => there \notin {"stopping", "closed"},
         lease' = IF there = "released" THEN Nobody ELSE lease,
         UNCHANGED <<pid, occupant, record, rewrites, asked>>
  PROVE  BrokerTypes' /\ World' /\ RecordSound' /\ Aged
<1>1. BrokerTypes'
  BY DEF BrokerTypes, Advance, Holding
<1>2. Aged
  BY DEF BrokerTypes, Advance, Holding, Aged
<1>3. ASSUME NEW d \in Brokers PROVE Leased(d)'
  BY DEF BrokerTypes, World, Leased, Advance, Holding
<1>4. ASSUME NEW d \in Brokers PROVE Placed(d)'
  BY DEF BrokerTypes, World, Placed, Alive, Advance, Holding
<1>5. ASSUME NEW d \in Brokers PROVE Published(d)'
  BY DEF BrokerTypes, World, Published, Advance, Holding
<1>6. RecordSound'
  <2>1. record.broker # Nobody => record.broker \in Brokers
    BY DEF BrokerTypes, Records
  <2> QED BY <2>1, <1>2 DEF RecordSound, Aged, NoRecord
<1> QED BY <1>1, <1>2, <1>3, <1>4, <1>5, <1>6 DEF World

\* What a broker does leaves the invariant of its surroundings true.
LEMMA BrokerSteps ==
  ASSUME BrokerTypes, World, RecordSound, NEW b \in Brokers, BrokerStep(b)
  PROVE  BrokerTypes' /\ World' /\ RecordSound' /\ Aged
<1>1. CASE AcquireLease(b)
  <2>1. BrokerTypes' /\ Aged
    BY <1>1 DEF AcquireLease, BrokerOnly, BrokerTypes, Advance, Aged
  <2>2. ASSUME NEW d \in Brokers PROVE Leased(d)' /\ Placed(d)' /\ Published(d)'
    BY <1>1, ConstantsAssumption
       DEF AcquireLease, BrokerOnly, BrokerTypes, World, Leased, Placed, Published, Alive, Advance,
           Holding
  <2>3. RecordSound'
    BY <1>1, <2>1 DEF AcquireLease, RecordSound, Aged, BrokerTypes, Records, NoRecord
  <2> QED BY <2>1, <2>2, <2>3 DEF World
<1>2. CASE Listen(b)
  BY <1>2, Advancing DEF Listen, BrokerOnly, Holding
<1>3. CASE Persist(b)
  <2>1. BrokerTypes' /\ Aged
    BY <1>3 DEF Persist, BrokerOnly, BrokerTypes, Records, Advance, Aged
  <2>2. ASSUME NEW d \in Brokers PROVE Leased(d)' /\ Placed(d)' /\ Published(d)'
    BY <1>3 DEF Persist, BrokerOnly, BrokerTypes, World, Leased, Placed, Published, Alive, Advance,
                Holding
  <2>3. RecordSound'
    BY <1>3, ConstantsAssumption DEF Persist, RecordSound, BrokerTypes, Advance
  <2> QED BY <2>1, <2>2, <2>3 DEF World
<1>4. CASE Rewrite(b)
  <2>1. BrokerTypes' /\ Aged
    BY <1>4, ConstantsAssumption DEF Rewrite, BrokerOnly, BrokerTypes, Records, Aged
  <2>2. ASSUME NEW d \in Brokers PROVE Leased(d)' /\ Placed(d)' /\ Published(d)'
    BY <1>4 DEF Rewrite, BrokerOnly, BrokerTypes, World, Leased, Placed, Published, Alive, Holding
  <2>3. RecordSound'
    BY <1>4, ConstantsAssumption DEF Rewrite, RecordSound, BrokerTypes
  <2> QED BY <2>1, <2>2, <2>3 DEF World
<1>5. CASE BeginShutdown(b)
  BY <1>5, Advancing DEF BeginShutdown, BrokerOnly, Holding
<1>6. CASE CloseServer(b)
  BY <1>6, Advancing DEF CloseServer, BrokerOnly, Holding
<1>7. CASE ClearOwnRecord(b)
  <2>1. record' \in Records /\ (record' = record \/ record' = NoRecord)
    BY <1>7, NoRecordIsRecord DEF ClearOwnRecord, BrokerTypes
  <2>2. BrokerTypes' /\ Aged
    BY <1>7, <2>1 DEF ClearOwnRecord, BrokerOnly, BrokerTypes, Advance, Aged
  <2>3. ASSUME NEW d \in Brokers PROVE Leased(d)' /\ Placed(d)' /\ Published(d)'
    <3>1. d # b => proc[d] \notin {"serving", "stopping", "closed"}
      BY <1>7 DEF ClearOwnRecord, Advance, World, Leased, Holding
    <3> QED BY <1>7, <2>1, <3>1 DEF ClearOwnRecord, BrokerOnly, BrokerTypes, World, Leased, Placed,
                                    Published, Alive, Advance, Holding
  <2>4. RecordSound'
    BY <2>1, <2>2, NoRecordIsRecord DEF RecordSound, Aged, BrokerTypes, Records, NoRecord
  <2> QED BY <2>2, <2>3, <2>4 DEF World
<1>8. CASE ReleaseLease(b)
  BY <1>8, Advancing DEF ReleaseLease, BrokerOnly, Holding
<1>9. CASE Exit(b)
  <2>1. BrokerTypes' /\ Aged
    BY <1>9, ConstantsAssumption DEF Exit, BrokerTypes, Alive, Aged
  <2>2. ASSUME NEW d \in Brokers PROVE Leased(d)' /\ Placed(d)' /\ Published(d)'
    BY <1>9, ConstantsAssumption DEF Exit, BrokerTypes, World, Leased, Placed, Published, Alive, Holding
  <2>3. RecordSound'
    BY <1>9, <2>1 DEF Exit, RecordSound, Aged, BrokerTypes, Records, NoRecord
  <2> QED BY <2>1, <2>2, <2>3 DEF World
<1> QED BY <1>1, <1>2, <1>3, <1>4, <1>5, <1>6, <1>7, <1>8, <1>9 DEF BrokerStep
-----------------------------------------------------------------------------
(* The steps of a command that only look at the brokers and the record.    *)

Inspected == \A d \in Commands : Inspecting(d)

\* What such a step, and every other program, leaves alone.
LEMMA Looking ==
  ASSUME BrokerTypes, World, RecordSound, Outside
  PROVE  BrokerTypes' /\ World' /\ RecordSound' /\ Aged
<1>1. BrokerTypes' /\ RecordSound' /\ Aged
  BY DEF Outside, processes, BrokerTypes, RecordSound, Aged
<1>2. World'
  BY DEF Outside, processes, World, Leased, Placed, Published, Alive
<1> QED BY <1>1, <1>2

\* A command goes back to the record, or ends.
LEMMA GoingBack ==
  ASSUME PlaceTypes, Aged, Inspected, NEW c \in Commands,
         \/ op[c] # "idle" /\ tries[c] < MaxReconciliations /\ (Retry(c) \/ GiveUp(c))
         \/ Finish(c) \/ Stopped(c)
  PROVE  PlaceTypes' /\ Inspected'
<1>1. PlaceTypes'
  BY RetryTypes, GiveUpTypes, FinishTypes, StoppedTypes
<1>2. Leaves(c)
  BY Leaving
<1> QED BY <1>1, <1>2, LeavesInspecting DEF Inspected

\* A command goes on with the broker it inspects, knowing what the place
\* requires.
LEMMA GoingOn ==
  ASSUME PlaceTypes, Aged, Inspected, NEW c \in Commands, pc[c] \notin Outer,
         NEW there \in Places \ (Outer \cup {"confirm"}), Goto(c, there),
         there \in {"clear", "reconcile"} => Gone(c),
         there \in {"confirmed", "shutdown", "grace", "force", "signal", "drain", "reconcile"}
           => ident[c] = snap[c].broker
  PROVE  PlaceTypes' /\ Inspected'
<1>1. PlaceTypes'
  BY GotoTypes
<1>2. Inspecting(c)'
  <2>1. snap[c].broker \in Brokers
    BY DEF PlaceTypes, Records, Outer
  <2>2. /\ pc'[c] = there
        /\ snap'[c] = snap[c] /\ ident'[c] = ident[c] /\ tries'[c] = tries[c]
    BY DEF PlaceTypes, Goto
  <2> QED BY <2>1, <2>2 DEF Inspected, Inspecting, Gone, Aged, Outer
<1>3. ASSUME NEW d \in Commands \ {c} PROVE Inspecting(d)'
  BY <1>3, Untouched DEF PlaceTypes, Goto, Inspected
<1> QED BY <1>1, <1>2, <1>3 DEF Inspected

\* A recorded pid that is free, or that another process than the identified
\* broker has, is not that broker's.
LEMMA FreeIsGone ==
  ASSUME BrokerTypes, PlaceTypes, World, Inspected, NEW c \in Commands, pc[c] \notin Outer,
         Occupant(c) = Nobody \/ (ident[c] = snap[c].broker /\ Exited(c))
  PROVE  Gone(c)
<1>1. snap[c].broker # Nobody
  BY DEF PlaceTypes
<1> QED BY <1>1, Absent DEF Inspected, World, Exited

\* A command that inspects a broker is within its rounds.
LEMMA WithinRounds ==
  ASSUME PlaceTypes, Inspected, NEW c \in Commands, pc[c] \notin Outer
  PROVE  op[c] # "idle" /\ tries[c] < MaxReconciliations
BY DEF PlaceTypes, Inspected, Inspecting, Outer

Looks(c) ==
  \/ ReadRecord(c) \/ FindNoRecord(c) \/ TooManyRounds(c) \/ SpawnFails(c)
  \/ Probe(c) \/ Unheard(c) \/ CaptureIdentity(c) \/ Confirm(c) \/ Verify(c)
  \/ Grace(c) \/ BeforeForce(c) \/ Drain(c) \/ WaitEnds(c) \/ Cancel(c)
  \/ Signal(c) \/ Reconcile(c)

\* A step that only looks leaves the command with what its place requires.
LEMMA LookingSteps ==
  ASSUME BrokerTypes, PlaceTypes, World, RecordSound, Inspected, Aged,
         NEW c \in Commands, Looks(c)
  PROVE  PlaceTypes' /\ Inspected'
<1>1. CASE FindNoRecord(c) \/ TooManyRounds(c) \/ SpawnFails(c) \/ WaitEnds(c) \/ Cancel(c)
  BY <1>1, GoingBack DEF FindNoRecord, TooManyRounds, SpawnFails, WaitEnds, Cancel
<1>2. CASE ReadRecord(c)
  <2>1. record \in Records /\ record.broker \in Brokers /\ proc[record.broker] # "none"
    BY <1>2 DEF ReadRecord, RecordSound, BrokerTypes, Records
  <2>2. PlaceTypes'
    BY <1>2, <2>1, ConstantsAssumption DEF ReadRecord, At, PlaceTypes, Places, Outer
  <2>3. Inspecting(c)'
    <3>1. pc'[c] = "probe" /\ snap'[c] = record /\ tries'[c] = tries[c]
      BY <1>2 DEF ReadRecord, PlaceTypes
    <3> QED BY <1>2, <2>1, <3>1 DEF ReadRecord, Inspecting, Aged
  <2>4. ASSUME NEW d \in Commands \ {c} PROVE Inspecting(d)'
    BY <1>2, <2>4, Untouched DEF ReadRecord, PlaceTypes, Inspected
  <2> QED BY <2>2, <2>3, <2>4 DEF Inspected
<1>3. CASE Probe(c)
  BY <1>3, GoingOn DEF Probe, At, Places, Outer
<1>4. CASE Unheard(c)
  <2>1. pc[c] \notin Outer
    BY <1>4 DEF Unheard, At, Outer
  <2>2. CASE Retry(c) \/ GiveUp(c)
    BY <2>1, <2>2, WithinRounds, GoingBack
  <2>3. CASE Occupant(c) = Nobody /\ Goto(c, "clear")
    BY <2>1, <2>3, FreeIsGone, GoingOn DEF Places, Outer
  <2> QED BY <1>4, <2>2, <2>3 DEF Unheard
<1>5. CASE CaptureIdentity(c)
  <2>1. pc[c] \notin Outer
    BY <1>5 DEF CaptureIdentity, At, Outer
  <2>2. CASE Retry(c)
    BY <2>1, <2>2, WithinRounds, GoingBack
  <2>3. CASE Occupant(c) = Nobody /\ Goto(c, "clear")
    BY <2>1, <2>3, FreeIsGone, GoingOn DEF Places, Outer
  <2>4. CASE /\ ident' = [ident EXCEPT ![c] = Occupant(c)]
             /\ pc' = [pc EXCEPT ![c] = "confirm"]
             /\ UNCHANGED <<op, goal, snap, tries>>
             /\ Occupant(c) # Nobody
    <3>1. snap[c].broker \in Brokers /\ proc[snap[c].broker] # "none"
      BY <2>1 DEF PlaceTypes, Records, Outer, Inspected, Inspecting
    <3>2. Occupant(c) \in Brokers \cup {Other, Nobody}
      <4>1. Recorded(c) \in Pids
        BY <3>1 DEF BrokerTypes, Recorded
      <4> QED BY <4>1 DEF BrokerTypes, Occupant
    <3>3. PlaceTypes'
      BY <2>1, <2>4, <3>2 DEF PlaceTypes, Places, Outer
    <3>4. Occupant(c) = snap[c].broker \/ Gone(c)
      BY <2>1, Absent DEF Inspected, World
    <3>5. Inspecting(c)'
      <4>1. /\ pc'[c] = "confirm" /\ snap'[c] = snap[c] /\ tries'[c] = tries[c]
            /\ ident'[c] = Occupant(c)
        BY <2>4 DEF PlaceTypes
      <4> QED BY <2>1, <3>1, <3>4, <4>1, WithinRounds DEF Inspecting, Gone, Aged
    <3>6. ASSUME NEW d \in Commands \ {c} PROVE Inspecting(d)'
      BY <2>4, <3>6, Untouched DEF PlaceTypes, Inspected
    <3> QED BY <3>3, <3>5, <3>6 DEF Inspected
  <2> QED BY <1>5, <2>2, <2>3, <2>4 DEF CaptureIdentity
<1>6. CASE Confirm(c)
  <2>1. pc[c] \notin Outer /\ pc[c] = "confirm"
    BY <1>6 DEF Confirm, At, Outer
  <2>2. CASE GiveUp(c)
    BY <2>1, <2>2, WithinRounds, GoingBack
  <2>3. CASE Answers(snap[c].broker) /\ Goto(c, "confirmed")
    <3>1. ident[c] = snap[c].broker
      BY <2>1, <2>3 DEF Inspected, Inspecting, Gone, Answers
    <3> QED BY <2>1, <2>3, <3>1, GoingOn DEF Places, Outer
  <2> QED BY <1>6, <2>2, <2>3 DEF Confirm
<1>7. CASE Verify(c)
  <2>1. pc[c] \notin Outer /\ ident[c] = snap[c].broker
    BY <1>7 DEF Verify, At, Outer, Inspected, Inspecting
  <2>2. CASE Retry(c) \/ GiveUp(c) \/ Finish(c)
    BY <2>1, <2>2, WithinRounds, GoingBack
  <2>3. CASE Occupant(c) = Nobody /\ Goto(c, "clear")
    BY <2>1, <2>3, FreeIsGone, GoingOn DEF Places, Outer
  <2>4. CASE Goto(c, "shutdown")
    BY <2>1, <2>4, GoingOn DEF Places, Outer
  <2> QED BY <1>7, <2>2, <2>3, <2>4 DEF Verify
<1>8. CASE Grace(c) \/ BeforeForce(c) \/ Signal(c) \/ Drain(c)
  <2>1. pc[c] \notin Outer /\ ident[c] = snap[c].broker
    BY <1>8 DEF Grace, BeforeForce, Signal, Drain, At, Outer, Inspected, Inspecting
  <2>2. CASE Retry(c) \/ Finish(c)
    BY <2>1, <2>2, WithinRounds, GoingBack
  <2>3. CASE Exited(c) /\ Goto(c, "reconcile")
    BY <2>1, <2>3, FreeIsGone, GoingOn DEF Places, Outer
  <2>4. CASE Goto(c, "force") \/ Goto(c, "signal") \/ Goto(c, "drain")
    BY <2>1, <2>4, GoingOn DEF Places, Outer
  <2> QED BY <1>8, <2>2, <2>3, <2>4 DEF Grace, BeforeForce, Signal, Drain
<1>9. CASE Reconcile(c)
  <2>1. pc[c] \notin Outer
    BY <1>9 DEF Reconcile, At, Outer
  <2>2. CASE Retry(c) \/ Finish(c) \/ Stopped(c)
    BY <2>1, <2>2, WithinRounds, GoingBack
  <2>3. CASE Occupant(c) = Nobody /\ Goto(c, "clear")
    BY <2>1, <2>3, FreeIsGone, GoingOn DEF Places, Outer
  <2> QED BY <1>9, <2>2, <2>3 DEF Reconcile
<1> QED BY <1>1, <1>2, <1>3, <1>4, <1>5, <1>6, <1>7, <1>8, <1>9 DEF Looks
-----------------------------------------------------------------------------
(* The steps of a command that change what is around it.                   *)

\* A spawned broker gets a free pid and holds nothing yet.
LEMMA SpawnStep ==
  ASSUME BrokerTypes, PlaceTypes, World, RecordSound, Inspected, NEW c \in Commands, Spawn(c)
  PROVE  BrokerTypes' /\ World' /\ RecordSound' /\ Aged /\ PlaceTypes' /\ Inspected'
<1>1. PICK b \in Brokers, p \in Pids :
        /\ proc[b] = "none" /\ occupant[p] = Nobody
        /\ proc' = [proc EXCEPT ![b] = "loading"]
        /\ pid' = [pid EXCEPT ![b] = p]
        /\ occupant' = [occupant EXCEPT ![p] = b]
  BY DEF Spawn
<1>2. UNCHANGED <<lease, record, rewrites, asked, op, pc, snap, ident, history>>
  BY DEF Spawn
<1>3. p # Nobody
  BY ConstantsAssumption
<1>4. BrokerTypes'
  BY <1>1, <1>2, <1>3 DEF BrokerTypes
<1>5. Aged
  BY <1>1 DEF BrokerTypes, Aged
<1>6. ASSUME NEW d \in Brokers PROVE Leased(d)' /\ Placed(d)' /\ Published(d)'
  BY <1>1, <1>2, ConstantsAssumption
     DEF BrokerTypes, World, Leased, Placed, Published, Alive, Holding
<1>7. RecordSound'
  BY <1>2, <1>5 DEF RecordSound, Aged, BrokerTypes, Records, NoRecord
<1>8. PlaceTypes' /\ pc[c] \in Outer /\ \A d \in Commands \ {c} : tries'[d] = tries[d]
  BY <1>2, ConstantsAssumption DEF Spawn, At, PlaceTypes, Outer, Places
<1>9. Inspecting(c)'
  BY <1>2, <1>8 DEF Inspecting, Outer
<1>10. ASSUME NEW d \in Commands \ {c} PROVE Inspecting(d)'
  BY <1>2, <1>5, <1>8, <1>10, Untouched DEF Inspected
<1> QED BY <1>4, <1>5, <1>6, <1>7, <1>8, <1>9, <1>10 DEF World, Inspected

\* The record that is cleared is that of a broker seen to have exited, so no
\* broker that serves loses its own.
LEMMA ClearStep ==
  ASSUME BrokerTypes, PlaceTypes, World, RecordSound, Inspected, NEW c \in Commands,
         ClearStaleRecord(c)
  PROVE  BrokerTypes' /\ World' /\ RecordSound' /\ Aged /\ PlaceTypes' /\ Inspected'
<1>1. UNCHANGED <<proc, pid, occupant, lease, rewrites, asked, harmed>>
  BY DEF ClearStaleRecord, processes
<1>2. pc[c] \notin Outer /\ Gone(c)
  BY DEF ClearStaleRecord, At, Outer, Inspected, Inspecting
<1>3. record' = record \/ (record' = NoRecord /\ record \in {snap[c], NoRecord})
  BY DEF ClearStaleRecord
<1>4. BrokerTypes' /\ Aged
  BY <1>1, <1>3, NoRecordIsRecord DEF BrokerTypes, Aged
<1>5. ASSUME NEW d \in Brokers PROVE Leased(d)' /\ Placed(d)' /\ Published(d)'
  <2>1. proc[d] \in {"serving", "stopping", "closed"} => record.broker = d /\ record # NoRecord
    BY ConstantsAssumption DEF World, Published, NoRecord
  <2>2. proc[d] \in {"serving", "stopping", "closed"} => record' = record
    BY <1>2, <1>3, <2>1 DEF Gone
  <2> QED BY <1>1, <2>2 DEF World, Leased, Placed, Published, Alive
<1>6. RecordSound'
  BY <1>1, <1>3, NoRecordIsRecord DEF RecordSound
<1>7. Retry(c) \/ Stopped(c)
  BY DEF ClearStaleRecord
<1>8. PlaceTypes' /\ Inspected'
  BY <1>2, <1>4, <1>7, WithinRounds, GoingBack
<1> QED BY <1>4, <1>5, <1>6, <1>8 DEF World

\* A shutdown request changes only who has been asked.
LEMMA RequestStep ==
  ASSUME BrokerTypes, PlaceTypes, World, RecordSound, Inspected, NEW c \in Commands,
         RequestShutdown(c)
  PROVE  BrokerTypes' /\ World' /\ RecordSound' /\ Aged /\ PlaceTypes' /\ Inspected'
<1>1. UNCHANGED <<proc, pid, occupant, lease, record, rewrites>>
  BY DEF RequestShutdown, processes
<1>2. pc[c] \notin Outer /\ ident[c] = snap[c].broker /\ snap[c].broker \in Brokers
  BY DEF RequestShutdown, At, Outer, Inspected, Inspecting, PlaceTypes, Records
<1>3. BrokerTypes' /\ RecordSound' /\ Aged
  BY <1>1, <1>2 DEF RequestShutdown, BrokerTypes, RecordSound, Aged
<1>4. World'
  BY <1>1 DEF World, Leased, Placed, Published, Alive
<1>5. Goto(c, "grace") \/ Goto(c, "force")
  BY DEF RequestShutdown
<1>6. PlaceTypes' /\ Inspected'
  BY <1>2, <1>3, <1>5, GoingOn DEF Places, Outer
<1> QED BY <1>3, <1>4, <1>6

\* A command starts by reading the record.
LEMMA CallStep ==
  ASSUME BrokerTypes, PlaceTypes, World, RecordSound, Inspected, NEW c \in Commands,
         NEW what \in {"ensure", "restart", "stop"}, Call(c, what)
  PROVE  BrokerTypes' /\ World' /\ RecordSound' /\ Aged /\ PlaceTypes' /\ Inspected'
<1>1. BrokerTypes' /\ World' /\ RecordSound' /\ Aged
  BY Looking DEF Call
<1>2. PlaceTypes'
  BY DEF Call, PlaceTypes, Places, Outer
<1>3. Leaves(c)
  BY DEF Call, PlaceTypes, Leaves, Places, Outer
<1> QED BY <1>1, <1>2, <1>3, LeavesInspecting DEF Inspected

\* Every step keeps the brokers in order and the commands well informed.
LEMMA SurroundingsKept ==
  ASSUME BrokerTypes, PlaceTypes, World, RecordSound, Inspected, Next
  PROVE  BrokerTypes' /\ World' /\ RecordSound' /\ Aged /\ PlaceTypes' /\ Inspected'
<1>1. CASE \E b \in Brokers : BrokerStep(b)
  <2>1. BrokerTypes' /\ World' /\ RecordSound' /\ Aged
    BY <1>1, BrokerSteps
  <2>2. UNCHANGED place
    BY <1>1 DEF BrokerStep, AcquireLease, Listen, Persist, Rewrite, BeginShutdown, CloseServer,
                ClearOwnRecord, ReleaseLease, Exit, BrokerOnly
  <2>3. PlaceTypes'
    BY <2>2 DEF place, PlaceTypes
  <2>4. Inspected'
    BY <2>1, <2>2, Untouched DEF place, Inspected
  <2> QED BY <2>1, <2>3, <2>4
<1>2. CASE \E p \in Pids : OtherStarts(p) \/ OtherExits(p)
  <2>1. PICK p \in Pids : OtherStarts(p) \/ OtherExits(p)
    BY <1>2
  <2>2. UNCHANGED <<proc, pid, lease, record, rewrites, asked, place>>
    BY <2>1 DEF OtherStarts, OtherExits
  <2>3. /\ occupant' \in [Pids -> Brokers \cup {Other, Nobody}]
        /\ \A q \in Pids : occupant[q] \in Brokers => occupant'[q] = occupant[q]
    BY <2>1, ConstantsAssumption DEF OtherStarts, OtherExits, BrokerTypes
  <2>4. BrokerTypes' /\ RecordSound' /\ Aged
    BY <2>2, <2>3 DEF BrokerTypes, RecordSound, Aged
  <2>5. World'
    BY <2>2, <2>3 DEF World, Leased, Placed, Published, Alive
  <2>6. PlaceTypes'
    BY <2>2 DEF place, PlaceTypes
  <2>7. Inspected'
    BY <2>2, <2>4, Untouched DEF place, Inspected
  <2> QED BY <2>4, <2>5, <2>6, <2>7
<1>3. ASSUME NEW c \in Commands, Looks(c)
      PROVE  BrokerTypes' /\ World' /\ RecordSound' /\ Aged /\ PlaceTypes' /\ Inspected'
  <2>1. Outside
    BY <1>3 DEF Looks, ReadRecord, FindNoRecord, TooManyRounds, SpawnFails, Probe, Unheard,
                CaptureIdentity, Confirm, Verify, Grace, BeforeForce, Drain, WaitEnds, Cancel,
                Signal, Reconcile
  <2> QED BY <1>3, <2>1, Looking, LookingSteps
<1>4. ASSUME NEW c \in Commands, CommandStep(c) \/ WaitEnds(c) \/ Cancel(c)
      PROVE  Looks(c) \/ Spawn(c) \/ ClearStaleRecord(c) \/ RequestShutdown(c)
  BY <1>4 DEF CommandStep, Looks
<1> QED BY <1>1, <1>2, <1>3, <1>4, SpawnStep, ClearStep, RequestStep, CallStep DEF Next
-----------------------------------------------------------------------------
(* What the history records.                                               *)

\* A broker is reported as stopped when it is known to have exited, which
\* stays so, and a broker is signalled under its own identity.
LEMMA HistoryKept ==
  ASSUME BrokerTypes, PlaceTypes, OustedTypes, Inspected, Aged, Next, harmed = FALSE,
         \A d \in Commands : OustedGone(d)
  PROVE  OustedTypes' /\ harmed' = FALSE /\ \A d \in Commands : OustedGone(d)'
<1>1. ASSUME NEW c \in Commands, NEW b \in Brokers \cup {Nobody},
             ousted' = [ousted EXCEPT ![c] = b], b # Nobody => proc[b] = "gone"
      PROVE  OustedTypes' /\ \A d \in Commands : OustedGone(d)'
  BY <1>1 DEF OustedTypes, OustedGone, Aged
<1>2. ASSUME UNCHANGED ousted
      PROVE  OustedTypes' /\ \A d \in Commands : OustedGone(d)'
  BY <1>2 DEF OustedTypes, OustedGone, Aged
<1>3. CASE UNCHANGED history
  BY <1>2, <1>3 DEF history
<1>4. CASE \E c \in Commands, what \in {"ensure", "restart", "stop"} : Call(c, what)
  <2>1. PICK c \in Commands, what \in {"ensure", "restart", "stop"} : Call(c, what)
    BY <1>4
  <2> QED BY <1>1, <2>1 DEF Call
<1>5. ASSUME NEW c \in Commands, ClearStaleRecord(c) \/ Reconcile(c)
      PROVE  OustedTypes' /\ harmed' = FALSE /\ \A d \in Commands : OustedGone(d)'
  <2>1. harmed' = harmed
    BY <1>5 DEF ClearStaleRecord, Reconcile
  <2>2. snap[c].broker \in Brokers /\ Gone(c)
    BY <1>5 DEF ClearStaleRecord, Reconcile, At, Inspected, Inspecting, PlaceTypes, Records, Outer
  <2>3. ousted' = ousted \/ ousted' = [ousted EXCEPT ![c] = snap[c].broker]
    BY <1>5 DEF ClearStaleRecord, Reconcile
  <2> QED BY <1>1, <1>2, <2>1, <2>2, <2>3 DEF Gone
<1>6. ASSUME NEW c \in Commands, Signal(c)
      PROVE  OustedTypes' /\ harmed' = FALSE /\ \A d \in Commands : OustedGone(d)'
  <2>1. ident[c] = snap[c].broker
    BY <1>6 DEF Signal, At, Inspected, Inspecting
  <2> QED BY <1>2, <1>6, <2>1 DEF Signal
<1>7. ASSUME NEW b \in Brokers, BrokerStep(b) PROVE UNCHANGED history
  BY <1>7 DEF BrokerStep, AcquireLease, Listen, Persist, Rewrite, BeginShutdown, CloseServer,
              ClearOwnRecord, ReleaseLease, Exit, BrokerOnly
<1>8. ASSUME NEW p \in Pids, OtherStarts(p) \/ OtherExits(p) PROVE UNCHANGED history
  BY <1>8 DEF OtherStarts, OtherExits
<1>9. ASSUME NEW c \in Commands, CommandStep(c) \/ WaitEnds(c) \/ Cancel(c)
      PROVE  UNCHANGED history \/ ClearStaleRecord(c) \/ Reconcile(c) \/ Signal(c)
  BY <1>9 DEF CommandStep, WaitEnds, Cancel, ReadRecord, FindNoRecord, TooManyRounds, Spawn,
              SpawnFails, Probe, Unheard, CaptureIdentity, Confirm, Verify, RequestShutdown,
              Grace, BeforeForce, Drain
<1> QED BY <1>3, <1>4, <1>5, <1>6, <1>7, <1>8, <1>9 DEF Next
-----------------------------------------------------------------------------
\* The lease, the pids, the record and what every command knows of them agree
\* in every reachable state, for any number of commands, brokers and rounds.
THEOREM BrokerageInvariant == Spec => []Brokerage
<1>1. Brokerage /\ [Next]_vars => Brokerage'
  <2> SUFFICES ASSUME Brokerage, [Next]_vars PROVE Brokerage'
    OBVIOUS
  <2>1. CASE Next
    <3>1. /\ BrokerTypes /\ PlaceTypes /\ OustedTypes /\ World /\ RecordSound
          /\ Inspected /\ harmed = FALSE /\ \A d \in Commands : OustedGone(d)
      BY Parts DEF Inspected
    <3>2. BrokerTypes' /\ World' /\ RecordSound' /\ Aged /\ PlaceTypes' /\ Inspected'
      BY <2>1, <3>1, SurroundingsKept
    <3>3. OustedTypes' /\ harmed' = FALSE /\ \A d \in Commands : OustedGone(d)'
      BY <2>1, <3>1, <3>2, HistoryKept
    <3>4. \A d \in Commands : Inspecting(d)'
      BY <3>2 DEF Inspected
    <3> QED BY ONLY <3>2, <3>3, <3>4, PartsNext
  <2>2. CASE UNCHANGED vars
    <3>1. UNCHANGED <<proc, pid, occupant, lease, record, rewrites, asked, place, history>>
      BY <2>2 DEF vars, processes
    <3>2. BrokerTypes' /\ World' /\ RecordSound'
      BY <3>1, Parts DEF BrokerTypes, World, RecordSound, Leased, Placed, Published, Alive
    <3>3. PlaceTypes' /\ OustedTypes' /\ harmed' = FALSE
      BY <3>1, Parts DEF PlaceTypes, OustedTypes, place, history
    <3>4. \A d \in Commands : Inspecting(d)' /\ OustedGone(d)'
      BY <3>1, Parts DEF Inspecting, OustedGone, Gone, place, history
    <3> QED BY ONLY <3>2, <3>3, <3>4, PartsNext
  <2> QED BY <2>1, <2>2
<1> QED BY <1>1, BrokerageInit, PTL DEF Spec

\* Everything stays of its type.
THEOREM TypeCorrect == Spec => []TypeOK
<1>1. Brokerage => TypeOK
  BY DEF Brokerage
<1> QED BY <1>1, BrokerageInvariant, PTL

\* At most one broker answers requests, however many are spawned.
THEOREM OneBroker == Spec => []OneBrokerAnswers
<1>1. Brokerage => OneBrokerAnswers
  BY DEF Brokerage, OneBrokerAnswers, Answers, Leased, Holding
<1> QED BY <1>1, BrokerageInvariant, PTL

\* The record names the broker that serves until that broker clears it.
THEOREM ServesRecorded == Spec => []ServingIsRecorded
<1>1. Brokerage => ServingIsRecorded
  BY DEF Brokerage, ServingIsRecorded, Published
<1> QED BY <1>1, BrokerageInvariant, PTL

\* SIGTERM reaches no process but the broker that was inspected, whatever
\* becomes of its pid.
THEOREM Signalled == Spec => []OnlyBrokerSignalled
<1>1. Brokerage => OnlyBrokerSignalled
  BY DEF Brokerage, OnlyBrokerSignalled
<1> QED BY <1>1, BrokerageInvariant, PTL

\* A broker that is reported as stopped has exited.
THEOREM Stops == Spec => []StoppedHasExited
<1>1. Brokerage => StoppedHasExited
  BY DEF Brokerage, StoppedHasExited, OustedGone
<1> QED BY <1>1, BrokerageInvariant, PTL
=============================================================================
