--------------------------- MODULE CommandRequests ---------------------------
(***************************************************************************)
(* CommandRequestService (src/command-requests/service.ts) over its store, *)
(* the runs it launches, and crashes and restarts of the broker.           *)
(*                                                                         *)
(* Every operation runs in the service's mutex and reads nothing before    *)
(* it, so one that awaits nothing is one action, and a call that queues is *)
(* one that has not been made yet.  Only an approval awaits, for its run   *)
(* to start; the queue then waits for it.  Of a run this module keeps what *)
(* CommandRun promises.                                                    *)
(***************************************************************************)
EXTENDS Integers

CONSTANTS
  Ids,        \* request ids; each is given out once
  Nobody,
  Window,     \* WINDOW_MS: how long a request is pending, and a result readable
  MaxTime, MaxFaults, MaxRestarts   \* bounds of the model

ASSUME ConstantsAssumption ==
  /\ Nobody \notin Ids
  /\ Window \in Nat \ {0}
  /\ MaxTime \in Nat /\ MaxFaults \in Nat /\ MaxRestarts \in Nat

VARIABLES
  rec,       \* durable records: status, and when it expires or was resolved
  now,
  service,   \* "starting", "ready", "unavailable", or "closed": close() returned
  active,    \* the request whose run occupies the service, or Nobody
  blocked, closing,
  approving, \* the approval that awaits run.started inside the mutex, or Nobody
  settling,  \* runs whose completion has not had its turn in the mutex yet
  awaited,   \* the run that close() waits for, or Nobody
  run,       \* each run: started, claimed and outcome, as in CommandRun
  faults, restarts,
  attempts,  \* history: launches of each request
  live,      \* history: requests launched since the broker was started
  unsynced,  \* history: claims that landed although persisting them failed
  lost       \* history: requests whose result could not be persisted, since
             \* the broker was started

memory == <<active, blocked, closing, approving, settling, awaited>>
bounds == <<faults, restarts>>
history == <<attempts, live, unsynced, lost>>
vars == <<rec, now, service, memory, run, bounds, history>>

Executed == {"completed", "failed", "interrupted"}
Terminal == Executed \cup {"rejected", "expired"}
NoRecord == [status |-> "none", at |-> 0]
NoRun == [started |-> "unasked", claimed |-> FALSE, outcome |-> "none"]

Init ==
  /\ rec = [i \in Ids |-> NoRecord]
  /\ now = 0
  /\ service = "starting"
  /\ active = Nobody /\ blocked = FALSE /\ closing = FALSE
  /\ approving = Nobody /\ settling = {} /\ awaited = Nobody
  /\ run = [i \in Ids |-> NoRun]
  /\ faults = 0 /\ restarts = 0
  /\ attempts = [i \in Ids |-> 0]
  /\ live = {} /\ unsynced = {} /\ lost = {}

Fault == faults < MaxFaults /\ faults' = faults + 1 /\ UNCHANGED restarts
NoFault == UNCHANGED bounds

Resolved(status) == [status |-> status, at |-> now]

\* project: what a record is at this time, whatever the store still says.
Projected(i) ==
  IF rec[i].status = "pending" /\ rec[i].at <= now
  THEN [rec[i] EXCEPT !.status = "expired"]
  ELSE rec[i]

PastWindow(r) == r.status \in Terminal /\ r.at + Window <= now

\* prune: the record of the active run is left alone.
Due ==
  {i \in Ids \ {active} : PastWindow(Projected(i)) \/ Projected(i).status # rec[i].status}

Pruned(S) ==
  [i \in Ids |-> IF i \notin S THEN rec[i]
                 ELSE IF PastWindow(Projected(i)) THEN [status |-> "removed", at |-> 0]
                 ELSE Projected(i)]

\* Persisting a record either works, or throws with the record as it was, or
\* throws with the record replaced (the directory could not be synced).
Landed(i, r) == rec' = [Pruned(Due) EXCEPT ![i] = r]
NotLanded == rec' = Pruned(Due)

\* The mutex is free, and requests still reach the service.
Serving == service \in {"ready", "closed"}
Turn == Serving /\ approving = Nobody
-----------------------------------------------------------------------------
(* Starting: whatever an earlier broker left running is interrupted.       *)

\* Mutant: an interrupted request may be approved again.
RecoverToPending(i) ==
  /\ service = "starting" /\ rec[i].status = "running"
  /\ rec' = [rec EXCEPT ![i].status = "pending"]
  /\ NoFault
  /\ UNCHANGED <<now, service, memory, run, history>>

Recover(i) ==
  /\ service = "starting" /\ rec[i].status = "running"
  /\ rec' = [rec EXCEPT ![i] = Resolved("interrupted")]
  /\ NoFault
  /\ UNCHANGED <<now, service, memory, run, history>>

Initialized ==
  /\ service = "starting"
  /\ \A i \in Ids : rec[i].status # "running"
  /\ rec' = Pruned(Due)
  /\ service' = "ready"
  /\ NoFault
  /\ UNCHANGED <<now, memory, run, history>>

\* A record cannot be read or persisted: the broker goes on without commands.
InitializeFails ==
  /\ service = "starting" /\ Fault
  /\ \/ UNCHANGED rec
     \/ \E i \in Ids : /\ rec[i].status = "running"
                       /\ rec' = [rec EXCEPT ![i] = Resolved("interrupted")]
     \/ /\ \A i \in Ids : rec[i].status # "running"
        /\ \E S \in SUBSET Due : rec' = Pruned(S)
  /\ service' = "unavailable"
  /\ UNCHANGED <<now, memory, run, history>>
-----------------------------------------------------------------------------
(* Operations that await nothing.                                          *)

\* Listing, expiring or removing fails: what was done before stands.
PruneFails ==
  /\ Turn /\ Fault
  /\ \E S \in SUBSET Due : rec' = Pruned(S)
  /\ UNCHANGED <<now, service, memory, run, history>>

Create(i) ==
  /\ Turn /\ rec[i].status = "none"
  /\ LET r == [status |-> "pending", at |-> now + Window]
     IN  \/ Landed(i, r) /\ (NoFault \/ Fault)
         \/ NotLanded /\ Fault
  /\ UNCHANGED <<now, service, memory, run, history>>

\* Mutant: what the store says is not projected to the present.
StoredPending(i) == rec[i].status = "pending"

Pending(i) == Projected(i).status = "pending"

Reject(i) ==
  /\ Turn /\ Pending(i)
  /\ \/ Landed(i, Resolved("rejected")) /\ (NoFault \/ Fault)
     \/ NotLanded /\ Fault
  /\ UNCHANGED <<now, service, memory, run, history>>

\* An approval or rejection of a request that is not pending, an approval
\* while a run is active or the service blocked, a target that is gone.
Refuse ==
  /\ Turn
  /\ rec' = Pruned(Due)
  /\ NoFault
  /\ UNCHANGED <<now, service, memory, run, history>>
-----------------------------------------------------------------------------
(* Approving.                                                              *)

Busy == active # Nobody \/ blocked \/ closing

\* The launch may fail at once, but even then the approval goes on only when
\* its promises are looked at.
Launch(i) ==
  /\ \/ run' = [run EXCEPT ![i].started = "waiting"] /\ UNCHANGED settling
     \/ /\ run' = [run EXCEPT ![i].started = "null", ![i].outcome = "failed"]
        /\ settling' = settling \cup {i}
  /\ active' = i /\ approving' = i
  /\ attempts' = [attempts EXCEPT ![i] = @ + 1]
  /\ live' = live \cup {i}

Claimed(i) == [rec[i] EXCEPT !.status = "running"]

\* Mutant: a busy service is not looked at.
ClaimBusy(i) ==
  /\ Turn /\ Pending(i) /\ ~blocked /\ ~closing
  /\ Landed(i, Claimed(i)) /\ NoFault
  /\ Launch(i)
  /\ UNCHANGED <<now, service, blocked, closing, awaited, unsynced, lost>>

\* The durable claim, and the launch in the same turn of the event loop.
Claim(i) ==
  /\ Turn /\ Pending(i) /\ ~Busy
  /\ Landed(i, Claimed(i)) /\ NoFault
  /\ Launch(i)
  /\ UNCHANGED <<now, service, blocked, closing, awaited, unsynced, lost>>

ClaimFails(i) ==
  /\ Turn /\ Pending(i) /\ ~Busy /\ Fault
  /\ \/ Landed(i, Claimed(i)) /\ unsynced' = unsynced \cup {i}
     \/ NotLanded /\ UNCHANGED unsynced
  /\ UNCHANGED <<now, service, memory, run, attempts, live, lost>>

\* Mutant: the slot is freed although the result could not be persisted.
FreeAnyway(i) ==
  /\ active' = Nobody /\ UNCHANGED blocked
  /\ \/ Landed(i, Resolved(run[i].outcome)) /\ NoFault /\ UNCHANGED lost
     \/ UNCHANGED rec /\ Fault /\ lost' = lost \cup {i}

\* resolve: the outcome is persisted and the service freed, or it is blocked.
\* Records are pruned afterwards; if that fails it is blocked all the same.
FreeAndPrune(i) ==
  LET r == Resolved(run[i].outcome)
  IN  \/ /\ active' = Nobody /\ UNCHANGED lost
         /\ \/ Landed(i, r) /\ NoFault /\ UNCHANGED blocked
            \/ /\ \E S \in SUBSET Due : rec' = [Pruned(S) EXCEPT ![i] = r]
               /\ blocked' = TRUE /\ Fault
      \/ /\ blocked' = TRUE /\ Fault
         /\ rec' \in {rec, [rec EXCEPT ![i] = r]}
         /\ lost' = lost \cup {i}
         /\ UNCHANGED active

\* Nothing was started: the approval resolves the request itself.
NotStarted(i) ==
  /\ approving = i /\ run[i].started = "null"
  /\ FreeAndPrune(i)
  /\ approving' = Nobody
  /\ UNCHANGED <<now, service, closing, settling, awaited, run, attempts, live, unsynced>>

\* The start time and the leader are persisted; otherwise the run must go.
Started(i) ==
  /\ approving = i /\ run[i].started = "yes"
  /\ approving' = Nobody
  /\ \/ NoFault /\ UNCHANGED <<blocked, run>>
     \/ /\ Fault /\ blocked' = TRUE
        /\ run' = IF run[i].outcome = "none" THEN [run EXCEPT ![i].claimed = TRUE] ELSE run
  /\ UNCHANGED <<rec, now, service, active, closing, settling, awaited, history>>
-----------------------------------------------------------------------------
(* The runs of this broker.                                                *)

Running(i) == i \in live /\ run[i].started # "unasked" /\ run[i].outcome = "none"

Confirm(i) ==
  /\ Running(i) /\ run[i].started = "waiting"
  /\ run' = [run EXCEPT ![i].started = "yes"]
  /\ NoFault
  /\ UNCHANGED <<rec, now, service, memory, history>>

\* Mutant: nobody waits for the run to be done.
EndRunUnheard(i, outcome) ==
  /\ run' = [run EXCEPT ![i].outcome = outcome,
                        ![i].started = IF @ = "waiting" THEN "null" ELSE @,
                        ![i].claimed = @ \/ outcome = "interrupted"]
  /\ NoFault
  /\ UNCHANGED <<rec, now, service, memory, history>>

\* The completion of the run queues for the mutex.
EndRun(i, outcome) ==
  /\ run' = [run EXCEPT ![i].outcome = outcome,
                        ![i].started = IF @ = "waiting" THEN "null" ELSE @,
                        ![i].claimed = @ \/ outcome = "interrupted"]
  /\ settling' = settling \cup {i}
  /\ NoFault
  /\ UNCHANGED <<rec, now, service, active, blocked, closing, approving, awaited, history>>

RunFails(i) == Running(i) /\ run[i].started = "waiting" /\ EndRun(i, "failed")
RunCompletes(i) == Running(i) /\ run[i].started = "yes" /\ ~run[i].claimed /\ EndRun(i, "completed")
RunInterrupted(i) == Running(i) /\ EndRun(i, "interrupted")

\* The queued completion gets its turn; the approval may have been faster.
Settle(i) ==
  /\ i \in settling /\ approving = Nobody
  /\ settling' = settling \ {i}
  /\ IF active = i
     THEN FreeAndPrune(i)
     ELSE UNCHANGED <<rec, active, blocked, lost>> /\ NoFault
  /\ UNCHANGED <<now, service, closing, approving, awaited, run, attempts, live, unsynced>>
-----------------------------------------------------------------------------
(* Shutdown, restart and time.                                             *)

\* Mutant: a shutdown does not interrupt the run it waits for.
CloseWaiting ==
  /\ service = "ready" /\ ~closing
  /\ closing' = TRUE /\ awaited' = active
  /\ NoFault
  /\ UNCHANGED <<rec, now, service, active, blocked, approving, settling, run, history>>

Close ==
  /\ service = "ready" /\ ~closing
  /\ closing' = TRUE /\ awaited' = active
  /\ run' = IF active # Nobody /\ run[active].outcome = "none"
            THEN [run EXCEPT ![active].claimed = TRUE] ELSE run
  /\ NoFault
  /\ UNCHANGED <<rec, now, service, active, blocked, approving, settling, history>>

CloseReturns ==
  /\ service = "ready" /\ closing
  /\ awaited # Nobody => run[awaited].outcome # "none" /\ awaited \notin settling
  /\ service' = "closed"
  /\ NoFault
  /\ UNCHANGED <<rec, now, memory, run, history>>

\* The broker exits or dies, and another one is started.
Restart ==
  /\ restarts < MaxRestarts /\ restarts' = restarts + 1 /\ UNCHANGED faults
  /\ service' = "starting"
  /\ active' = Nobody /\ blocked' = FALSE /\ closing' = FALSE
  /\ approving' = Nobody /\ settling' = {} /\ awaited' = Nobody
  /\ live' = {} /\ lost' = {}
  /\ UNCHANGED <<rec, now, run, attempts, unsynced>>

Tick ==
  /\ now < MaxTime /\ now' = now + 1
  /\ NoFault
  /\ UNCHANGED <<rec, service, memory, run, history>>

Starting == (\E i \in Ids : Recover(i)) \/ Initialized \/ InitializeFails
Approving == \E i \in Ids : NotStarted(i) \/ Started(i)
RunEnds == \E i \in Ids : RunFails(i) \/ RunCompletes(i) \/ RunInterrupted(i)
ClaimedRunEnds == \E i \in Ids : run[i].claimed /\ RunInterrupted(i)
Settling == \E i \in Ids : Settle(i)

Next ==
  \/ Starting
  \/ PruneFails \/ Refuse
  \/ \E i \in Ids : Create(i) \/ Reject(i) \/ Claim(i) \/ ClaimFails(i)
  \/ Approving
  \/ \E i \in Ids : Confirm(i)
  \/ RunEnds
  \/ Settling
  \/ Close \/ CloseReturns
  \/ Restart
  \/ Tick

Spec == Init /\ [][Next]_vars

\* An approval resumes when its promise is answered, the queue of the mutex
\* moves on, close() returns, and a claimed interruption ends within the
\* cleanup budget of the runner.
FairSpec ==
  /\ Spec
  /\ WF_vars(Approving) /\ WF_vars(Settling) /\ WF_vars(CloseReturns)
  /\ WF_vars(ClaimedRunEnds)

-----------------------------------------------------------------------------
TypeOK ==
  /\ rec \in [Ids -> [status : {"none", "pending", "running", "removed"} \cup Terminal, at : Nat]]
  /\ now \in Nat
  /\ service \in {"starting", "ready", "unavailable", "closed"}
  /\ active \in Ids \cup {Nobody} /\ approving \in Ids \cup {Nobody}
  /\ awaited \in Ids \cup {Nobody}
  /\ blocked \in BOOLEAN /\ closing \in BOOLEAN
  /\ settling \subseteq Ids
  /\ run \in [Ids -> [started : {"unasked", "waiting", "null", "yes"}, claimed : BOOLEAN,
                      outcome : {"none"} \cup Executed]]
  /\ faults \in Nat /\ restarts \in Nat
  /\ attempts \in [Ids -> Nat]
  /\ live \subseteq Ids /\ unsynced \subseteq Ids /\ lost \subseteq Ids

\* A command is launched at most once, whatever is retried, lost or restarted.
OneAttempt == \A i \in Ids : attempts[i] <= 1

\* A launch is never forgotten: its durable record says that it ran, or is
\* past its retention; it does not say pending, rejected or expired.
AttemptIsRecorded ==
  \A i \in Ids : attempts[i] > 0 => rec[i].status \in Executed \cup {"running", "removed"}

\* At most one run of a broker has not been resolved.
OneUnresolvedRun ==
  \A i, j \in live : run[i].outcome = "none" /\ run[j].outcome = "none" => i = j

\* What a durable receipt says of the run is what became of it.
ReceiptsAreTruthful ==
  \A i \in Ids : rec[i].status \in {"completed", "failed"} => run[i].outcome = rec[i].status

\* A ready service holds no record as running except that of its active run,
\* or one whose claim landed although persisting it failed.
RunningIsOwned ==
  Serving =>
    \A i \in Ids : rec[i].status = "running" => i = active \/ i \in unsynced

\* "V1 permits at most one running command per installation" (SPEC-004, 14).
OneRunningRecord ==
  Serving =>
    \A i, j \in Ids : rec[i].status = "running" /\ rec[j].status = "running" => i = j

\* After a result that could not be persisted, this broker launches nothing.
NoLaunchAfterLostResult ==
  [][\A i \in Ids : attempts'[i] # attempts[i] => lost = {}]_vars

\* What get() shows of a request.
Shown(i) ==
  IF blocked /\ active = i THEN "running"
  ELSE IF PastWindow(Projected(i)) THEN "removed"
  ELSE Projected(i).status

\* A reader who was told how a request ended is never told otherwise later.
ReadsNeverGoBack ==
  [][\A i \in Ids : Shown(i) \in Terminal => Shown(i)' \in {Shown(i), "removed"}]_vars

\* If every run ends, at its deadline if nothing else ends it, its slot is
\* freed, or the broker refuses further approvals, or is replaced.
SlotIsFreed ==
  WF_vars(RunEnds) => \A i \in Ids : active = i ~> active # i \/ blocked

\* A shutdown is not held up by the command that is running: it does not wait
\* for the deadline of the run.
ShutdownEnds == closing ~> service = "closed" \/ ~closing

Status == [i \in Ids |-> rec[i].status]

Lifecycle == INSTANCE CommandLifecycle WITH status <- Status

\* The durable records follow the lifecycle that SPEC-004 draws.
ImplementsLifecycle == Lifecycle!Spec
=============================================================================
