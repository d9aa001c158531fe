------------------------ MODULE CommandRequestsProofs ------------------------
(***************************************************************************)
(* Proofs about CommandRequests, for any set of requests and any number of *)
(* failures and restarts.  The argument is the invariant Ownership: a run  *)
(* that is not resolved belongs to the active request, a request that was  *)
(* launched is durably past pending, and a result that could not be        *)
(* persisted leaves the service blocked.                                   *)
(***************************************************************************)
EXTENDS CommandRequests, TLAPS

Records ==
  [status : {"none", "pending", "running", "removed"} \cup Terminal, at : Nat]

\* A service that is not serving holds nothing in memory.
IdleUnlessServing ==
  ~Serving => active = Nobody /\ approving = Nobody /\ settling = {} /\ live = {} /\ lost = {}

\* What has been launched, and what its promises say.
Launched ==
  \A i \in Ids :
    /\ attempts[i] \in {0, 1}
    /\ attempts[i] = 0 <=> run[i].started = "unasked"
    /\ run[i].started = "unasked" => run[i].outcome = "none"
    /\ run[i].started = "null" => run[i].outcome # "none"
    /\ i \in live => attempts[i] = 1
    /\ i \in settling => i \in live /\ run[i].outcome # "none"

\* Who occupies the service.
Occupied ==
  /\ \A i \in live : run[i].outcome = "none" => i = active
  /\ active # Nobody => active \in live /\ rec[active].status \in {"running", run[active].outcome}
  /\ approving # Nobody => approving = active
  /\ lost # {} => blocked

Ownership ==
  /\ TypeOK /\ IdleUnlessServing /\ Launched /\ Occupied
  /\ AttemptIsRecorded /\ ReceiptsAreTruthful /\ RunningIsOwned

\* Pruning only expires pending records and removes resolved ones.
LEMMA PruningMoves ==
  ASSUME TypeOK, NEW S \in SUBSET Due
  PROVE  /\ Pruned(S) \in [Ids -> Records]
         /\ active \in Ids => Pruned(S)[active] = rec[active]
         /\ \A i \in Ids :
              LET before == rec[i].status
                  after == Pruned(S)[i].status
              IN  \/ after = before
                  \/ before = "pending" /\ after \in {"expired", "removed"}
                  \/ before \in Terminal /\ after = "removed"
<1> USE DEF TypeOK, Records, Terminal, Executed
<1>1. ASSUME NEW i \in Ids
      PROVE  /\ Projected(i) \in Records
             /\ \/ Projected(i).status = rec[i].status
                \/ rec[i].status = "pending" /\ Projected(i).status = "expired"
  <2>1. CASE rec[i].status = "pending" /\ rec[i].at <= now
    <3>1. Projected(i) = [rec[i] EXCEPT !.status = "expired"]
      BY <2>1 DEF Projected
    <3>2. rec[i] \in Records
      OBVIOUS
    <3> QED
      BY <2>1, <3>1, <3>2
  <2>2. CASE ~(rec[i].status = "pending" /\ rec[i].at <= now)
    <3>1. Projected(i) = rec[i]
      BY <2>2 DEF Projected
    <3> QED
      BY <3>1
  <2> QED
    BY <2>1, <2>2
<1>2. ASSUME NEW i \in S
      PROVE  i \in Ids /\ (PastWindow(Projected(i)) \/ Projected(i).status # rec[i].status)
  BY <1>2 DEF Due
<1>3. [status |-> "removed", at |-> 0] \in Records
  OBVIOUS
<1>4. ASSUME NEW i \in Ids PROVE Pruned(S)[i] \in Records
  BY <1>1, <1>3 DEF Pruned
<1>5. ASSUME NEW i \in Ids
      PROVE  \/ Pruned(S)[i].status = rec[i].status
             \/ rec[i].status = "pending" /\ Pruned(S)[i].status \in {"expired", "removed"}
             \/ rec[i].status \in Terminal /\ Pruned(S)[i].status = "removed"
  <2>1. CASE i \notin S
    BY <2>1 DEF Pruned
  <2>2. CASE i \in S /\ PastWindow(Projected(i))
    <3>1. Projected(i).status \in Terminal
      BY <2>2 DEF PastWindow
    <3>2. Pruned(S)[i].status = "removed"
      BY <2>2 DEF Pruned
    <3> QED
      BY <1>1, <3>1, <3>2
  <2>3. CASE i \in S /\ ~PastWindow(Projected(i))
    <3>1. Pruned(S)[i] = Projected(i)
      BY <2>3 DEF Pruned
    <3> QED
      BY <1>1, <3>1
  <2> QED
    BY <2>1, <2>2, <2>3
<1>6. Pruned(S) \in [Ids -> Records]
  BY <1>4 DEF Pruned
<1>7. active \in Ids => Pruned(S)[active] = rec[active]
  BY DEF Pruned, Due
<1> QED
  BY <1>5, <1>6, <1>7

\* Between two versions of the records, one may be replaced by r and any
\* others pruned.
Replaces(i, r) ==
  /\ rec' \in [Ids -> Records]
  /\ rec'[i] = r
  /\ active \in Ids \ {i} => rec'[active] = rec[active]
  /\ \A j \in Ids \ {i} :
       \/ rec'[j].status = rec[j].status
       \/ rec[j].status = "pending" /\ rec'[j].status \in {"expired", "removed"}
       \/ rec[j].status \in Terminal /\ rec'[j].status = "removed"

\* Nothing but pruning happens to the records.
OnlyPrunes ==
  /\ rec' \in [Ids -> Records]
  /\ active \in Ids => rec'[active] = rec[active]
  /\ \A j \in Ids :
       \/ rec'[j].status = rec[j].status
       \/ rec[j].status = "pending" /\ rec'[j].status \in {"expired", "removed"}
       \/ rec[j].status \in Terminal /\ rec'[j].status = "removed"

\* A record that lands replaces one record and prunes others.
LEMMA LandingReplaces ==
  ASSUME TypeOK, NEW S \in SUBSET Due, NEW i \in Ids, NEW r \in Records,
         rec' = [Pruned(S) EXCEPT ![i] = r]
  PROVE  Replaces(i, r)
BY PruningMoves DEF Replaces

\* Pruning alone.
LEMMA PruningOnly ==
  ASSUME TypeOK, NEW S \in SUBSET Due, rec' = Pruned(S)
  PROVE  OnlyPrunes
BY PruningMoves DEF OnlyPrunes

\* A request that is still pending has not been launched.
LEMMA PendingIsFresh ==
  ASSUME Ownership, NEW i \in Ids, Pending(i)
  PROVE  /\ rec[i].status = "pending"
         /\ attempts[i] = 0 /\ i \notin live /\ i # active
         /\ run[i].started = "unasked"
<1>1. rec[i].status = "pending"
  BY DEF Pending, Projected, Ownership, TypeOK
<1>2. attempts[i] \in {0, 1} /\ attempts[i] = 0
  BY <1>1 DEF Ownership, Launched, AttemptIsRecorded, Executed
<1> QED
  BY <1>1, <1>2, ConstantsAssumption DEF Ownership, Launched, Occupied

\* Steps that leave the runs, the slot and the broker alone and only prune.
LEMMA PruningPreserves ==
  ASSUME Ownership, OnlyPrunes,
         faults' \in Nat, restarts' \in Nat, Serving,
         UNCHANGED <<now, service, memory, run, history>>
  PROVE  Ownership'
<1> USE DEF Ownership, OnlyPrunes, memory, history, Records
<1>1. TypeOK'
  BY DEF TypeOK
<1>2. IdleUnlessServing' /\ Launched'
  BY DEF IdleUnlessServing, Launched, Serving
<1>3. Occupied'
  BY DEF Occupied, TypeOK, Launched, AttemptIsRecorded, Executed, Terminal
<1>4. AttemptIsRecorded' /\ ReceiptsAreTruthful' /\ RunningIsOwned'
  BY DEF AttemptIsRecorded, ReceiptsAreTruthful, RunningIsOwned, Executed, Terminal, TypeOK, Serving
<1> QED
  BY <1>1, <1>2, <1>3, <1>4

\* Resolving the active request, once its run is done: what the approval and
\* the queued completion both do.
LEMMA FreeingPreserves ==
  ASSUME Ownership, NEW i \in Ids, active = i, Serving, run[i].outcome # "none",
         FreeAndPrune(i),
         approving' \in {approving, Nobody}, active # active' => approving' = Nobody,
         settling' \subseteq settling,
         UNCHANGED <<now, service, closing, awaited, run, attempts, live, unsynced>>
  PROVE  Ownership'
<1> USE DEF Ownership
<1> DEFINE r == Resolved(run[i].outcome)
<1>1. r \in Records /\ r.status = run[i].outcome /\ r.status \in Executed
  BY DEF Resolved, TypeOK, Records, Terminal
<1>2. {} \in SUBSET Due /\ Due \in SUBSET Due
  OBVIOUS
<1>3. \/ /\ active' = Nobody /\ UNCHANGED lost /\ (blocked => blocked') /\ blocked' \in BOOLEAN
         /\ Replaces(i, r)
      \/ /\ blocked' = TRUE /\ active' = active /\ lost' = lost \cup {i}
         /\ rec' \in {rec, [rec EXCEPT ![i] = r]}
  BY <1>1, <1>2, LandingReplaces DEF FreeAndPrune, Landed, TypeOK
<1>4. faults' \in Nat /\ restarts' \in Nat
  BY DEF FreeAndPrune, NoFault, Fault, bounds, TypeOK
<1>5. CASE /\ active' = Nobody /\ UNCHANGED lost /\ (blocked => blocked') /\ blocked' \in BOOLEAN
           /\ Replaces(i, r)
  <2> HIDE DEF r
  <2> USE <1>1, <1>4, <1>5, ConstantsAssumption DEF Replaces, Records
  <2>1. TypeOK'
    BY DEF TypeOK
  <2>2. IdleUnlessServing' /\ Launched'
    BY DEF IdleUnlessServing, Launched, Serving
  <2>3. Occupied'
    BY DEF Occupied, TypeOK
  <2>4. AttemptIsRecorded' /\ ReceiptsAreTruthful' /\ RunningIsOwned'
    BY DEF AttemptIsRecorded, ReceiptsAreTruthful, RunningIsOwned, Executed, Terminal, TypeOK, Serving
  <2> QED
    BY <2>1, <2>2, <2>3, <2>4
<1>6. CASE /\ blocked' = TRUE /\ active' = active /\ lost' = lost \cup {i}
           /\ rec' \in {rec, [rec EXCEPT ![i] = r]}
  <2> HIDE DEF r
  <2> USE <1>1, <1>4, <1>6, ConstantsAssumption DEF Records
  <2>1. TypeOK'
    BY DEF TypeOK
  <2>2. IdleUnlessServing' /\ Launched'
    BY DEF IdleUnlessServing, Launched, Serving
  <2>3. Occupied'
    BY DEF Occupied, TypeOK
  <2>4. AttemptIsRecorded' /\ ReceiptsAreTruthful' /\ RunningIsOwned'
    BY DEF AttemptIsRecorded, ReceiptsAreTruthful, RunningIsOwned, Executed, Terminal, TypeOK, Serving
  <2> QED
    BY <2>1, <2>2, <2>3, <2>4
<1> QED
  BY <1>3, <1>5, <1>6

\* Nothing has been launched when the first broker starts.
LEMMA InitEstablishes == Init => Ownership
<1> SUFFICES ASSUME Init PROVE Ownership
  OBVIOUS
<1> USE ConstantsAssumption DEF Init, NoRecord, NoRun
<1>1. TypeOK
  BY DEF TypeOK
<1>2. IdleUnlessServing /\ Launched /\ Occupied
  BY DEF IdleUnlessServing, Launched, Occupied, Serving
<1>3. AttemptIsRecorded /\ ReceiptsAreTruthful /\ RunningIsOwned
  BY DEF AttemptIsRecorded, ReceiptsAreTruthful, RunningIsOwned
<1> QED
  BY <1>1, <1>2, <1>3 DEF Ownership

\* A broker that starts owns nothing, and leaves nothing running.
LEMMA StartingPreserves == Ownership /\ Starting => Ownership'
<1> USE DEF Ownership
<1>1. ASSUME Ownership, NEW i \in Ids, service = "starting", rec[i].status = "running",
             rec' = [rec EXCEPT ![i] = Resolved("interrupted")],
             service' \in {"starting", "unavailable"}, faults' \in Nat, restarts' \in Nat,
             UNCHANGED <<now, memory, run, history>>
      PROVE  Ownership'
  <2> USE <1>1 DEF memory, history
  <2>1. Resolved("interrupted") \in Records /\ Resolved("interrupted").status = "interrupted"
    BY DEF Resolved, Records, Terminal, Executed, TypeOK
  <2>2. TypeOK'
    BY <2>1 DEF TypeOK, Records
  <2>3. active = Nobody /\ IdleUnlessServing' /\ Launched' /\ RunningIsOwned'
    BY DEF IdleUnlessServing, Launched, RunningIsOwned, Serving
  <2>4. Occupied'
    BY <2>3 DEF Occupied
  <2>5. AttemptIsRecorded' /\ ReceiptsAreTruthful'
    BY <2>1 DEF AttemptIsRecorded, ReceiptsAreTruthful, Executed, TypeOK
  <2> QED
    BY <2>2, <2>3, <2>4, <2>5
<1>2. ASSUME Ownership, service = "starting", OnlyPrunes, \A i \in Ids : rec[i].status # "running",
             service' \in {"ready", "unavailable"}, faults' \in Nat, restarts' \in Nat,
             UNCHANGED <<now, memory, run, history>>
      PROVE  Ownership'
  <2> USE <1>2 DEF memory, history, OnlyPrunes
  <2>1. TypeOK'
    BY DEF TypeOK, Records
  <2>2. active = Nobody /\ IdleUnlessServing' /\ Launched'
    BY DEF IdleUnlessServing, Launched, Serving
  <2>3. Occupied'
    BY <2>2 DEF Occupied
  <2>4. AttemptIsRecorded' /\ ReceiptsAreTruthful' /\ RunningIsOwned'
    BY DEF AttemptIsRecorded, ReceiptsAreTruthful, RunningIsOwned, Executed, Terminal, TypeOK
  <2> QED
    BY <2>1, <2>2, <2>3, <2>4
<1>3. ASSUME Ownership, NEW i \in Ids, Recover(i) PROVE Ownership'
  BY <1>1, <1>3 DEF Recover, NoFault, bounds, TypeOK
<1>4. ASSUME Ownership, Initialized PROVE Ownership'
  <2>1. OnlyPrunes
    BY <1>4, PruningOnly DEF Initialized
  <2> QED
    BY <1>2, <1>4, <2>1 DEF Initialized, NoFault, bounds, TypeOK
<1>5. ASSUME Ownership, InitializeFails PROVE Ownership'
  <2> USE <1>5
  <2>1. /\ service = "starting" /\ service' = "unavailable" /\ faults' \in Nat /\ restarts' \in Nat
        /\ UNCHANGED <<now, memory, run, history>>
    BY DEF InitializeFails, Fault, TypeOK
  <2>2. CASE UNCHANGED rec
    <3> USE <2>1, <2>2 DEF memory, history
    <3>1. TypeOK' /\ IdleUnlessServing' /\ Launched' /\ RunningIsOwned'
      BY DEF TypeOK, IdleUnlessServing, Launched, RunningIsOwned, Serving
    <3>2. Occupied' /\ AttemptIsRecorded' /\ ReceiptsAreTruthful'
      BY DEF Occupied, AttemptIsRecorded, ReceiptsAreTruthful
    <3> QED
      BY <3>1, <3>2
  <2>3. CASE \E i \in Ids : /\ rec[i].status = "running"
                            /\ rec' = [rec EXCEPT ![i] = Resolved("interrupted")]
    BY <1>1, <2>1, <2>3
  <2>4. CASE /\ \A i \in Ids : rec[i].status # "running"
             /\ \E S \in SUBSET Due : rec' = Pruned(S)
    <3>1. OnlyPrunes
      BY <2>4, PruningOnly
    <3> QED
      BY <1>2, <2>1, <2>4, <3>1
  <2> QED
    BY <2>2, <2>3, <2>4 DEF InitializeFails
<1> QED
  BY <1>3, <1>4, <1>5 DEF Starting

\* A request that was never launched is created, or rejected.
LEMMA LocalChangePreserves ==
  ASSUME Ownership, Serving, NEW i \in Ids, i # active, attempts[i] = 0,
         NEW r \in Records, r.status \in {"pending", "rejected"}, Replaces(i, r),
         faults' \in Nat, restarts' \in Nat,
         UNCHANGED <<now, service, memory, run, history>>
  PROVE  Ownership'
<1> USE ConstantsAssumption DEF Ownership, Replaces, memory, history, Records
<1>1. TypeOK'
  BY DEF TypeOK
<1>2. IdleUnlessServing' /\ Launched'
  BY DEF IdleUnlessServing, Launched, Serving
<1>3. Occupied'
  BY DEF Occupied, TypeOK
<1>4. \A j \in Ids : \/ rec'[j].status = rec[j].status
                     \/ rec'[j].status \notin Executed \cup {"running"}
                          /\ (j = i \/ rec[j].status \in Terminal \/ rec[j].status = "pending")
  BY DEF Executed, Terminal, TypeOK
<1>5. AttemptIsRecorded'
  BY DEF AttemptIsRecorded, Executed, Terminal, TypeOK
<1>6. ReceiptsAreTruthful' /\ RunningIsOwned'
  BY <1>4 DEF ReceiptsAreTruthful, RunningIsOwned, Executed, Serving
<1> QED
  BY <1>1, <1>2, <1>3, <1>5, <1>6

\* Operations that launch nothing.
LEMMA LocalOperationsPreserve ==
  ASSUME Ownership
  PROVE  /\ PruneFails => Ownership'
         /\ Refuse => Ownership'
         /\ \A i \in Ids : Create(i) \/ Reject(i) => Ownership'
<1> USE DEF Turn
<1>1. Due \in SUBSET Due /\ (NoFault \/ Fault => faults' \in Nat /\ restarts' \in Nat)
  BY DEF NoFault, Fault, bounds, Ownership, TypeOK
<1>2. (\E S \in SUBSET Due : rec' = Pruned(S)) => OnlyPrunes
  BY PruningOnly DEF Ownership
<1>3. PruneFails => Ownership'
  BY <1>1, <1>2, PruningPreserves DEF PruneFails
<1>4. Refuse => Ownership'
  BY <1>1, <1>2, PruningPreserves DEF Refuse
<1>5. ASSUME NEW i \in Ids, NEW r \in Records, r.status \in {"pending", "rejected"},
             i # active, attempts[i] = 0, Serving,
             Landed(i, r) \/ NotLanded, NoFault \/ Fault,
             UNCHANGED <<now, service, memory, run, history>>
      PROVE  Ownership'
  <2>1. CASE Landed(i, r)
    <3>1. Replaces(i, r)
      BY <1>1, <2>1, LandingReplaces DEF Landed, Ownership
    <3> QED
      BY <1>1, <1>5, <3>1, LocalChangePreserves
  <2>2. CASE NotLanded
    <3>1. OnlyPrunes
      BY <1>1, <1>2, <2>2 DEF NotLanded
    <3> QED
      BY <1>1, <1>5, <3>1, PruningPreserves
  <2> QED
    BY <1>5, <2>1, <2>2
<1>6. ASSUME NEW i \in Ids, Create(i) PROVE Ownership'
  <2>1. i # active /\ attempts[i] = 0
    BY <1>6, ConstantsAssumption
       DEF Create, Ownership, Launched, Occupied, AttemptIsRecorded, Executed, TypeOK
  <2> DEFINE r == [status |-> "pending", at |-> now + Window]
  <2>2. r \in Records /\ r.status \in {"pending", "rejected"}
    BY ConstantsAssumption DEF Records, Ownership, TypeOK
  <2>3. /\ Landed(i, r) \/ NotLanded
        /\ NoFault \/ Fault
        /\ Serving /\ UNCHANGED <<now, service, memory, run, history>>
    BY <1>6 DEF Create
  <2> HIDE DEF r
  <2> QED
    BY <1>5, <2>1, <2>2, <2>3
<1>7. ASSUME NEW i \in Ids, Reject(i) PROVE Ownership'
  <2>1. i # active /\ attempts[i] = 0
    BY <1>7, PendingIsFresh DEF Reject
  <2> DEFINE r == Resolved("rejected")
  <2>2. r \in Records /\ r.status \in {"pending", "rejected"}
    BY DEF Resolved, Records, Terminal, Ownership, TypeOK
  <2>3. /\ Landed(i, r) \/ NotLanded
        /\ NoFault \/ Fault
        /\ Serving /\ UNCHANGED <<now, service, memory, run, history>>
    BY <1>7 DEF Reject
  <2> HIDE DEF r
  <2> QED
    BY <1>5, <2>1, <2>2, <2>3
<1> QED
  BY <1>3, <1>4, <1>6, <1>7

\* A durable claim of a pending request, with its launch.
LEMMA ClaimPreserves == ASSUME Ownership, NEW i \in Ids, Claim(i) PROVE Ownership'
<1> USE ConstantsAssumption DEF Ownership
<1>1. /\ Serving /\ active = Nobody /\ approving = Nobody /\ blocked = FALSE
      /\ active' = i /\ approving' = i /\ live' = live \cup {i}
      /\ attempts' = [attempts EXCEPT ![i] = @ + 1]
      /\ UNCHANGED <<now, service, blocked, closing, awaited, unsynced, lost, faults, restarts>>
  BY DEF Claim, Turn, Busy, Launch, NoFault, bounds, TypeOK
<1>2. rec[i].status = "pending" /\ attempts[i] = 0 /\ i \notin live /\ run[i].started = "unasked"
  BY PendingIsFresh DEF Claim
<1>3. Claimed(i) \in Records /\ Claimed(i).status = "running"
  BY DEF Claimed, Records, TypeOK
<1>4. Replaces(i, Claimed(i))
  <2>1. Due \in SUBSET Due
    OBVIOUS
  <2> QED
    BY <1>3, <2>1, LandingReplaces DEF Claim, Landed
<1>5. /\ run' \in [Ids -> [started : {"unasked", "waiting", "null", "yes"}, claimed : BOOLEAN,
                          outcome : {"none"} \cup Executed]]
      /\ \A j \in Ids \ {i} : run'[j] = run[j]
      /\ \/ run'[i].started = "waiting" /\ run'[i].outcome = "none" /\ settling' = settling
         \/ /\ run'[i].started = "null" /\ run'[i].outcome = "failed"
            /\ settling' = settling \cup {i}
  <2> USE <1>2 DEF Launched, TypeOK, Executed
  <2>1. CASE run' = [run EXCEPT ![i].started = "waiting"] /\ UNCHANGED settling
    BY <2>1
  <2>2. CASE /\ run' = [run EXCEPT ![i].started = "null", ![i].outcome = "failed"]
             /\ settling' = settling \cup {i}
    BY <2>2
  <2> QED
    BY <2>1, <2>2 DEF Claim, Launch
<1>6. TypeOK'
  <2>1. /\ now' \in Nat /\ service' \in {"starting", "ready", "unavailable", "closed"}
        /\ active' \in Ids \cup {Nobody} /\ approving' \in Ids \cup {Nobody}
        /\ awaited' \in Ids \cup {Nobody} /\ blocked' \in BOOLEAN /\ closing' \in BOOLEAN
        /\ faults' \in Nat /\ restarts' \in Nat
        /\ live' \subseteq Ids /\ unsynced' \subseteq Ids /\ lost' \subseteq Ids
        /\ attempts' \in [Ids -> Nat]
    BY <1>1, <1>2 DEF TypeOK
  <2>2. settling' \subseteq Ids
    BY <1>5 DEF TypeOK
  <2>3. rec' \in [Ids -> Records]
    BY <1>4 DEF Replaces
  <2> QED
    BY <1>5, <2>1, <2>2, <2>3 DEF TypeOK, Records
<1>7. IdleUnlessServing'
  BY <1>1 DEF IdleUnlessServing, Serving
<1>8. Launched'
  BY <1>1, <1>2, <1>5 DEF Launched, TypeOK
<1>9. Occupied'
  BY <1>1, <1>3, <1>4, <1>5 DEF Occupied, Replaces, TypeOK
<1>10. AttemptIsRecorded'
  BY <1>1, <1>3, <1>4 DEF AttemptIsRecorded, Replaces, Executed, Terminal, TypeOK
<1>11. ReceiptsAreTruthful'
  BY <1>3, <1>4, <1>5 DEF ReceiptsAreTruthful, Replaces
<1>12. RunningIsOwned'
  BY <1>1, <1>4 DEF RunningIsOwned, Replaces, Serving
<1> QED
  BY <1>6, <1>7, <1>8, <1>9, <1>10, <1>11, <1>12

\* A claim that cannot be persisted: nothing is launched, but the record may
\* have landed.
LEMMA ClaimFailurePreserves == ASSUME Ownership, NEW i \in Ids, ClaimFails(i) PROVE Ownership'
<1> USE ConstantsAssumption DEF Ownership
<1>1. /\ Serving /\ active = Nobody
      /\ UNCHANGED <<now, service, active, blocked, closing, approving, settling, awaited,
                    run, attempts, live, lost>>
      /\ faults' \in Nat /\ restarts' \in Nat
  BY DEF ClaimFails, Turn, Busy, Fault, memory, TypeOK
<1>2. rec[i].status = "pending" /\ attempts[i] = 0 /\ i \notin live
  BY PendingIsFresh DEF ClaimFails
<1>3. Claimed(i) \in Records /\ Claimed(i).status = "running"
  BY DEF Claimed, Records, TypeOK
<1>4. Due \in SUBSET Due
  OBVIOUS
<1>5. CASE Landed(i, Claimed(i)) /\ unsynced' = unsynced \cup {i}
  <2>1. Replaces(i, Claimed(i))
    BY <1>3, <1>4, <1>5, LandingReplaces DEF Landed
  <2> USE <1>1, <1>2, <1>3, <1>5, <2>1 DEF Replaces, Records
  <2>2. TypeOK'
    BY DEF TypeOK
  <2>3. IdleUnlessServing' /\ Launched' /\ Occupied'
    BY DEF IdleUnlessServing, Launched, Occupied, Serving
  <2>4. AttemptIsRecorded'
    BY DEF AttemptIsRecorded, Executed, Terminal, TypeOK
  <2>5. ReceiptsAreTruthful' /\ RunningIsOwned'
    BY DEF ReceiptsAreTruthful, RunningIsOwned, Executed, Terminal, TypeOK, Serving
  <2> QED
    BY <2>2, <2>3, <2>4, <2>5
<1>6. CASE NotLanded /\ UNCHANGED unsynced
  <2>1. OnlyPrunes
    BY <1>4, <1>6, PruningOnly DEF NotLanded
  <2> QED
    BY <1>1, <1>6, <2>1, PruningPreserves DEF memory, history
<1> QED
  BY <1>5, <1>6 DEF ClaimFails

Runs ==
  [Ids -> [started : {"unasked", "waiting", "null", "yes"}, claimed : BOOLEAN,
           outcome : {"none"} \cup Executed]]

\* A run that was launched goes on, and its outcome is final.
RunsMoveOn ==
  /\ run' \in Runs
  /\ \A j \in Ids :
       /\ run'[j].started = "unasked" <=> run[j].started = "unasked"
       /\ run'[j].started = "null" => run'[j].outcome # "none"
       /\ run[j].outcome # "none" => run'[j].outcome = run[j].outcome
       /\ run'[j].outcome # run[j].outcome => run[j].started # "unasked"

\* Steps that only move runs on, give up their cleanup or queue their
\* completion.
LEMMA RunStepsPreserve ==
  ASSUME Ownership, service' = service \/ (service = "ready" /\ service' = "closed"),
         RunsMoveOn,
         settling' \subseteq Ids,
         \A j \in settling' : j \in settling \/ (j \in live /\ run'[j].outcome # "none"),
         approving' \in {approving, Nobody}, awaited' \in Ids \cup {Nobody},
         closing' \in BOOLEAN, blocked' \in BOOLEAN, blocked => blocked',
         now' \in Nat, faults' \in Nat, restarts' \in Nat,
         UNCHANGED <<rec, active, history>>
  PROVE  Ownership'
<1> USE ConstantsAssumption DEF Ownership, RunsMoveOn, Runs, history
<1>1. TypeOK'
  BY DEF TypeOK
<1>2. IdleUnlessServing'
  BY DEF IdleUnlessServing, Serving, TypeOK
<1>3. Launched'
  BY DEF Launched, TypeOK
<1>4. Occupied'
  BY DEF Occupied, TypeOK, Launched, AttemptIsRecorded, Executed
<1>5. AttemptIsRecorded' /\ RunningIsOwned'
  BY DEF AttemptIsRecorded, RunningIsOwned, Serving
<1>6. ReceiptsAreTruthful'
  BY DEF ReceiptsAreTruthful, Executed
<1> QED
  BY <1>1, <1>2, <1>3, <1>4, <1>5, <1>6

\* The three ways in which a step changes the runs.
LEMMA RunChanges ==
  ASSUME Ownership
  PROVE  /\ run' = run => RunsMoveOn
         /\ \A i \in Ids : run' = [run EXCEPT ![i].claimed = TRUE] => RunsMoveOn
         /\ \A i \in Ids : Confirm(i) => RunsMoveOn
         /\ \A i \in Ids : \A outcome \in Executed :
              Running(i) /\ EndRun(i, outcome) => RunsMoveOn /\ run'[i].outcome = outcome
<1> USE DEF RunsMoveOn, Runs, Ownership, TypeOK
<1>1. \A j \in Ids : run[j].started = "null" => run[j].outcome # "none"
  BY DEF Launched
<1>2. run' = run => RunsMoveOn
  BY <1>1
<1>3. ASSUME NEW i \in Ids, run' = [run EXCEPT ![i].claimed = TRUE] PROVE RunsMoveOn
  BY <1>1, <1>3
<1>4. ASSUME NEW i \in Ids, Confirm(i) PROVE RunsMoveOn
  BY <1>1, <1>4 DEF Confirm, Running
<1>5. ASSUME NEW i \in Ids, NEW outcome \in Executed, Running(i), EndRun(i, outcome)
      PROVE  RunsMoveOn /\ run'[i].outcome = outcome
  <2>1. run' = [run EXCEPT ![i].outcome = outcome,
                          ![i].started = IF @ = "waiting" THEN "null" ELSE @,
                          ![i].claimed = @ \/ outcome = "interrupted"]
    BY <1>5 DEF EndRun
  <2>2. /\ \A j \in Ids \ {i} : run'[j] = run[j]
        /\ run'[i] = [started |-> IF run[i].started = "waiting" THEN "null" ELSE run[i].started,
                      claimed |-> (run[i].claimed \/ outcome = "interrupted"),
                      outcome |-> outcome]
        /\ DOMAIN run' = Ids /\ run' = [j \in Ids |-> run'[j]]
    BY <2>1
  <2>3. run[i].outcome = "none" /\ run[i].started # "unasked"
    BY <1>5 DEF Running
  <2>4. outcome # "none"
    BY DEF Executed
  <2>5. run'[i] \in [started : {"unasked", "waiting", "null", "yes"}, claimed : BOOLEAN,
                     outcome : {"none"} \cup Executed]
    BY <2>2
  <2> HIDE DEF TypeOK
  <2>6. run' \in Runs
    BY <2>2, <2>5 DEF TypeOK
  <2> QED
    BY <1>1, <2>2, <2>3, <2>4, <2>6
<1> QED
  BY <1>2, <1>3, <1>4, <1>5

\* What a run's process, an approval that resumes, a shutdown or time does.
LEMMA RunEventsPreserve ==
  ASSUME Ownership
  PROVE  /\ \A i \in Ids : Confirm(i) \/ Started(i) => Ownership'
         /\ RunEnds \/ Close \/ CloseReturns \/ Tick => Ownership'
<1> USE DEF memory, bounds, NoFault, Fault
<1>1. /\ faults \in Nat /\ restarts \in Nat /\ now \in Nat /\ settling \subseteq Ids
      /\ awaited \in Ids \cup {Nobody} /\ active \in Ids \cup {Nobody}
      /\ closing \in BOOLEAN /\ blocked \in BOOLEAN
  BY DEF Ownership, TypeOK
<1>2. ASSUME NEW i \in Ids, Confirm(i) PROVE Ownership'
  <2>1. RunsMoveOn
    BY <1>2, RunChanges
  <2> QED
    BY <1>1, <1>2, <2>1, RunStepsPreserve DEF Confirm
<1>3. ASSUME NEW i \in Ids, Started(i) PROVE Ownership'
  <2>1. RunsMoveOn
    BY <1>3, RunChanges DEF Started
  <2>2. blocked' \in BOOLEAN /\ (blocked => blocked')
    BY <1>1, <1>3 DEF Started
  <2> QED
    BY <1>1, <1>3, <2>1, <2>2, RunStepsPreserve DEF Started
<1>4. ASSUME NEW i \in Ids, NEW outcome \in Executed, Running(i), EndRun(i, outcome)
      PROVE  Ownership'
  <2>1. RunsMoveOn /\ run'[i].outcome = outcome /\ outcome # "none"
    BY <1>4, RunChanges DEF Executed
  <2>2. settling' = settling \cup {i} /\ i \in live
    BY <1>4 DEF EndRun, Running
  <2>3. UNCHANGED <<rec, now, service, active, blocked, closing, approving, awaited, history, bounds>>
    BY <1>4 DEF EndRun
  <2> QED
    BY <1>1, <2>1, <2>2, <2>3, RunStepsPreserve
<1>5. RunEnds => Ownership'
  BY <1>4 DEF RunEnds, RunFails, RunCompletes, RunInterrupted, Executed
<1>6. CASE Close
  <2>1. RunsMoveOn
    BY <1>1, <1>6, RunChanges DEF Close
  <2> QED
    BY <1>1, <1>6, <2>1, RunStepsPreserve DEF Close
<1>7. CASE CloseReturns
  <2>1. RunsMoveOn
    BY <1>7, RunChanges DEF CloseReturns
  <2> QED
    BY <1>1, <1>7, <2>1, RunStepsPreserve DEF CloseReturns
<1>8. CASE Tick
  <2>1. RunsMoveOn
    BY <1>8, RunChanges DEF Tick
  <2> QED
    BY <1>1, <1>8, <2>1, RunStepsPreserve DEF Tick
<1> QED
  BY <1>2, <1>3, <1>5, <1>6, <1>7, <1>8

\* A new broker forgets its memory, not the records or what was launched.
LEMMA RestartPreserves == Ownership /\ Restart => Ownership'
<1> SUFFICES ASSUME Ownership, Restart PROVE Ownership'
  OBVIOUS
<1> USE ConstantsAssumption DEF Ownership, Restart
<1>1. TypeOK'
  <2>1. TypeOK
    OBVIOUS
  <2>2. restarts' \in Nat
    BY <2>1 DEF TypeOK
  <2>3. rec' = rec /\ run' = run /\ now' = now /\ attempts' = attempts /\ unsynced' = unsynced
    OBVIOUS
  <2> HIDE DEF Ownership
  <2> QED
    BY <2>1, <2>2, <2>3 DEF TypeOK
<1>2. IdleUnlessServing' /\ Launched' /\ Occupied' /\ RunningIsOwned'
  BY DEF IdleUnlessServing, Launched, Occupied, RunningIsOwned, Serving
<1>3. AttemptIsRecorded' /\ ReceiptsAreTruthful'
  BY DEF AttemptIsRecorded, ReceiptsAreTruthful
<1> QED
  BY <1>1, <1>2, <1>3

\* Both ways in which a run is resolved.
LEMMA ResolvingPreserves ==
  ASSUME Ownership, NEW i \in Ids, NotStarted(i) \/ Settle(i)
  PROVE  Ownership'
<1> USE ConstantsAssumption DEF Ownership
<1>1. CASE NotStarted(i)
  <2>1. active = i /\ Serving /\ run[i].outcome # "none"
    BY <1>1 DEF NotStarted, Occupied, Launched, IdleUnlessServing
  <2> QED
    BY <1>1, <2>1, FreeingPreserves DEF NotStarted
<1>2. CASE Settle(i) /\ active = i
  <2>1. Serving /\ run[i].outcome # "none"
    BY <1>2 DEF Settle, Launched, IdleUnlessServing
  <2> QED
    BY <1>2, <2>1, FreeingPreserves DEF Settle
<1>3. CASE Settle(i) /\ active # i
  <2>1. RunsMoveOn
    BY <1>3, RunChanges DEF Settle
  <2>2. /\ settling' = settling \ {i}
        /\ UNCHANGED <<rec, active, blocked, history, now, service, closing, approving, awaited,
                      run, bounds>>
    BY <1>3 DEF Settle, NoFault, history
  <2> QED
    BY <2>1, <2>2, RunStepsPreserve DEF TypeOK, bounds
<1> QED
  BY <1>1, <1>2, <1>3

\* Every step of the service preserves the invariant.
LEMMA NextPreserves == Ownership /\ [Next]_vars => Ownership'
<1> SUFFICES ASSUME Ownership, [Next]_vars PROVE Ownership'
  OBVIOUS
<1>1. CASE UNCHANGED vars
  <2> USE <1>1 DEF vars, memory, bounds, history, Ownership
  <2>1. TypeOK' /\ IdleUnlessServing' /\ Launched' /\ Occupied'
    BY DEF TypeOK, IdleUnlessServing, Launched, Occupied, Serving
  <2>2. AttemptIsRecorded' /\ ReceiptsAreTruthful' /\ RunningIsOwned'
    BY DEF AttemptIsRecorded, ReceiptsAreTruthful, RunningIsOwned, Serving
  <2> QED
    BY <2>1, <2>2
<1>2. Approving \/ Settling => Ownership'
  BY ResolvingPreserves, RunEventsPreserve DEF Approving, Settling
<1>3. \A i \in Ids : Claim(i) \/ ClaimFails(i) => Ownership'
  BY ClaimPreserves, ClaimFailurePreserves
<1>4. (\E i \in Ids : Create(i) \/ Reject(i) \/ Claim(i) \/ ClaimFails(i)) => Ownership'
  BY <1>3, LocalOperationsPreserve
<1>5. PruneFails \/ Refuse => Ownership'
  BY LocalOperationsPreserve
<1>6. (\E i \in Ids : Confirm(i)) => Ownership'
  BY RunEventsPreserve
<1>7. RunEnds \/ Close \/ CloseReturns \/ Tick => Ownership'
  BY RunEventsPreserve
<1>8. Starting \/ Restart => Ownership'
  BY StartingPreserves, RestartPreserves
<1> QED
  BY <1>1, <1>2, <1>4, <1>5, <1>6, <1>7, <1>8 DEF Next

\* The invariant holds of the service, through failures and restarts.
THEOREM OwnershipInvariant == Spec => []Ownership
BY InitEstablishes, NextPreserves, PTL DEF Spec

\* The variables of the service keep their types.
THEOREM TypeCorrect == Spec => []TypeOK
BY OwnershipInvariant, PTL DEF Ownership

\* A command is launched at most once, whatever fails or restarts.
THEOREM LaunchedOnce == Spec => []OneAttempt
<1>1. Ownership => OneAttempt
  <2>1. ASSUME Ownership, NEW i \in Ids PROVE attempts[i] <= 1
    <3>1. attempts[i] = 0 \/ attempts[i] = 1
      BY <2>1 DEF Ownership, Launched
    <3> QED
      BY <3>1
  <2> QED
    BY <2>1 DEF OneAttempt
<1> QED
  BY <1>1, OwnershipInvariant, PTL

\* A command that was launched is never durably pending, rejected or expired.
THEOREM AttemptsAreRecorded == Spec => []AttemptIsRecorded
BY OwnershipInvariant, PTL DEF Ownership

\* A broker has at most one run that is not resolved.
THEOREM OneRun == Spec => []OneUnresolvedRun
<1>1. Ownership => OneUnresolvedRun
  BY DEF Ownership, Occupied, OneUnresolvedRun
<1> QED
  BY <1>1, OwnershipInvariant, PTL

\* A durable receipt says of the run what became of it.
THEOREM TruthfulReceipts == Spec => []ReceiptsAreTruthful
BY OwnershipInvariant, PTL DEF Ownership

\* A running record is that of the active run, or of a claim that landed
\* although persisting it failed.
THEOREM RunningOwned == Spec => []RunningIsOwned
BY OwnershipInvariant, PTL DEF Ownership

\* What a step may do to the record and the launches of a request, in terms
\* of the lifecycle of SPEC-004.
FollowsLifecycle ==
  /\ rec' \in [Ids -> Records]
  /\ \A j \in Ids :
       /\ rec'[j].status = rec[j].status \/ Lifecycle!Moves(rec[j].status, rec'[j].status)
       /\ attempts'[j] = attempts[j] \/ Lifecycle!Launches(j)

\* Pruning, creating, resolving and claiming, one record at a time.
LEMMA ReplacingFollows ==
  ASSUME NEW i \in Ids, NEW r \in Records,
         \/ Replaces(i, r) \/ OnlyPrunes
         \/ rec \in [Ids -> Records] /\ rec' \in {rec, [rec EXCEPT ![i] = r]},
         rec[i].status = r.status \/ Lifecycle!Moves(rec[i].status, r.status)
  PROVE  /\ rec' \in [Ids -> Records]
         /\ \A j \in Ids :
              rec'[j].status = rec[j].status \/ Lifecycle!Moves(rec[j].status, rec'[j].status)
BY DEF Replaces, OnlyPrunes, Lifecycle!Moves, Lifecycle!Executed, Lifecycle!Dismissed, Terminal, Executed

\* Every step of the service is a step of the lifecycle, or none.
LEMMA StepsFollow == Ownership /\ [Next]_vars => FollowsLifecycle
<1> SUFFICES ASSUME Ownership, [Next]_vars PROVE FollowsLifecycle
  OBVIOUS
<1> USE DEF FollowsLifecycle
<1>1. TypeOK /\ rec \in [Ids -> Records] /\ Due \in SUBSET Due
  BY DEF Ownership, TypeOK, Records
<1>2. ASSUME UNCHANGED <<rec, attempts>> PROVE FollowsLifecycle
  BY <1>1, <1>2
<1>3. ASSUME OnlyPrunes, UNCHANGED attempts PROVE FollowsLifecycle
  BY <1>3 DEF OnlyPrunes, Lifecycle!Moves, Lifecycle!Executed, Lifecycle!Dismissed, Terminal, Executed
<1>4. ASSUME NEW i \in Ids, NEW r \in Records, UNCHANGED attempts,
             Landed(i, r) \/ NotLanded \/ rec' = [rec EXCEPT ![i] = r]
               \/ (\E S \in SUBSET Due : rec' = [Pruned(S) EXCEPT ![i] = r]),
             rec[i].status = r.status \/ Lifecycle!Moves(rec[i].status, r.status)
      PROVE  FollowsLifecycle
  <2>1. Replaces(i, r) \/ OnlyPrunes \/ rec' = [rec EXCEPT ![i] = r]
    BY <1>1, <1>4, LandingReplaces, PruningOnly DEF Landed, NotLanded
  <2> QED
    BY <1>1, <1>4, <2>1, ReplacingFollows
<1>5. /\ Resolved("interrupted") \in Records /\ Resolved("interrupted").status = "interrupted"
      /\ Resolved("rejected") \in Records /\ Resolved("rejected").status = "rejected"
  BY <1>1 DEF Resolved, Records, Terminal, Executed, TypeOK
<1> USE DEF history
<1>6. Starting => FollowsLifecycle
  <2>1. ASSUME NEW i \in Ids, rec[i].status = "running", UNCHANGED attempts,
               rec' = [rec EXCEPT ![i] = Resolved("interrupted")]
        PROVE  FollowsLifecycle
    BY <1>4, <1>5, <2>1 DEF Lifecycle!Moves, Lifecycle!Executed
  <2>2. (\E S \in SUBSET Due : rec' = Pruned(S)) => OnlyPrunes
    BY <1>1, PruningOnly
  <2>3. \A i \in Ids : Recover(i) => FollowsLifecycle
    BY <2>1 DEF Recover
  <2>4. Initialized => FollowsLifecycle
    BY <1>1, <1>3, <2>2 DEF Initialized
  <2>5. InitializeFails => FollowsLifecycle
    BY <1>2, <1>3, <2>1, <2>2 DEF InitializeFails
  <2> QED
    BY <2>3, <2>4, <2>5 DEF Starting
<1>7. PruneFails \/ Refuse => FollowsLifecycle
  BY <1>1, <1>3, PruningOnly DEF PruneFails, Refuse
<1>8. ASSUME NEW i \in Ids, Create(i) PROVE FollowsLifecycle
  <2> DEFINE r == [status |-> "pending", at |-> now + Window]
  <2>1. r \in Records /\ r.status = "pending"
    BY <1>1, ConstantsAssumption DEF Records, TypeOK
  <2>2. (Landed(i, r) \/ NotLanded) /\ rec[i].status = "none" /\ UNCHANGED attempts
    BY <1>8 DEF Create
  <2> HIDE DEF r
  <2> QED
    BY <1>4, <2>1, <2>2 DEF Lifecycle!Moves
<1>9. ASSUME NEW i \in Ids, Reject(i) PROVE FollowsLifecycle
  <2>1. rec[i].status = "pending"
    BY <1>9, PendingIsFresh DEF Reject
  <2>2. (Landed(i, Resolved("rejected")) \/ NotLanded) /\ UNCHANGED attempts
    BY <1>9 DEF Reject
  <2> QED
    BY <1>4, <1>5, <2>1, <2>2 DEF Lifecycle!Moves, Lifecycle!Dismissed
<1>10. ASSUME NEW i \in Ids, Pending(i)
       PROVE  /\ rec[i].status = "pending" /\ attempts[i] = 0
              /\ Claimed(i) \in Records /\ Claimed(i).status = "running"
  BY <1>1, <1>10, PendingIsFresh DEF Claimed, Records
<1>11. ASSUME NEW i \in Ids, Claim(i) PROVE FollowsLifecycle
  <2>1. Replaces(i, Claimed(i))
    BY <1>1, <1>10, <1>11, LandingReplaces DEF Claim, Landed
  <2>2. /\ attempts' = [attempts EXCEPT ![i] = @ + 1] /\ attempts[i] = 0
        /\ rec[i].status = "pending" /\ Claimed(i).status = "running"
    BY <1>10, <1>11 DEF Claim, Launch
  <2>3. /\ rec' \in [Ids -> Records]
        /\ \A j \in Ids :
             rec'[j].status = rec[j].status \/ Lifecycle!Moves(rec[j].status, rec'[j].status)
    BY <1>10, <1>11, <2>1, <2>2, ReplacingFollows DEF Claim, Lifecycle!Moves
  <2>4. attempts'[i] = 1 /\ rec'[i].status = "running" /\ (\A j \in Ids \ {i} : attempts'[j] = attempts[j])
    BY <1>1, <2>1, <2>2 DEF TypeOK, Replaces
  <2>5. Lifecycle!Launches(i)
    BY <2>2, <2>3, <2>4 DEF Lifecycle!Launches, Status
  <2> QED
    BY <2>3, <2>4, <2>5
<1>12. ASSUME NEW i \in Ids, ClaimFails(i) PROVE FollowsLifecycle
  BY <1>4, <1>10, <1>12 DEF ClaimFails, Lifecycle!Moves
<1>13. ASSUME NEW i \in Ids, NotStarted(i) \/ Settle(i) PROVE FollowsLifecycle
  <2>1. CASE FreeAndPrune(i) /\ active = i /\ run[i].outcome # "none" /\ UNCHANGED attempts
    <3> DEFINE r == Resolved(run[i].outcome)
    <3>1. r \in Records /\ r.status = run[i].outcome /\ r.status \in Executed
      BY <1>1, <2>1 DEF Resolved, TypeOK, Records, Terminal
    <3>2. rec[i].status \in {"running", run[i].outcome}
      BY <2>1, ConstantsAssumption DEF Ownership, Occupied
    <3>3. rec[i].status = r.status \/ Lifecycle!Moves(rec[i].status, r.status)
      BY <3>1, <3>2 DEF Lifecycle!Moves, Lifecycle!Executed, Executed
    <3>4. rec' = rec \/ Landed(i, r) \/ rec' = [rec EXCEPT ![i] = r]
            \/ \E S \in SUBSET Due : rec' = [Pruned(S) EXCEPT ![i] = r]
      BY <2>1 DEF FreeAndPrune
    <3> HIDE DEF r
    <3> QED
      BY <1>2, <1>4, <2>1, <3>1, <3>3, <3>4
  <2>2. CASE UNCHANGED <<rec, attempts>>
    BY <1>2, <2>2
  <2>3. run[i].started = "null" \/ i \in settling => run[i].outcome # "none"
    BY DEF Ownership, Launched
  <2>4. approving = i => active = i
    BY ConstantsAssumption DEF Ownership, Occupied
  <2> QED
    BY <1>13, <2>1, <2>2, <2>3, <2>4 DEF NotStarted, Settle
<1>14. UNCHANGED vars => FollowsLifecycle
  BY <1>2 DEF vars
<1>15. \A i \in Ids : Confirm(i) \/ Started(i) => FollowsLifecycle
  BY <1>2 DEF Confirm, Started
<1>16. RunEnds \/ Close \/ CloseReturns \/ Restart \/ Tick => FollowsLifecycle
  BY <1>2 DEF RunEnds, RunFails, RunCompletes, RunInterrupted, EndRun, Close, CloseReturns, Restart, Tick
<1>17. Approving \/ Settling => FollowsLifecycle
  BY <1>13, <1>15 DEF Approving, Settling
<1>18. (\E i \in Ids : Create(i) \/ Reject(i) \/ Claim(i) \/ ClaimFails(i)) => FollowsLifecycle
  BY <1>8, <1>9, <1>11, <1>12
<1>19. (\E i \in Ids : Confirm(i)) => FollowsLifecycle
  BY <1>15
<1> HIDE DEF FollowsLifecycle
<1> QED
  BY <1>6, <1>7, <1>14, <1>16, <1>17, <1>18, <1>19 DEF Next

\* The service implements the lifecycle that SPEC-004 draws.
THEOREM Implements == Spec => ImplementsLifecycle
<1>1. Init => Lifecycle!Init
  BY DEF Init, Lifecycle!Init, Status, NoRecord
<1>2. Ownership /\ FollowsLifecycle /\ Ownership' => Lifecycle!Next
  <2> SUFFICES ASSUME Ownership, FollowsLifecycle, Ownership' PROVE Lifecycle!Next
    OBVIOUS
  <2>1. Status' \in [Ids -> {"none", "pending", "running", "removed"}
                             \cup Lifecycle!Executed \cup Lifecycle!Dismissed]
    BY DEF FollowsLifecycle, Status, Records, Terminal, Executed, Lifecycle!Executed, Lifecycle!Dismissed
  <2>2. attempts' \in [Ids -> {0, 1}]
    BY DEF Ownership, Launched, TypeOK
  <2>3. \A j \in Ids : /\ Status'[j] = Status[j] \/ Lifecycle!Moves(Status[j], Status'[j])
                       /\ attempts'[j] = attempts[j] \/ Lifecycle!Launches(j)
    BY DEF FollowsLifecycle, Status
  <2> QED
    BY <2>1, <2>2, <2>3 DEF Lifecycle!Next
<1> QED
  BY <1>1, <1>2, StepsFollow, OwnershipInvariant, PTL DEF Spec, ImplementsLifecycle, Lifecycle!Spec

\* Only a claim launches, and a claim needs a service that is not blocked.
THEOREM NoLaunchAfterLost == Spec => NoLaunchAfterLostResult
<1>1. ASSUME Ownership, [Next]_vars, NEW i \in Ids, attempts'[i] # attempts[i] PROVE lost = {}
  <2>1. \/ \E j \in Ids : Claim(j)
        \/ UNCHANGED attempts
    BY <1>1 DEF Next, vars, history, Starting, Recover, Initialized, InitializeFails, PruneFails,
       Refuse, Create, Reject, ClaimFails, Approving, NotStarted, Started, Confirm, RunEnds,
       RunFails, RunCompletes, RunInterrupted, EndRun, Settling, Settle, Close, CloseReturns,
       Restart, Tick
  <2>2. ~blocked
    BY <1>1, <2>1 DEF Claim, Busy
  <2> QED
    BY <1>1, <2>2 DEF Ownership, Occupied
<1>2. Ownership /\ [Next]_vars => \A i \in Ids : attempts'[i] # attempts[i] => lost = {}
  BY <1>1
<1> QED
  BY <1>2, OwnershipInvariant, PTL DEF NoLaunchAfterLostResult, Spec
-----------------------------------------------------------------------------
(* What readers are told.                                                  *)

\* The record of the active request says running, unless the service has
\* given up.
SlotHolds == active # Nobody /\ ~blocked => rec[active].status = "running"

\* A record changes by pruning, or it is the one that an operation is about.
RecordStep(j) ==
  \/ rec' = rec
  \/ \E S \in SUBSET Due : rec' = Pruned(S)
  \/ \E r \in Records : \/ \E S \in SUBSET Due : rec' = [Pruned(S) EXCEPT ![j] = r]
                       \/ rec' = [rec EXCEPT ![j] = r]

\* Only the holder of the slot, a pending request, a new one or one that an
\* earlier broker left running is the subject of an operation.
Subject(j) == active = j \/ Pending(j) \/ rec[j].status = "none" \/ (active = Nobody /\ rec[j].status = "running")

\* Every step is about one request, or about none.
LEMMA StepsHaveSubjects ==
  ASSUME Ownership, [Next]_vars
  PROVE  /\ now' \in {now, now + 1}
         /\ \/ UNCHANGED rec \/ \E S \in SUBSET Due : rec' = Pruned(S)
            \/ \E j \in Ids : Subject(j) /\ RecordStep(j)
         /\ active' \in {active, Nobody} \/ (~blocked /\ ~blocked' /\ Pending(active') /\ rec'[active'].status = "running")
<1> DEFINE Quiet == UNCHANGED rec \/ \E S \in SUBSET Due : rec' = Pruned(S)
           About == \E j \in Ids : Subject(j) /\ RecordStep(j)
           Result == /\ now' \in {now, now + 1} /\ (Quiet \/ About)
                     /\ \/ active' \in {active, Nobody}
                        \/ ~blocked /\ ~blocked' /\ Pending(active') /\ rec'[active'].status = "running"
<1> SUFFICES Result
  OBVIOUS
<1>0. /\ TypeOK /\ Due \in SUBSET Due /\ ConstantsAssumption
      /\ ~Serving => active = Nobody
      /\ \A i \in Ids : Pending(i) => Claimed(i) \in Records /\ Claimed(i).status = "running"
      /\ \A status \in Executed \cup {"rejected"} : Resolved(status) \in Records
  <2>1. ASSUME NEW i \in Ids PROVE Claimed(i) \in Records /\ Claimed(i).status = "running"
    BY DEF Claimed, Records, Ownership, TypeOK
  <2>2. \A status \in Executed \cup {"rejected"} : Resolved(status) \in Records
    BY DEF Resolved, Records, Terminal, Executed, Ownership, TypeOK
  <2> QED
    BY <2>1, <2>2, ConstantsAssumption DEF Ownership, IdleUnlessServing
<1>1. CASE UNCHANGED vars \/ Close \/ CloseReturns \/ Restart \/ Tick \/ RunEnds \/ \E i \in Ids : Confirm(i) \/ Started(i)
  <2>1. UNCHANGED rec /\ now' \in {now, now + 1} /\ active' \in {active, Nobody}
    BY <1>1 DEF vars, memory, Close, CloseReturns, Restart, Tick, RunEnds, RunFails, RunCompletes, RunInterrupted,
                EndRun, Confirm, Started
  <2> QED
    BY <2>1
<1>2. CASE PruneFails \/ Refuse \/ Initialized
  <2>1. Quiet /\ UNCHANGED <<now, active>>
    BY <1>0, <1>2 DEF PruneFails, Refuse, Initialized, memory
  <2> QED
    BY <2>1
<1>3. ASSUME NEW i \in Ids, Recover(i) PROVE Result
  <2>1. Subject(i) /\ RecordStep(i) /\ UNCHANGED <<now, active>>
    BY <1>0, <1>3 DEF Recover, Subject, RecordStep, Serving, memory, Executed
  <2> QED
    BY <2>1
<1>4. CASE InitializeFails
  <2>1. UNCHANGED <<now, active>> /\ active = Nobody
    BY <1>0, <1>4 DEF InitializeFails, memory, Serving
  <2>2. Quiet \/ \E i \in Ids : rec[i].status = "running" /\ rec' = [rec EXCEPT ![i] = Resolved("interrupted")]
    BY <1>4 DEF InitializeFails
  <2>3. Quiet \/ About
    BY <1>0, <2>1, <2>2 DEF Subject, RecordStep, Executed
  <2> QED
    BY <2>1, <2>3
<1>5. ASSUME NEW i \in Ids, Create(i) PROVE Result
  <2> DEFINE r == [status |-> "pending", at |-> now + Window]
  <2>1. r \in Records
    BY <1>0 DEF Records, TypeOK, ConstantsAssumption
  <2>2. (Landed(i, r) \/ NotLanded) /\ rec[i].status = "none" /\ UNCHANGED <<now, active>>
    BY <1>5 DEF Create, memory
  <2> HIDE DEF r
  <2> QED
    BY <1>0, <2>1, <2>2 DEF Landed, NotLanded, Subject, RecordStep
<1>6. ASSUME NEW i \in Ids, Reject(i) PROVE Result
  <2>1. (Landed(i, Resolved("rejected")) \/ NotLanded) /\ Pending(i) /\ UNCHANGED <<now, active>>
    BY <1>6 DEF Reject, memory
  <2> QED
    BY <1>0, <2>1 DEF Landed, NotLanded, Subject, RecordStep
<1>7. ASSUME NEW i \in Ids, Claim(i) PROVE Result
  <2>1. Landed(i, Claimed(i)) /\ Pending(i) /\ ~blocked /\ UNCHANGED <<now, blocked>> /\ active' = i
    BY <1>7 DEF Claim, Busy, Launch
  <2>2. rec'[i].status = "running"
    BY <1>0, <2>1 DEF Landed, Pruned
  <2> QED
    BY <1>0, <2>1, <2>2 DEF Landed, Subject, RecordStep
<1>8. ASSUME NEW i \in Ids, ClaimFails(i) PROVE Result
  <2>1. (Landed(i, Claimed(i)) \/ NotLanded) /\ Pending(i) /\ UNCHANGED <<now, active>>
    BY <1>8 DEF ClaimFails, memory
  <2> QED
    BY <1>0, <2>1 DEF Landed, NotLanded, Subject, RecordStep
<1>9. ASSUME NEW i \in Ids, NotStarted(i) \/ Settle(i) PROVE Result
  <2>1. UNCHANGED now
    BY <1>9 DEF NotStarted, Settle
  <2>2. CASE FreeAndPrune(i) /\ active = i /\ run[i].outcome # "none"
    <3>1. Resolved(run[i].outcome) \in Records
      BY <1>0, <2>2 DEF TypeOK
    <3>2. RecordStep(i) /\ active' \in {active, Nobody}
      BY <1>0, <2>2, <3>1 DEF FreeAndPrune, Landed, RecordStep
    <3> QED
      BY <2>1, <2>2, <3>2 DEF Subject
  <2>3. CASE UNCHANGED <<rec, active>>
    BY <2>1, <2>3
  <2>4. run[i].started = "null" \/ i \in settling => run[i].outcome # "none"
    BY DEF Ownership, Launched
  <2>5. approving = i => active = i
    BY ConstantsAssumption DEF Ownership, Occupied
  <2> QED
    BY <1>9, <2>2, <2>3, <2>4, <2>5 DEF NotStarted, Settle
<1> HIDE DEF Result
<1> QED
  BY <1>1, <1>2, <1>3, <1>4, <1>5, <1>6, <1>7, <1>8, <1>9 DEF Next, Starting, Approving, Settling

\* A slot is freed, or given up, with the record resolved.
LEMMA SlotPreserved == ASSUME Ownership, SlotHolds, [Next]_vars PROVE SlotHolds'
<1>1. CASE (active' # active /\ active' # Nobody) \/ active' = Nobody
  BY <1>1, StepsHaveSubjects DEF SlotHolds
<1>2. CASE active' = active /\ active # Nobody /\ blocked
  <2>1. blocked'
    BY <1>2 DEF Next, vars, memory, Starting, Recover, Initialized, InitializeFails, PruneFails, Refuse, Create,
      Reject, Claim, ClaimFails, Approving, NotStarted, Started, Confirm, RunEnds, RunFails, RunCompletes,
      RunInterrupted, EndRun, Settling, Settle, FreeAndPrune, Close, CloseReturns, Restart, Tick
  <2> QED
    BY <2>1 DEF SlotHolds
<1>3. CASE active' = active /\ active # Nobody /\ ~blocked /\ ~blocked'
  <2>1. active \in Ids /\ rec[active].status = "running" /\ TypeOK
    BY <1>3 DEF SlotHolds, Ownership, TypeOK
  <2>2. ~Pending(active)
    BY <2>1 DEF Pending, Projected
  <2>3. ~FreeAndPrune(active)
    BY <1>3 DEF FreeAndPrune
  <2>4. ASSUME NEW S \in SUBSET Due PROVE Pruned(S)[active] = rec[active]
    BY <2>1, PruningMoves
  <2>5. CASE \E i \in Ids : NotStarted(i) \/ Settle(i)
    <3>1. UNCHANGED rec
      BY <1>3, <2>3, <2>5, ConstantsAssumption DEF NotStarted, Settle, Ownership, Occupied
    <3> QED
      BY <1>3, <2>1, <3>1 DEF SlotHolds
  <2>6. CASE \E i \in Ids : Create(i) \/ Reject(i) \/ ClaimFails(i) \/ Claim(i)
    <3>1. PICK i \in Ids : Create(i) \/ Reject(i) \/ ClaimFails(i) \/ Claim(i)
      BY <2>6
    <3>2. i # active
      BY <2>1, <2>2, <3>1 DEF Create, Reject, ClaimFails, Claim
    <3>3. rec'[active] = Pruned(Due)[active]
      BY <2>1, <3>1, <3>2 DEF Create, Reject, ClaimFails, Claim, Landed, NotLanded, Pruned
    <3> QED
      BY <1>3, <2>1, <2>4, <3>3 DEF SlotHolds
  <2>7. CASE PruneFails \/ Refuse
    BY <1>3, <2>1, <2>4, <2>7 DEF SlotHolds, PruneFails, Refuse
  <2>8. CASE Starting
    BY <1>3, <2>8 DEF Starting, Recover, Initialized, InitializeFails, Ownership, IdleUnlessServing, Serving
  <2>9. CASE UNCHANGED vars \/ Close \/ CloseReturns \/ Restart \/ Tick \/ RunEnds \/ \E i \in Ids : Confirm(i) \/ Started(i)
    <3>1. UNCHANGED rec
      BY <2>9 DEF vars, Close, CloseReturns, Restart, Tick, RunEnds, RunFails, RunCompletes, RunInterrupted,
                  EndRun, Confirm, Started
    <3> QED
      BY <1>3, <2>1, <3>1 DEF SlotHolds
  <2> QED
    BY <2>5, <2>6, <2>7, <2>8, <2>9 DEF Next, Approving, Settling
<1>4. CASE active' = active /\ active # Nobody /\ ~blocked /\ blocked'
  BY <1>4 DEF SlotHolds
<1>5. blocked \in BOOLEAN /\ blocked' \in BOOLEAN
  BY NextPreserves DEF Ownership, TypeOK
<1> QED
  BY <1>1, <1>2, <1>3, <1>4, <1>5

\* A reader who was told how a request ended is never told otherwise later,
\* through failures, half-done persists and restarts (service.ts:61-79).
THEOREM ReadsStay == Spec => ReadsNeverGoBack
<1>1. Init => SlotHolds
  BY DEF Init, SlotHolds
<1>2. ASSUME Ownership, SlotHolds, [Next]_vars, NEW i \in Ids, Shown(i) \in Terminal
      PROVE  Shown(i)' \in {Shown(i), "removed"}
  <2> USE <1>2
  <2>0. TypeOK /\ rec[i] \in Records /\ now \in Nat
    BY DEF Ownership, TypeOK, Records
  <2>1. /\ ~(blocked /\ active = i) /\ ~PastWindow(Projected(i))
        /\ Shown(i) = Projected(i).status /\ Projected(i).status \in Terminal
    BY DEF Shown, Terminal, Executed
  <2>2. /\ Projected(i) \in Records /\ Projected(i).at = rec[i].at
        /\ rec[i].status \in {"pending"} \cup Terminal
        /\ rec[i].status \in Terminal => Projected(i) = rec[i]
    BY <2>0, <2>1 DEF Projected, Records, Terminal, Executed
  <2>3. active # i /\ ~Subject(i)
    <3>1. active # i
      BY <2>1, <2>2, ConstantsAssumption DEF SlotHolds, Terminal, Executed
    <3> QED
      BY <2>1, <2>2, <3>1 DEF Subject, Pending, Terminal, Executed
  <2>4. \A S \in SUBSET Due : Pruned(S)[i] \in {rec[i], Projected(i)}
    BY <2>1 DEF Pruned
  <2>5. rec'[i] \in {rec[i], Projected(i)}
    <3>1. CASE UNCHANGED rec \/ \E S \in SUBSET Due : rec' = Pruned(S)
      BY <2>4, <3>1
    <3>2. CASE \E j \in Ids : Subject(j) /\ RecordStep(j)
      <4>1. PICK j \in Ids : Subject(j) /\ RecordStep(j)
        BY <3>2
      <4>2. j # i
        BY <2>3, <4>1
      <4>3. \A S \in SUBSET Due : \A r : [Pruned(S) EXCEPT ![j] = r][i] = Pruned(S)[i]
        BY <4>2 DEF Pruned
      <4>4. \A r : [rec EXCEPT ![j] = r][i] = rec[i]
        BY <2>0, <4>2 DEF TypeOK
      <4> QED
        BY <2>4, <4>1, <4>3, <4>4 DEF RecordStep
    <3> QED
      BY <3>1, <3>2, StepsHaveSubjects
  <2>6. active' # i
    BY <2>0, <2>3, StepsHaveSubjects, ConstantsAssumption DEF Subject
  <2>7. now' \in Nat /\ now' >= now
    BY <2>0, StepsHaveSubjects
  <2>8. Projected(i)' = Projected(i)
    <3>1. CASE rec'[i].status \in Terminal
      <4>1. rec'[i] = Projected(i)
        BY <2>2, <2>5, <3>1
      <4> QED
        BY <3>1, <4>1 DEF Projected, Terminal, Executed
    <3>2. CASE rec'[i].status \notin Terminal
      <4>1. rec'[i] = rec[i] /\ rec[i].status = "pending" /\ rec[i].at <= now
        BY <2>1, <2>2, <2>5, <3>2 DEF Projected
      <4>2. rec[i].at <= now'
        BY <2>0, <2>7, <4>1 DEF Records
      <4> QED
        BY <4>1, <4>2 DEF Projected
    <3> QED
      BY <3>1, <3>2
  <2> QED
    BY <2>1, <2>6, <2>8 DEF Shown
<1>3. ASSUME Ownership, SlotHolds, [Next]_vars
      PROVE  \A i \in Ids : Shown(i) \in Terminal => Shown(i)' \in {Shown(i), "removed"}
  BY <1>2, <1>3
<1>4. Ownership /\ SlotHolds /\ [Next]_vars => SlotHolds'
  BY SlotPreserved
<1> QED
  BY <1>1, <1>3, <1>4, OwnershipInvariant, PTL DEF Spec, ReadsNeverGoBack
=============================================================================
