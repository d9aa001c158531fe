------------------------- MODULE WriteRequestsProofs -------------------------
(***************************************************************************)
(* Proofs about WriteRequests, for any set of requests, handlers and       *)
(* files.  The argument is the invariant Accounting: what the holder of    *)
(* the mutex has written is kept apart from what earlier attempts left     *)
(* behind, and the latter is accounted for at all times.                   *)
(***************************************************************************)
EXTENDS WriteRequests, TLAPS

\* Where a call in the queue stands.
Queued(x) ==
  /\ op[x] \in {"create", "approve", "reject", "host"} => rid[x] \in used
  /\ op[x] \in {"create", "host"} => rec[rid[x]].status = "none"
  /\ op[x] \in {"approve", "reject"} => Mode[rid[x]] = "manual" /\ rec[rid[x]].status # "none"
  /\ op[x] = "host" => Mode[rid[x]] = "host"
  /\ op[x] \in {"create", "host"} /\ x # holder => effect[rid[x]] = {}

\* An id is given to one call.
OwnIds ==
  \A x, y \in Handlers :
    op[x] \in {"create", "host"} /\ op[y] \in {"create", "host"} /\ rid[x] = rid[y] => x = y

Untouched == \A i \in Ids \ used : rec[i].status = "none" /\ effect[i] = {}

Calls == (\A x \in Handlers : Queued(x)) /\ OwnIds /\ Untouched

\* What the operation inside the mutex has done.
Holding ==
  /\ holder = Nobody <=> step = "none"
  /\ holder = Nobody => done = {}
  /\ step = "resolving" => done = {}
  /\ holder # Nobody =>
       /\ op[holder] \in {"approve", "host"} /\ ~blocked
       /\ op[holder] = "approve" => rec[Request].status = "pending"
       /\ done \subseteq Touches[Request] \cap effect[Request]
       /\ step = "committing" => Agree(Request, base[Request], cur)
       /\ step = "concluding" /\ done # {} => Request \in unresolved
  /\ unrepaired # {} => blocked \/ (step = "concluding" /\ done # {})

\* What it holds apart from this.
Underway(i) == IF InProgress(i) THEN done ELSE {}

Effects ==
  \A i \in Ids :
    /\ effect[i] \subseteq Touches[i]
    /\ effect[i] \ Underway(i) # {} =>
         rec[i].status \in {"applied", "removed"} \/ i \in unresolved \cup orphans
    /\ rec[i].status = "applied" => effect[i] = Touches[i]

Accounting == TypeOK /\ Calls /\ Holding /\ Effects

Records == [status : {"none", "pending", "removed"} \cup Resolutions, at : Nat]

\* What expiring and pruning do to a record.
Ages(i) ==
  \/ rec'[i].status = rec[i].status
  \/ rec[i].status = "pending" /\ rec'[i].status = "expired"
  \/ rec[i].status \in Resolutions /\ rec'[i].status = "removed"

\* Tidying expires pending records and removes resolved ones.
LEMMA TidyingAges ==
  ASSUME TypeOK, NEW S \in SUBSET Due
  PROVE  /\ Tidied(S) \in [Ids -> Records]
         /\ \A i \in Ids :
              \/ Tidied(S)[i].status = rec[i].status
              \/ rec[i].status = "pending" /\ Tidied(S)[i].status = "expired"
              \/ rec[i].status \in Resolutions /\ Tidied(S)[i].status = "removed"
<1> USE DEF TypeOK, Records, Resolutions
<1>1. Resolved("expired") \in Records /\ Resolved("expired").status = "expired"
  BY DEF Resolved
<1>2. [status |-> "removed", at |-> 0] \in Records
  OBVIOUS
<1>3. \A i \in S : i \in Ids /\ (rec[i].status = "pending" \/ rec[i].status \in Resolutions)
  BY DEF Due, Expired, PastRetention
<1>4. ASSUME NEW i \in Ids
      PROVE  /\ Tidied(S)[i] \in Records
             /\ \/ Tidied(S)[i].status = rec[i].status
                \/ rec[i].status = "pending" /\ Tidied(S)[i].status = "expired"
                \/ rec[i].status \in Resolutions /\ Tidied(S)[i].status = "removed"
  <2>1. CASE i \notin S
    BY <2>1 DEF Tidied
  <2>2. CASE i \in S /\ rec[i].status = "pending"
    BY <1>1, <2>2 DEF Tidied
  <2>3. CASE i \in S /\ rec[i].status # "pending"
    BY <1>2, <1>3, <2>3 DEF Tidied
  <2> QED
    BY <2>1, <2>2, <2>3
<1> QED
  BY <1>4 DEF Tidied

\* A handler takes its turn in the free mutex and returns at once: records
\* age, its own is created, or a pending one is rejected.
LEMMA TurnPreserves ==
  ASSUME Accounting, NEW x \in Handlers, holder = Nobody, Return(x), Quietly,
         edits' \in Nat, crashes' \in Nat, faults' \in Nat,
         rec' \in [Ids -> Records],
         \A i \in Ids :
           \/ Ages(i)
           \/ i = rid[x] /\ op[x] = "create" /\ rec'[i].status = "pending"
           \/ rec[i].status = "pending" /\ rec'[i].status = "rejected"
  PROVE  Accounting'
<1> USE ConstantsAssumption DEF Accounting, Quietly, inside, history
<1>1. /\ op' \in [Handlers -> {"idle", "create", "approve", "reject", "host", "read"}]
      /\ rid' \in [Handlers -> Ids \cup {Nobody}]
      /\ op'[x] = "idle"
      /\ \A y \in Handlers \ {x} : op'[y] = op[y] /\ rid'[y] = rid[y]
  BY DEF TypeOK, Return
<1>2. TypeOK'
  BY <1>1 DEF TypeOK, Records
<1>3. \A i \in Ids : rec[i].status = "none" /\ (i # rid[x] \/ op[x] # "create") => rec'[i].status = "none"
  BY DEF Ages, Resolutions
<1>4. \A i \in Ids : rec[i].status # "none" => rec'[i].status # "none"
  BY DEF Ages, Resolutions
<1>5. \A y \in Handlers : op[y] \in {"create", "approve", "reject", "host"} => rid[y] \in Ids
  BY DEF Calls, Queued, TypeOK
<1>6. Calls'
  <2>1. ASSUME NEW y \in Handlers PROVE Queued(y)'
    <3>1. CASE y = x
      BY <1>1, <3>1 DEF Queued
    <3>2. CASE y # x
      <4>1. op[y] \in {"create", "host"} /\ op[x] = "create" => rid[y] # rid[x]
        BY <3>2 DEF Calls, OwnIds
      <4>2. Queued(y) /\ op'[y] = op[y] /\ rid'[y] = rid[y]
        BY <1>1, <3>2 DEF Calls
      <4>3. op[y] \in {"create", "host"} => rec'[rid[y]].status = "none"
        BY <1>3, <1>5, <4>1, <4>2 DEF Queued
      <4>4. op[y] \in {"approve", "reject"} => rec'[rid[y]].status # "none"
        BY <1>4, <1>5, <4>2 DEF Queued
      <4> QED
        BY <4>2, <4>3, <4>4, <3>2 DEF Queued
    <3> QED
      BY <3>1, <3>2
  <2>2. OwnIds'
    BY <1>1 DEF Calls, OwnIds
  <2>3. op[x] = "create" => rid[x] \in used
    BY DEF Calls, Queued
  <2>4. Untouched'
    BY <1>3, <2>3 DEF Calls, Untouched
  <2> QED
    BY <2>1, <2>2, <2>4 DEF Calls
<1>7. Holding'
  BY DEF Holding
<1>8. \A i \in Ids : rec'[i].status = "applied" => rec[i].status = "applied"
  BY DEF Ages
<1>9. \A i \in Ids : rec[i].status \in {"applied", "removed"}
                      => rec'[i].status \in {"applied", "removed"}
  <2>1. op[x] = "create" => rec[rid[x]].status = "none"
    BY DEF Calls, Queued
  <2> QED
    BY <2>1 DEF Ages, Resolutions
<1>10. \A i \in Ids : Underway(i)' = {} /\ Underway(i) = {}
  BY DEF Underway, InProgress
<1>11. Effects'
  BY <1>8, <1>9, <1>10 DEF Effects
<1> QED
  BY <1>2, <1>6, <1>7, <1>11

\* Every operation that is over within its turn.
LEMMA TurnsPreserve ==
  ASSUME Accounting, NEW x \in Handlers,
         Refuse(x) \/ TidyFails(x) \/ Read(x) \/ Create(x) \/ Reject(x) \/ NotPending(x)
  PROVE  Accounting'
<1>1. TypeOK /\ Due \in SUBSET Due /\ rec \in [Ids -> Records]
  BY DEF Accounting, TypeOK, Records
<1>2. holder = Nobody /\ Return(x) /\ Quietly /\ edits' \in Nat /\ crashes' \in Nat /\ faults' \in Nat
  BY <1>1 DEF Refuse, TidyFails, Read, Create, Reject, NotPending, Turn, NoFault, Fault, bounds, TypeOK
<1>3. ASSUME NEW S \in SUBSET Due
      PROVE  rec' = Tidied(S) => rec' \in [Ids -> Records] /\ \A i \in Ids : Ages(i)
  BY <1>1, TidyingAges DEF Ages
<1>4. CASE rec' = rec
  BY <1>1, <1>2, <1>4, TurnPreserves DEF Ages
<1>5. CASE \E S \in SUBSET Due : rec' = Tidied(S)
  <2>1. rec' \in [Ids -> Records] /\ \A i \in Ids : Ages(i)
    BY <1>3, <1>5
  <2> QED
    BY <1>2, <2>1, TurnPreserves
<1>6. CASE /\ Turn(x, {"create"})
           /\ rec' = [Tidied(Due) EXCEPT ![rid[x]] = [status |-> "pending", at |-> now + PendingTtl]]
  <2>1. [status |-> "pending", at |-> now + PendingTtl] \in Records
    BY <1>1, ConstantsAssumption DEF TypeOK, Records
  <2>2. rid[x] \in Ids /\ op[x] = "create"
    BY <1>6 DEF Turn, Accounting, Calls, Queued, TypeOK
  <2>3. rec' \in [Ids -> Records] /\ \A i \in Ids \ {rid[x]} : Ages(i)
    BY <1>1, <1>6, <2>1, TidyingAges DEF Ages
  <2>4. rec'[rid[x]].status = "pending"
    BY <1>1, <1>6, <2>2, TidyingAges
  <2> QED
    BY <1>2, <2>2, <2>3, <2>4, TurnPreserves
<1>7. CASE /\ Turn(x, {"reject"}) /\ Tidied(Due)[rid[x]].status = "pending"
           /\ rec' = [Tidied(Due) EXCEPT ![rid[x]] = Resolved("rejected")]
  <2>1. Resolved("rejected") \in Records /\ Resolved("rejected").status = "rejected"
    BY <1>1 DEF Resolved, TypeOK, Records, Resolutions
  <2>2. rid[x] \in Ids
    BY <1>7 DEF Turn, Accounting, Calls, Queued, TypeOK
  <2>3. rec[rid[x]].status = "pending"
    BY <1>1, <1>7, <2>2, TidyingAges
  <2>4. rec' \in [Ids -> Records] /\ \A i \in Ids \ {rid[x]} : Ages(i)
    BY <1>1, <1>7, <2>1, TidyingAges DEF Ages
  <2>5. rec'[rid[x]].status = "rejected"
    BY <1>1, <1>7, <2>1, <2>2, TidyingAges
  <2> QED
    BY <1>2, <2>2, <2>3, <2>4, <2>5, TurnPreserves
<1> QED
  BY <1>1, <1>4, <1>5, <1>6, <1>7 DEF Refuse, TidyFails, Read, Create, Reject, NotPending

\* Nothing has happened when the first broker starts.
LEMMA InitEstablishes == Init => Accounting
<1> SUFFICES ASSUME Init PROVE Accounting
  OBVIOUS
<1> USE ConstantsAssumption DEF Init, NoRecord
<1>1. TypeOK
  BY DEF TypeOK, Contents
<1>2. Calls /\ Holding
  BY DEF Calls, Queued, OwnIds, Untouched, Holding
<1>3. Effects
  BY DEF Effects, Underway
<1> QED
  BY <1>1, <1>2, <1>3 DEF Accounting

\* Calls arrive with an id of their own, or for a request that is recorded.
LEMMA ArrivalsPreserve ==
  ASSUME Accounting, NEW x \in Handlers,
         (\E i \in Ids : CallPrepared(x, i) \/ CallOnRequest(x, i)) \/ CallRead(x)
  PROVE  Accounting'
<1> USE ConstantsAssumption DEF Accounting, Call, inside, bounds, history
<1>1. op[x] = "idle" /\ (holder # Nobody => x # holder)
  BY DEF CallPrepared, CallOnRequest, CallRead, Holding
<1>2. PICK what \in {"create", "approve", "reject", "host", "read"}, i \in Ids \cup {Nobody} :
        op' = [op EXCEPT ![x] = what] /\ rid' = [rid EXCEPT ![x] = i]
  BY DEF CallPrepared, CallOnRequest, CallRead
<1>3. /\ op' \in [Handlers -> {"idle", "create", "approve", "reject", "host", "read"}]
      /\ rid' \in [Handlers -> Ids \cup {Nobody}]
      /\ \A y \in Handlers \ {x} : op'[y] = op[y] /\ rid'[y] = rid[y]
  BY <1>2 DEF TypeOK
<1>4. UNCHANGED <<rec, ws, now, holder, step, cur, done, code, blocked, edits, crashes, faults,
                  effect, unresolved, unrepaired, orphans>>
  BY DEF CallPrepared, CallOnRequest, CallRead
<1>5. /\ \A j \in Ids : Underway(j)' = Underway(j)
      /\ holder # Nobody => Request' = Request /\ op'[holder] = op[holder]
  BY <1>1, <1>3, <1>4 DEF Underway, InProgress, Request, TypeOK
<1>6. Effects'
  BY <1>4, <1>5 DEF Effects
<1>7. \A y \in Handlers : op[y] \in {"create", "approve", "reject", "host"} => rid[y] \in used \cap Ids
  BY DEF Calls, Queued, TypeOK
<1>8. \A y \in Handlers \ {x} : used \subseteq used' => Queued(y)'
  BY <1>3, <1>4 DEF Calls, Queued
<1>9. ASSUME NEW j \in Ids, CallPrepared(x, j) PROVE Accounting'
  <2>1. /\ j \notin used /\ used' = used \cup {j} /\ base' = [base EXCEPT ![j] = ws]
        /\ rid'[x] = j /\ op'[x] = IF Mode[j] = "manual" THEN "create" ELSE "host"
    BY <1>9 DEF CallPrepared, TypeOK
  <2>2. TypeOK'
    BY <1>3, <1>4, <2>1 DEF TypeOK
  <2>3. Mode[j] \in {"manual", "host"} /\ rec[j].status = "none" /\ effect[j] = {}
    BY <2>1 DEF Calls, Untouched
  <2>4. Queued(x)'
    BY <1>4, <2>1, <2>3 DEF Queued
  <2>5. OwnIds'
    BY <1>3, <1>7, <2>1 DEF Calls, OwnIds
  <2>6. Untouched'
    BY <1>4, <2>1 DEF Calls, Untouched
  <2>7. Calls'
    BY <1>8, <2>1, <2>4, <2>5, <2>6 DEF Calls
  <2>8. holder # Nobody => Request \in Ids /\ base'[Request] = base[Request]
    BY <1>7, <2>1 DEF Holding, Request, TypeOK
  <2>9. Holding'
    BY <1>4, <1>5, <2>8 DEF Holding, Agree
  <2> QED
    BY <1>6, <2>2, <2>7, <2>9
<1>10. ASSUME UNCHANGED <<used, base>>,
              \/ op'[x] = "read"
              \/ /\ op'[x] \in {"approve", "reject"} /\ rid'[x] \in Ids
                 /\ Mode[rid'[x]] = "manual" /\ rec[rid'[x]].status # "none"
       PROVE  Accounting'
  <2>1. TypeOK'
    BY <1>3, <1>4, <1>10 DEF TypeOK
  <2>2. Queued(x)'
    BY <1>4, <1>10 DEF Queued, Calls, Untouched
  <2>3. OwnIds' /\ Untouched'
    BY <1>3, <1>4, <1>10 DEF Calls, OwnIds, Untouched
  <2>4. Calls'
    BY <1>8, <1>10, <2>2, <2>3 DEF Calls
  <2>5. Holding'
    BY <1>4, <1>5, <1>10 DEF Holding, Agree
  <2> QED
    BY <1>6, <2>1, <2>4, <2>5
<1>11. ASSUME NEW j \in Ids, CallOnRequest(x, j) PROVE Accounting'
  BY <1>10, <1>11 DEF CallOnRequest, TypeOK
<1>12. CallRead(x) => Accounting'
  BY <1>10 DEF CallRead, TypeOK
<1> QED
  BY <1>9, <1>11, <1>12

\* The mutex is entered with nothing written yet.
LEMMA BeginPreserves == ASSUME Accounting, NEW x \in Handlers, Begin(x) PROVE Accounting'
<1> USE ConstantsAssumption DEF Accounting, durable, inside, bounds, history, NoFault
<1>1. /\ holder = Nobody /\ ~blocked /\ op[x] \in {"approve", "host"}
      /\ holder' = x /\ x # Nobody /\ step' = "resolving" /\ done = {}
      /\ UNCHANGED <<base, used, ws, now, op, rid, cur, done, code, blocked, edits, crashes, faults,
                    effect, unresolved, unrepaired, orphans>>
  BY DEF Begin, Turn, Holding
<1>2. Due \in SUBSET Due /\ rid[x] \in Ids
  BY <1>1 DEF Calls, Queued, TypeOK
<1>3. /\ rec' \in [Ids -> Records] /\ \A i \in Ids : Ages(i)
      /\ op[x] = "approve" => rec'[rid[x]].status = "pending"
  <2>1. CASE rec' = rec /\ op[x] = "host"
    BY <2>1 DEF Ages, TypeOK, Records
  <2>2. CASE rec' = Tidied(Due) /\ Tidied(Due)[rid[x]].status = "pending"
    BY <1>2, <2>2, TidyingAges DEF Ages
  <2> QED
    BY <2>1, <2>2 DEF Begin
<1>4. TypeOK'
  BY <1>1, <1>3 DEF TypeOK, Records
<1>5. \A i \in Ids : /\ rec[i].status = "none" <=> rec'[i].status = "none"
                     /\ rec'[i].status = "applied" => rec[i].status = "applied"
                     /\ rec[i].status \in {"applied", "removed"} => rec'[i].status \in {"applied", "removed"}
  BY <1>3 DEF Ages, Resolutions
<1>6. Calls'
  <2>1. ASSUME NEW y \in Handlers PROVE Queued(y)'
    <3>1. Queued(y) /\ (op[y] \in {"create", "approve", "reject", "host"} => rid[y] \in Ids)
      BY DEF Calls, Queued, TypeOK
    <3> QED
      BY <1>1, <1>5, <3>1 DEF Queued
  <2>2. OwnIds' /\ Untouched'
    BY <1>1, <1>5 DEF Calls, OwnIds, Untouched
  <2> QED
    BY <2>1, <2>2 DEF Calls
<1>7. Request' = rid[x]
  BY <1>1 DEF Request
<1>8. Holding'
  BY <1>1, <1>3, <1>7 DEF Holding
<1>9. \A i \in Ids : Underway(i)' = {} /\ Underway(i) = {}
  BY <1>1 DEF Underway, InProgress
<1>10. Effects'
  BY <1>1, <1>5, <1>9 DEF Effects
<1> QED
  BY <1>4, <1>6, <1>8, <1>10

\* What holds of the request in progress.
LEMMA HolderFacts ==
  ASSUME Accounting, holder # Nobody
  PROVE  /\ holder \in Handlers /\ Request \in Ids
         /\ rec[Request].status = IF op[holder] = "approve" THEN "pending" ELSE "none"
         /\ Mode[Request] = IF op[holder] = "approve" THEN "manual" ELSE "host"
         /\ Underway(Request) = done /\ \A i \in Ids \ {Request} : Underway(i) = {}
         /\ \A x \in Handlers : op[x] \in {"create", "host"} /\ rid[x] = Request => x = holder
         /\ effect[Request] \ done # {} => Request \in unresolved \cup orphans
<1> USE DEF Accounting
<1>1. holder \in Handlers /\ op[holder] \in {"approve", "host"} /\ Queued(holder)
  BY DEF TypeOK, Holding, Calls
<1>2. Request \in Ids
  BY <1>1 DEF Queued, Request, TypeOK
<1>3. /\ rec[Request].status = IF op[holder] = "approve" THEN "pending" ELSE "none"
      /\ Mode[Request] = IF op[holder] = "approve" THEN "manual" ELSE "host"
  BY <1>1 DEF Holding, Queued, Request
<1>4. Underway(Request) = done /\ \A i \in Ids \ {Request} : Underway(i) = {}
  BY DEF Underway, InProgress
<1>5. ASSUME NEW x \in Handlers, op[x] \in {"create", "host"}, rid[x] = Request PROVE x = holder
  <2>1. Queued(x) /\ rec[Request].status = "none"
    BY <1>5 DEF Calls, Queued
  <2>2. op[holder] = "host"
    BY <1>1, <1>3, <2>1
  <2> QED
    BY <1>1, <1>5, <2>2 DEF Calls, OwnIds, Request
<1>6. effect[Request] \ done # {} => Request \in unresolved \cup orphans
  BY <1>2, <1>3, <1>4 DEF Effects
<1> QED
  BY <1>1, <1>2, <1>3, <1>4, <1>5, <1>6

\* The holder goes on: it may write files of its own patch or take them back.
LEMMA StayPreserves ==
  ASSUME Accounting, holder # Nobody,
         step' \in {"committing", "undoing", "concluding"},
         code' \in {"none", "stale", "failed", "receipt"},
         ws' \in [Files -> Contents], cur' \in [Files -> Contents],
         effect' \in [Ids -> SUBSET Files], \A i \in Ids \ {Request} : effect'[i] = effect[i],
         done' \subseteq Touches[Request] \cap effect'[Request],
         effect'[Request] \subseteq Touches[Request],
         effect'[Request] \ done' \subseteq effect[Request] \ done,
         step' = "committing" => Agree(Request, base[Request], cur'),
         step' # "concluding" => UNCHANGED <<unresolved, unrepaired>>,
         step # "concluding",
         unresolved \subseteq unresolved', unresolved' \subseteq Ids, unrepaired' \subseteq Ids,
         step' = "concluding" => (done' # {} => Request \in unresolved'),
         unrepaired' # unrepaired => step' = "concluding" /\ done' # {},
         edits' \in Nat, crashes' \in Nat, faults' \in Nat,
         UNCHANGED <<durable, now, op, rid, holder, blocked, orphans>>
  PROVE  Accounting'
<1> USE HolderFacts DEF Accounting, durable
<1>1. TypeOK'
  <2>1. done' \subseteq Files
    BY ConstantsAssumption
  <2> QED
    BY <2>1 DEF TypeOK
<1>2. Request' = Request /\ Underway(Request)' = done' /\ \A i \in Ids \ {Request} : Underway(i)' = {}
  BY DEF Request, Underway, InProgress
<1>3. Calls'
  <2>1. ASSUME NEW x \in Handlers PROVE Queued(x)'
    <3>1. op[x] \in {"create", "host"} /\ x # holder => rid[x] \in Ids \ {Request}
      BY DEF Calls, Queued, TypeOK
    <3> QED
      BY <3>1 DEF Calls, Queued
  <2>2. OwnIds'
    BY DEF Calls, OwnIds
  <2>3. Request \in used
    BY DEF Calls, Queued, Holding, Request
  <2>4. Untouched'
    BY <2>3 DEF Calls, Untouched
  <2> QED
    BY <2>1, <2>2, <2>4 DEF Calls
<1>4. Holding'
  <2>1. holder' = holder /\ step' # "none" /\ step' # "resolving" /\ op[holder] \in {"approve", "host"}
    BY DEF Holding
  <2>2. ~blocked' /\ (op[holder] = "approve" => rec[Request].status = "pending")
    BY DEF Holding
  <2>3. unrepaired' # {} => step' = "concluding" /\ done' # {}
    BY DEF Holding
  <2> QED
    BY <1>2, <2>1, <2>2, <2>3 DEF Holding, Agree
<1>5. Effects'
  <2>1. ASSUME NEW i \in Ids \ {Request}
        PROVE  /\ effect'[i] \subseteq Touches[i]
               /\ effect'[i] \ Underway(i)' # {} =>
                    rec[i].status \in {"applied", "removed"} \/ i \in unresolved' \cup orphans
               /\ rec[i].status = "applied" => effect'[i] = Touches[i]
    BY <1>2 DEF Effects
  <2>2. ASSUME NEW i \in Ids, i = Request
        PROVE  /\ effect'[i] \subseteq Touches[i]
               /\ effect'[i] \ Underway(i)' # {} => i \in unresolved' \cup orphans
               /\ rec[i].status # "applied"
    <3>1. Underway(i)' = done'
      BY <1>2, <2>2 DEF Underway, InProgress
    <3> QED
      BY <2>2, <3>1
  <2>3. rec' = rec /\ orphans' = orphans
    OBVIOUS
  <2> HIDE DEF Accounting
  <2> QED
    BY ONLY <2>1, <2>2, <2>3 DEF Effects
<1> QED
  BY <1>1, <1>3, <1>4, <1>5

\* The holder leaves: what it wrote is behind a receipt, or is accounted for.
LEMMA LeavePreserves ==
  ASSUME Accounting, holder # Nobody, Leave,
         \/ rec' = rec
         \/ \E status \in {"applied", "stale", "failed"} :
              /\ rec' = [rec EXCEPT ![Request] = Resolved(status)]
              /\ status = "applied" => effect[Request] = Touches[Request],
         done # {} => Request \in unresolved \/ rec'[Request].status = "applied",
         blocked' = (blocked \/ (step = "concluding" /\ done # {})),
         edits' \in Nat, crashes' \in Nat, faults' \in Nat,
         UNCHANGED <<base, used, ws, now, history>>
  PROVE  Accounting'
<1> USE HolderFacts, ConstantsAssumption DEF Accounting, Leave, history
<1>1. /\ op' \in [Handlers -> {"idle", "create", "approve", "reject", "host", "read"}]
      /\ rid' \in [Handlers -> Ids \cup {Nobody}]
      /\ op'[holder] = "idle"
      /\ \A y \in Handlers \ {holder} : op'[y] = op[y] /\ rid'[y] = rid[y]
  BY DEF TypeOK, Return
<1>2. /\ rec' \in [Ids -> Records]
      /\ \A i \in Ids \ {Request} : rec'[i] = rec[i]
      /\ rec'[Request].status = rec[Request].status
           \/ rec'[Request].status \in {"applied", "stale", "failed"}
      /\ rec'[Request].status = "applied" => effect[Request] = Touches[Request]
  <2>1. CASE rec' = rec
    BY <2>1 DEF TypeOK, Records
  <2>2. ASSUME NEW status \in {"applied", "stale", "failed"},
               rec' = [rec EXCEPT ![Request] = Resolved(status)],
               status = "applied" => effect[Request] = Touches[Request]
        PROVE  /\ rec' \in [Ids -> Records]
               /\ \A i \in Ids \ {Request} : rec'[i] = rec[i]
               /\ rec'[Request].status = status
    BY <2>2 DEF Resolved, TypeOK, Records, Resolutions
  <2> QED
    BY <2>1, <2>2
<1>3. TypeOK'
  <2>1. blocked' \in BOOLEAN
    OBVIOUS
  <2>2. UNCHANGED <<base, used, ws, cur, now, effect, unresolved, unrepaired, orphans>>
    OBVIOUS
  <2>3. holder' = Nobody /\ step' = "none" /\ done' = {} /\ code' = "none"
    OBVIOUS
  <2>4. TypeOK /\ edits' \in Nat /\ crashes' \in Nat /\ faults' \in Nat
    OBVIOUS
  <2> HIDE DEF Accounting, Leave
  <2> QED
    BY ONLY <1>1, <1>2, <2>1, <2>2, <2>3, <2>4 DEF TypeOK, Records
<1>4. Calls'
  <2>1. ASSUME NEW y \in Handlers PROVE Queued(y)'
    <3>1. CASE y = holder
      BY <1>1, <3>1 DEF Queued
    <3>2. CASE y # holder
      <4>1. Queued(y) /\ op'[y] = op[y] /\ rid'[y] = rid[y]
        BY <1>1, <3>2 DEF Calls
      <4>2. op[y] \in {"create", "host"} => rid[y] \in Ids \ {Request}
        BY <3>2, <4>1 DEF Queued, TypeOK
      <4>3. op[y] \in {"approve", "reject"} => rid[y] \in Ids
        BY <4>1 DEF Queued, TypeOK
      <4>4. op[y] \in {"approve", "reject"} => rec'[rid[y]].status # "none"
        BY <1>2, <4>1, <4>3 DEF Queued
      <4>5. op[y] \in {"create", "host"} => rec'[rid[y]].status = "none"
        BY <1>2, <4>1, <4>2 DEF Queued
      <4> QED
        BY <3>2, <4>1, <4>4, <4>5 DEF Queued
    <3> QED
      BY <3>1, <3>2
  <2>2. OwnIds'
    BY <1>1 DEF Calls, OwnIds
  <2>3. Request \in used
    BY DEF Calls, Queued, Holding, Request
  <2>4. Untouched'
    BY <1>2, <2>3 DEF Calls, Untouched
  <2> QED
    BY <2>1, <2>2, <2>4 DEF Calls
<1>5. Holding'
  BY DEF Holding
<1>6. Effects'
  <2>1. \A i \in Ids : Underway(i)' = {}
    BY DEF Underway, InProgress
  <2>2. ASSUME NEW i \in Ids \ {Request}
        PROVE  /\ effect[i] \subseteq Touches[i]
               /\ effect[i] # {} =>
                    rec'[i].status \in {"applied", "removed"} \/ i \in unresolved \cup orphans
               /\ rec'[i].status = "applied" => effect[i] = Touches[i]
    BY <1>2 DEF Effects
  <2>3. effect[Request] \subseteq Touches[Request]
    BY DEF Effects
  <2>4. effect[Request] # {} => rec'[Request].status = "applied" \/ Request \in unresolved \cup orphans
    OBVIOUS
  <2> QED
    BY <1>2, <2>1, <2>2, <2>3, <2>4 DEF Effects
<1> QED
  BY <1>3, <1>4, <1>5, <1>6

\* What happens inside the mutex.
LEMMA InsidePreserves == Accounting /\ Inside => Accounting'
<1> SUFFICES ASSUME Accounting, Inside PROVE Accounting'
  OBVIOUS
<1>1. TypeOK /\ (step = "resolving" \/ step = "committing" \/ step = "undoing" \/ step = "concluding")
  BY DEF Accounting, Inside, Revalidate, FindStale, TargetLost, CommitFile, CommitFails, PersistApplied,
     PersistAppliedFails, Undo, Conclude
<1>2. holder # Nobody
  BY <1>1 DEF Accounting, Holding
<1>3. /\ Request \in Ids /\ Touches[Request] \subseteq Files
      /\ done \subseteq Touches[Request] \cap effect[Request] /\ effect[Request] \subseteq Touches[Request]
      /\ effect[Request] \ done # {} => Request \in unresolved \cup orphans
  BY <1>2, HolderFacts, ConstantsAssumption DEF Accounting, Holding, Effects
<1>4. NoFault \/ Fault => edits' \in Nat /\ crashes' \in Nat /\ faults' \in Nat
  BY <1>1 DEF NoFault, Fault, bounds, TypeOK
<1>5. CASE Revalidate
  BY <1>1, <1>2, <1>3, <1>4, <1>5, StayPreserves
     DEF Revalidate, TypeOK, durable, history, Agree
<1>6. CASE FindStale
  <2>1. done = {}
    BY <1>6 DEF FindStale, Accounting, Holding
  <2> QED
    BY <1>1, <1>2, <1>4, <1>6, <2>1, LeavePreserves DEF FindStale, Persist, TypeOK, history
<1>7. CASE TargetLost
  <2>1. done = {}
    BY <1>7 DEF TargetLost, Accounting, Holding
  <2> QED
    BY <1>1, <1>2, <1>4, <1>7, <2>1, LeavePreserves DEF TargetLost, TypeOK, history
<1>8. ASSUME NEW f \in Files, CommitFile(f) PROVE Accounting'
  <2>1. f \in Touches[Request] \ done
    BY <1>8 DEF CommitFile, IsNext, Left
  <2>2. ws' \in [Files -> Contents]
    BY <1>1, <1>3, <1>8 DEF CommitFile, TypeOK, Contents
  <2>3. /\ effect' \in [Ids -> SUBSET Files] /\ effect'[Request] = effect[Request] \cup {f}
        /\ \A i \in Ids \ {Request} : effect'[i] = effect[i]
    BY <1>1, <1>3, <1>8 DEF CommitFile, TypeOK
  <2>4. Agree(Request, base[Request], cur)
    BY <1>2, <1>8 DEF CommitFile, Accounting, Holding
  <2>5. /\ done' = done \cup {f} /\ step = "committing" /\ step' = "committing"
        /\ UNCHANGED <<durable, now, op, rid, holder, cur, code, blocked, unresolved, unrepaired, orphans>>
    BY <1>8 DEF CommitFile
  <2> QED
    BY <1>1, <1>2, <1>3, <1>4, <1>8, <2>1, <2>2, <2>3, <2>4, <2>5, StayPreserves DEF CommitFile, TypeOK
<1>9. ASSUME NEW f \in Files, CommitFails(f) PROVE Accounting'
  BY <1>1, <1>2, <1>3, <1>4, <1>9, StayPreserves DEF CommitFails, TypeOK, durable, history
<1>10. CASE PersistApplied
  <2>1. effect[Request] = Touches[Request]
    BY <1>3, <1>10 DEF PersistApplied, Left
  <2>2. rec'[Request].status = "applied"
    BY <1>1, <1>3, <1>10 DEF PersistApplied, Resolved, TypeOK
  <2> QED
    BY <1>1, <1>2, <1>4, <1>10, <2>1, <2>2, LeavePreserves DEF PersistApplied, TypeOK, history
<1>11. CASE PersistAppliedFails
  BY <1>1, <1>2, <1>3, <1>4, <1>11, StayPreserves DEF PersistAppliedFails, TypeOK, durable, history
<1>12. CASE Undo
  <2>1. PICK kept \in SUBSET done :
          /\ IF \A f \in kept : ws[f] # Request THEN NoFault ELSE Fault
          /\ ws' = [f \in Files |-> IF f \in done \ kept THEN cur[f] ELSE ws[f]]
          /\ effect' = [effect EXCEPT ![Request] = @ \ (done \ kept)]
          /\ done' = kept
          /\ unresolved' = IF kept = {} THEN unresolved ELSE unresolved \cup {Request}
          /\ unrepaired' = IF kept = {} THEN unrepaired ELSE unrepaired \cup {Request}
    BY <1>12 DEF Undo
  <2>2. ws' \in [Files -> Contents]
    BY <1>1, <2>1 DEF TypeOK
  <2>3. /\ effect' \in [Ids -> SUBSET Files]
        /\ effect'[Request] = effect[Request] \ (done \ kept)
        /\ \A i \in Ids \ {Request} : effect'[i] = effect[i]
    BY <1>1, <1>3, <2>1 DEF TypeOK
  <2>4. edits' \in Nat /\ crashes' \in Nat /\ faults' \in Nat
    BY <1>4, <2>1
  <2>5. /\ step = "undoing" /\ step' = "concluding"
        /\ UNCHANGED <<durable, now, op, rid, holder, cur, code, blocked, orphans>>
    BY <1>12 DEF Undo
  <2>6. /\ unresolved \subseteq unresolved' /\ unresolved' \subseteq Ids /\ unrepaired' \subseteq Ids
        /\ done' # {} => Request \in unresolved'
        /\ unrepaired' # unrepaired => done' # {}
    BY <1>1, <1>3, <2>1 DEF TypeOK
  <2> QED
    BY <1>1, <1>2, <1>3, <2>1, <2>2, <2>3, <2>4, <2>5, <2>6, StayPreserves DEF TypeOK
<1>13. CASE Conclude
  <2>1. done # {} => Request \in unresolved
    BY <1>2, <1>13 DEF Conclude, Accounting, Holding
  <2>2. rec' = rec \/ \E status \in {"stale", "failed"} : rec' = [rec EXCEPT ![Request] = Resolved(status)]
    BY <1>13 DEF Conclude, Persist
  <2>3. edits' \in Nat /\ crashes' \in Nat /\ faults' \in Nat
    BY <1>4, <1>13 DEF Conclude, Persist
  <2> QED
    BY <1>2, <1>13, <2>1, <2>2, <2>3, LeavePreserves DEF Conclude
<1> QED
  BY <1>5, <1>6, <1>7, <1>8, <1>9, <1>10, <1>11, <1>12, <1>13 DEF Inside

\* Other programs, time, and steps that change nothing.
LEMMA OutsidePreserves ==
  ASSUME Accounting, (\E f \in Files : Edit(f)) \/ Tick \/ UNCHANGED vars
  PROVE  Accounting'
<1> USE DEF Accounting, Edit, Tick, vars, durable, inside, bounds, history
<1>1. UNCHANGED <<rec, base, used, op, rid, holder, step, cur, done, code, blocked, effect,
                  unresolved, unrepaired, orphans>>
  OBVIOUS
<1>2. TypeOK'
  <2>1. ws' \in [Files -> Contents] /\ now' \in Nat /\ edits' \in Nat /\ crashes' \in Nat /\ faults' \in Nat
    BY DEF TypeOK, Contents
  <2> HIDE DEF Accounting, Edit, Tick, vars
  <2> QED
    BY <1>1, <2>1 DEF Accounting, TypeOK
<1> HIDE DEF Edit, Tick, vars
<1>3. Calls' /\ Holding' /\ Effects'
  BY <1>1 DEF Calls, Queued, OwnIds, Untouched, Holding, Effects, Underway, InProgress, Request, Agree
<1> QED
  BY <1>2, <1>3

\* A crash leaves the calls behind, and what was being written to an orphan.
LEMMA CrashPreserves == Accounting /\ Crash => Accounting'
<1> SUFFICES ASSUME Accounting, Crash PROVE Accounting'
  OBVIOUS
<1> USE ConstantsAssumption DEF Accounting, Crash, durable
<1>1. \A i \in Ids : Underway(i)' = {}
  BY DEF Underway, InProgress
<1>2. holder # Nobody => Request \in Ids /\ \A i \in Ids \ {Request} : Underway(i) = {}
  BY HolderFacts
<1>3. holder = Nobody => \A i \in Ids : Underway(i) = {}
  BY DEF Underway, InProgress
<1>4. TypeOK'
  <2>1. orphans' \subseteq Ids /\ crashes' \in Nat
    BY <1>2 DEF TypeOK
  <2>2. /\ op' \in [Handlers -> {"idle", "create", "approve", "reject", "host", "read"}]
        /\ rid' \in [Handlers -> Ids \cup {Nobody}]
    OBVIOUS
  <2>3. /\ holder' = Nobody /\ step' = "none" /\ done' = {} /\ code' = "none" /\ blocked' = FALSE
        /\ unrepaired' = {}
        /\ UNCHANGED <<rec, base, used, ws, now, cur, edits, faults, effect, unresolved>>
    OBVIOUS
  <2> HIDE DEF Crash
  <2> QED
    BY <2>1, <2>2, <2>3 DEF TypeOK
<1>5. Calls'
  BY DEF Calls, Queued, OwnIds, Untouched
<1>6. Holding'
  BY DEF Holding
<1>7. ASSUME NEW i \in Ids
      PROVE  effect[i] # {} => rec[i].status \in {"applied", "removed"} \/ i \in unresolved \cup orphans'
  <2>1. CASE holder # Nobody /\ i = Request /\ done # {}
    BY <2>1
  <2>2. CASE ~(holder # Nobody /\ i = Request /\ done # {})
    <3>1. Underway(i) = {}
      BY <1>2, <1>3, <2>2, HolderFacts
    <3> QED
      BY <3>1 DEF Effects
  <2> QED
    BY <2>1, <2>2
<1>8. Effects'
  BY <1>1, <1>7 DEF Effects
<1> QED
  BY <1>4, <1>5, <1>6, <1>8

\* Every step preserves the accounting.
LEMMA NextPreserves == Accounting /\ [Next]_vars => Accounting'
<1> SUFFICES ASSUME Accounting, [Next]_vars PROVE Accounting'
  OBVIOUS
<1>1. ASSUME NEW x \in Handlers,
             (\E i \in Ids : CallPrepared(x, i) \/ CallOnRequest(x, i)) \/ CallRead(x) \/ Serve(x)
      PROVE  Accounting'
  BY <1>1, ArrivalsPreserve, TurnsPreserve, BeginPreserves DEF Serve
<1> QED
  BY <1>1, InsidePreserves, OutsidePreserves, CrashPreserves DEF Next

\* The accounting is an invariant of the service, through crashes and edits.
THEOREM AccountingInvariant == Spec => []Accounting
BY InitEstablishes, NextPreserves, PTL DEF Spec

\* The variables of the service keep their types.
THEOREM TypeCorrect == Spec => []TypeOK
BY AccountingInvariant, PTL DEF Accounting

\* A file written for a request and not taken back is behind a receipt, an
\* unresolved rollback or a crash.
THEOREM EffectsAccounted == Spec => []EveryEffectAccounted
<1>1. Accounting => EveryEffectAccounted
  BY DEF Accounting, Effects, Underway, EveryEffectAccounted
<1> QED
  BY <1>1, AccountingInvariant, PTL

\* A receipt that says applied belongs to a patch written completely.
THEOREM AppliedCompletely == Spec => []AppliedIsComplete
<1>1. Accounting => AppliedIsComplete
  BY DEF Accounting, Effects, AppliedIsComplete
<1> QED
  BY <1>1, AccountingInvariant, PTL

\* Only CommitFile writes, in a mutex that is held by a service not blocked.
LEMMA WritingSteps ==
  ASSUME Accounting, [Next]_vars, NEW i \in Ids, NEW f \in Files, Writes(i, f)
  PROVE  /\ rec[i].status = IF Mode[i] = "manual" THEN "pending" ELSE "none"
         /\ ws[f] = base[i][f]
         /\ unrepaired = {}
<1>1. holder # Nobody /\ Request = i /\ f \in done' \ done
  BY DEF Writes, InProgress
<1>2. CommitFile(f)
  <2>1. \/ \E g \in Files : CommitFile(g)
        \/ done' \subseteq done
    BY DEF Next, vars, inside, CallPrepared, CallOnRequest, CallRead, Call, Serve, Refuse, TidyFails, Read,
       Create, Reject, NotPending, Begin, Quietly, Inside, Revalidate, FindStale, TargetLost, Leave,
       CommitFails, PersistApplied, PersistAppliedFails, Undo, Conclude, Edit, Tick, Crash
  <2> QED
    BY <1>1, <2>1 DEF CommitFile
<1>3. rec[i].status = IF Mode[i] = "manual" THEN "pending" ELSE "none"
  BY <1>1, HolderFacts
<1>4. Agree(i, base[i], cur) /\ step = "committing" /\ ~blocked
  BY <1>1, <1>2 DEF CommitFile, Accounting, Holding
<1>5. f \in Touches[i] /\ ws[f] = cur[f]
  BY <1>1, <1>2 DEF CommitFile, IsNext, Left
<1>6. unrepaired = {}
  BY <1>4 DEF Accounting, Holding
<1> QED
  BY <1>3, <1>4, <1>5, <1>6 DEF Agree

\* A file is written only while the durable record allows it, over the content
\* its request was prepared from, and never after an unresolved rollback.
THEOREM WritesAuthorized == Spec => WritesAreAuthorized
<1>1. Accounting /\ [Next]_vars =>
        \A i \in Ids, f \in Files :
          Writes(i, f) => RecordAllows(i) /\ ws[f] = base[i][f] /\ unrepaired = {}
  BY WritingSteps DEF RecordAllows
<1> QED
  BY <1>1, AccountingInvariant, PTL DEF Spec, WritesAreAuthorized

\* Only manual requests are created pending.
PendingIsManual ==
  /\ \A x \in Handlers : op[x] = "create" => Mode[rid[x]] = "manual"
  /\ \A i \in Ids : rec[i].status = "pending" => Mode[i] = "manual"

\* How the record of request i moves in the lifecycle.
Moves(i) ==
  \/ rec'[i].status = rec[i].status
  \/ Mode[i] = "manual" /\ rec[i].status = "none" /\ rec'[i].status = "pending"
  \/ /\ rec[i].status = IF Mode[i] = "manual" THEN "pending" ELSE "none"
     /\ rec'[i].status \in {"applied", "stale", "failed"}
     /\ rec'[i].status = "applied" => effect[i] = Touches[i]
  \/ /\ Mode[i] = "manual" /\ rec[i].status = "pending"
     /\ rec'[i].status \in {"rejected", "expired"}
  \/ rec[i].status \in Resolutions /\ rec'[i].status = "removed"

\* A record that ages moves in the lifecycle.
LEMMA AgingMoves ==
  ASSUME Accounting, PendingIsManual, NEW i \in Ids, Ages(i)
  PROVE  Moves(i)
BY DEF Moves, Ages, PendingIsManual

\* Tidying moves records in the lifecycle.
LEMMA TidyingMoves ==
  ASSUME Accounting, PendingIsManual, NEW S \in SUBSET Due, NEW i \in Ids, rec'[i] = Tidied(S)[i]
  PROVE  Moves(i)
BY TidyingAges, AgingMoves DEF Ages, Accounting

\* The operations that are over within their turn.
LEMMA TurnMoves ==
  ASSUME Accounting, PendingIsManual, NEW x \in Handlers, Serve(x), NEW i \in Ids
  PROVE  Moves(i)
<1>1. Due \in SUBSET Due /\ rec \in [Ids -> Records]
  BY DEF Accounting, TypeOK, Records
<1>2. Tidied(Due) \in [Ids -> Records]
  BY <1>1, TidyingAges DEF Accounting
<1>3. CASE rec' = rec
  BY <1>3 DEF Moves
<1>4. CASE \E S \in SUBSET Due : rec' = Tidied(S)
  BY <1>4, TidyingMoves
<1>5. CASE /\ Turn(x, {"create"})
           /\ rec' = [Tidied(Due) EXCEPT ![rid[x]] = [status |-> "pending", at |-> now + PendingTtl]]
  <2>1. op[x] = "create" /\ rec[rid[x]].status = "none" /\ Mode[rid[x]] = "manual"
    BY <1>5 DEF Turn, Accounting, Calls, Queued, PendingIsManual
  <2>2. CASE i = rid[x]
    BY <1>2, <1>5, <2>1, <2>2 DEF Moves
  <2>3. CASE i # rid[x]
    BY <1>1, <1>2, <1>5, <2>3, TidyingMoves
  <2> QED
    BY <2>2, <2>3
<1>6. CASE /\ Turn(x, {"reject"}) /\ Tidied(Due)[rid[x]].status = "pending"
           /\ rec' = [Tidied(Due) EXCEPT ![rid[x]] = Resolved("rejected")]
  <2>1. CASE i = rid[x]
    <3>1. rec[i].status = "pending"
      BY <1>1, <1>6, <2>1, TidyingAges DEF Accounting
    <3>2. rec'[i].status = "rejected"
      BY <1>2, <1>6, <2>1 DEF Resolved
    <3> QED
      BY <3>1, <3>2 DEF Moves, PendingIsManual
  <2>2. CASE i # rid[x]
    BY <1>1, <1>2, <1>6, <2>2, TidyingMoves
  <2> QED
    BY <2>1, <2>2
<1> QED
  BY <1>1, <1>3, <1>4, <1>5, <1>6
     DEF Serve, Refuse, TidyFails, Read, Create, Reject, NotPending, Begin

\* The operation inside the mutex resolves the record of its own request.
LEMMA InsideMoves ==
  ASSUME Accounting, Inside, NEW i \in Ids
  PROVE  Moves(i)
<1>1. holder # Nobody /\ rec \in [Ids -> Records]
  BY DEF Accounting, TypeOK, Records, Holding, Inside, Revalidate, FindStale, TargetLost, CommitFile,
     CommitFails, PersistApplied, PersistAppliedFails, Undo, Conclude
<1>2. /\ rec[Request].status = IF Mode[Request] = "manual" THEN "pending" ELSE "none"
      /\ Request \in Ids
  BY <1>1, HolderFacts
<1>3. ASSUME NEW status \in {"applied", "stale", "failed"},
             rec' = [rec EXCEPT ![Request] = Resolved(status)],
             status = "applied" => effect[Request] = Touches[Request]
      PROVE  Moves(i)
  BY <1>1, <1>2, <1>3 DEF Moves, Resolved
<1>4. PersistApplied => effect[Request] = Touches[Request]
  BY <1>1, <1>2, HolderFacts DEF PersistApplied, Left, Accounting, Holding, Effects
<1>5. CASE rec' = rec
  BY <1>5 DEF Moves
<1> QED
  BY <1>3, <1>4, <1>5
     DEF Inside, Revalidate, FindStale, TargetLost, CommitFile, CommitFails, PersistApplied,
         PersistAppliedFails, Undo, Conclude, Persist, durable

\* Calls, edits, time and crashes leave the records alone.
LEMMA OthersMove ==
  ASSUME NEW i \in Ids,
         \/ \E x \in Handlers, j \in Ids : CallPrepared(x, j) \/ CallOnRequest(x, j)
         \/ \E x \in Handlers : CallRead(x)
         \/ \E f \in Files : Edit(f)
         \/ Tick \/ Crash \/ UNCHANGED vars
  PROVE  Moves(i)
BY DEF Moves, CallPrepared, CallOnRequest, CallRead, Call, Edit, Tick, Crash, vars, durable

\* Every record moves in the lifecycle.
LEMMA RecordsMove ==
  ASSUME Accounting, PendingIsManual, [Next]_vars, NEW i \in Ids
  PROVE  Moves(i)
BY TurnMoves, InsideMoves, OthersMove DEF Next

\* What is written for a request is settled once it is applied: only the
\* operation in progress writes or takes back, and its own record says so.
LEMMA AppliedIsSettled ==
  ASSUME Accounting, [Next]_vars, NEW i \in Ids, rec[i].status = "applied"
  PROVE  effect'[i] = effect[i]
<1>1. CASE UNCHANGED effect
  BY <1>1
<1>2. CASE Inside
  <2>1. holder # Nobody
    BY <1>2 DEF Accounting, Holding, Inside, Revalidate, FindStale, TargetLost, CommitFile,
       CommitFails, PersistApplied, PersistAppliedFails, Undo, Conclude
  <2>2. i # Request
    BY <2>1, HolderFacts
  <2>3. effect \in [Ids -> SUBSET Files]
    BY DEF Accounting, TypeOK
  <2> QED
    BY <1>2, <2>2, <2>3
       DEF Inside, Revalidate, FindStale, TargetLost, CommitFile, CommitFails, PersistApplied,
           PersistAppliedFails, Undo, Conclude, history
<1> QED
  BY <1>1, <1>2
     DEF Next, CallPrepared, CallOnRequest, CallRead, Call, Serve, Refuse, TidyFails, Read, Create,
         Reject, NotPending, Begin, Quietly, Edit, Tick, Crash, vars, history

\* Pending requests stay manual.
LEMMA ManualPreserved == Accounting /\ PendingIsManual /\ [Next]_vars => PendingIsManual'
<1> SUFFICES ASSUME Accounting, PendingIsManual, [Next]_vars PROVE PendingIsManual'
  OBVIOUS
<1>1. ASSUME NEW i \in Ids, rec'[i].status = "pending" PROVE Mode[i] = "manual"
  BY <1>1, RecordsMove DEF Moves, PendingIsManual
<1>2. ASSUME NEW x \in Handlers, op'[x] = "create" PROVE Mode[rid'[x]] = "manual"
  <2>1. op \in [Handlers -> {"idle", "create", "approve", "reject", "host", "read"}]
        /\ rid \in [Handlers -> Ids \cup {Nobody}]
    BY DEF Accounting, TypeOK
  <2>2. CASE op'[x] = op[x] /\ rid'[x] = rid[x]
    BY <1>2, <2>2 DEF PendingIsManual
  <2>3. ASSUME NEW y \in Handlers, NEW i \in Ids, CallPrepared(y, i) PROVE Mode[rid'[x]] = "manual"
    BY <1>2, <2>1, <2>3 DEF CallPrepared, Call, PendingIsManual
  <2>4. ASSUME NEW y \in Handlers, (\E i \in Ids : CallOnRequest(y, i)) \/ CallRead(y)
        PROVE  Mode[rid'[x]] = "manual"
    BY <1>2, <2>1, <2>4 DEF CallOnRequest, CallRead, Call, PendingIsManual
  <2>5. ASSUME NEW y \in Handlers, Return(y) PROVE Mode[rid'[x]] = "manual"
    BY <1>2, <2>1, <2>5 DEF Return, PendingIsManual
  <2>6. CASE Crash
    BY <1>2, <2>6 DEF Crash
  <2>7. ASSUME NEW y \in Handlers, Serve(y) PROVE Return(y) \/ UNCHANGED <<op, rid>>
    BY <2>7 DEF Serve, Refuse, TidyFails, Read, Create, Reject, NotPending, Begin
  <2>8. Inside /\ Leave => holder \in Handlers
    BY DEF Accounting, TypeOK, Holding, Inside, Revalidate, FindStale, TargetLost, CommitFile,
       CommitFails, PersistApplied, PersistAppliedFails, Undo, Conclude
  <2>9. Inside => Leave \/ UNCHANGED <<op, rid>>
    BY DEF Inside, Revalidate, FindStale, TargetLost, CommitFile, CommitFails, PersistApplied,
       PersistAppliedFails, Undo, Conclude
  <2>10. CASE Inside
    BY <2>2, <2>5, <2>8, <2>9, <2>10 DEF Leave
  <2>11. (\E f \in Files : Edit(f)) \/ Tick \/ UNCHANGED vars => UNCHANGED <<op, rid>>
    BY DEF Edit, Tick, vars
  <2> QED
    BY <2>2, <2>3, <2>4, <2>5, <2>6, <2>7, <2>10, <2>11 DEF Next
<1> QED
  BY <1>1, <1>2 DEF PendingIsManual

\* The service implements the lifecycle that SPEC-002 draws.
THEOREM Implements == Spec => ImplementsLifecycle
<1>1. Init => Lifecycle!Init /\ PendingIsManual
  <2> SUFFICES ASSUME Init PROVE Lifecycle!Init /\ PendingIsManual
    OBVIOUS
  <2>1. Status = [i \in Ids |-> "none"]
    BY DEF Init, NoRecord, Status
  <2>2. Complete = {}
    BY ConstantsAssumption DEF Init, Complete
  <2> QED
    BY <2>1, <2>2 DEF Init, NoRecord, PendingIsManual, Lifecycle!Init
<1>2. Accounting /\ PendingIsManual /\ Accounting' /\ [Next]_vars => Lifecycle!Next
  <2> SUFFICES ASSUME Accounting, PendingIsManual, Accounting', [Next]_vars PROVE Lifecycle!Next
    OBVIOUS
  <2>1. Status' \in [Ids -> {"none", "pending", "removed"} \cup Lifecycle!ManualResolutions]
    BY DEF Accounting, TypeOK, Resolutions, Status, Lifecycle!ManualResolutions, Lifecycle!HostResolutions
  <2>2. ASSUME NEW i \in Ids, Status'[i] # Status[i]
        PROVE  Lifecycle!Propose(i) \/ Lifecycle!Resolve(i) \/ Lifecycle!Forget(i)
    <3>1. Moves(i) /\ Status[i] = rec[i].status /\ Status'[i] = rec'[i].status
      BY RecordsMove DEF Status
    <3>2. effect[i] = Touches[i] => i \in Complete
      BY DEF Complete
    <3>3. Mode[i] \in {"manual", "host"}
      BY ConstantsAssumption
    <3> HIDE DEF Status, Complete
    <3> QED
      BY <2>2, <3>1, <3>2, <3>3
         DEF Moves, Resolutions, Lifecycle!Propose, Lifecycle!Resolve, Lifecycle!Forget,
             Lifecycle!ManualResolutions, Lifecycle!HostResolutions
  <2>3. Complete' \subseteq Ids
    BY DEF Complete
  <2>4. \A i \in Complete : Status[i] = "applied" => i \in Complete'
    BY AppliedIsSettled DEF Complete, Status
  <2> QED
    BY <2>1, <2>2, <2>3, <2>4 DEF Lifecycle!Next
<1> QED
  BY <1>1, <1>2, ManualPreserved, AccountingInvariant, PTL DEF Spec, ImplementsLifecycle, Lifecycle!Spec
=============================================================================
