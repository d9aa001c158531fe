---------------------------- MODULE WriteRequests ----------------------------
(***************************************************************************)
(* WriteRequestService (src/write-requests/service.ts) over its record     *)
(* store (store.ts), the workspace it writes to, other programs that edit  *)
(* that workspace, and crashes of the broker.                              *)
(*                                                                         *)
(* Every operation runs in the service's LifecycleMutex; what it does up   *)
(* to its first await is one action.  An approval and a host-confirmed     *)
(* write await target resolution and then commit file by file; of apply.ts *)
(* this module keeps what PatchTransaction promises, with the edits that   *)
(* fall between a guard and its call left to PatchApply.                   *)
(*                                                                         *)
(* The content of a file is the id of the request that wrote it, or        *)
(* "original" or "foreign".                                                *)
(***************************************************************************)
EXTENDS Integers

CONSTANTS
  Ids,         \* request ids; each is given out once
  Mode,        \* Mode[i]: "manual" or "host"
  Touches,     \* Touches[i]: the files the patch of request i replaces
  M,           \* files are 1..M; a patch replaces its files in this order
  Handlers,    \* operations that can be in progress together
  Nobody,
  PendingTtl,  \* PENDING_TTL_MS
  Retention,   \* TERMINAL_RETENTION_MS
  MaxTime, MaxEdits, MaxCrashes, MaxFaults   \* bounds of the model

Files == 1..M

ASSUME ConstantsAssumption ==
  /\ M \in Nat
  /\ Mode \in [Ids -> {"manual", "host"}]
  /\ Touches \in [Ids -> SUBSET Files] /\ \A i \in Ids : Touches[i] # {}
  /\ Nobody \notin Handlers /\ Nobody \notin Ids
  /\ Ids \cap {"original", "foreign"} = {}
  /\ PendingTtl \in Nat /\ Retention \in Nat
  /\ MaxTime \in Nat /\ MaxEdits \in Nat /\ MaxCrashes \in Nat /\ MaxFaults \in Nat

VARIABLES
  rec,       \* durable records: status, and when it expires or was resolved
  base,      \* base[i]: the contents request i was prepared from
  used,      \* ids given out
  ws,        \* the workspace: content of each file
  now,       \* the clock
  op, rid,   \* each handler's operation and the request it is about
  holder,    \* the handler inside the mutex across an await, or Nobody
  step,      \* and how far it has come
  cur,       \* the contents its own preparation saw
  done,      \* the files it has replaced
  code,      \* why it is being undone
  blocked,   \* blockedByRollback
  edits, crashes, faults,
  effect,      \* history: files written for a request and not taken back
  unresolved,  \* history: requests whose rollback was left unresolved
  unrepaired,  \* those of them since the broker last started
  orphans      \* history: requests that a crash cut off with files written

durable == <<rec, base, used>>
inside == <<step, cur, done, code>>
bounds == <<edits, crashes, faults>>
history == <<effect, unresolved, unrepaired, orphans>>
vars == <<durable, ws, now, op, rid, holder, inside, blocked, bounds, history>>

Contents == Ids \cup {"original", "foreign"}
Resolutions == {"applied", "rejected", "stale", "expired", "failed"}
NoRecord == [status |-> "none", at |-> 0]

Init ==
  /\ rec = [i \in Ids |-> NoRecord]
  /\ base = [i \in Ids |-> [f \in Files |-> "original"]]
  /\ used = {}
  /\ ws = [f \in Files |-> "original"]
  /\ now = 0
  /\ op = [x \in Handlers |-> "idle"] /\ rid = [x \in Handlers |-> Nobody]
  /\ holder = Nobody /\ step = "none"
  /\ cur = [f \in Files |-> "original"] /\ done = {} /\ code = "none"
  /\ blocked = FALSE
  /\ edits = 0 /\ crashes = 0 /\ faults = 0
  /\ effect = [i \in Ids |-> {}]
  /\ unresolved = {} /\ unrepaired = {} /\ orphans = {}

Agree(i, before, after) == \A f \in Touches[i] : before[f] = after[f]

Fault == faults < MaxFaults /\ faults' = faults + 1 /\ UNCHANGED <<edits, crashes>>
NoFault == UNCHANGED bounds
-----------------------------------------------------------------------------
(* Calls arrive.  A patch is prepared before the mutex is entered.         *)

Call(x, what, i) ==
  /\ op[x] = "idle"
  /\ op' = [op EXCEPT ![x] = what]
  /\ rid' = [rid EXCEPT ![x] = i]
  /\ UNCHANGED <<rec, ws, now, holder, inside, blocked, bounds, history>>

CallPrepared(x, i) ==
  /\ i \notin used
  /\ used' = used \cup {i}
  /\ base' = [base EXCEPT ![i] = ws]
  /\ Call(x, IF Mode[i] = "manual" THEN "create" ELSE "host", i)

CallOnRequest(x, i) ==
  /\ Mode[i] = "manual" /\ rec[i].status # "none"
  /\ \E what \in {"approve", "reject"} : Call(x, what, i)
  /\ UNCHANGED <<used, base>>

\* listRequests and getRequest do the same to the state.
CallRead(x) ==
  /\ Call(x, "read", Nobody)
  /\ UNCHANGED <<used, base>>
-----------------------------------------------------------------------------
(* expireAndPruneLocked.                                                   *)

Expired(r) == r.status = "pending" /\ r.at <= now
PastRetention(r) == r.status \in Resolutions /\ r.at < now - Retention
Due == {i \in Ids : Expired(rec[i]) \/ PastRetention(rec[i])}

Resolved(status) == [status |-> status, at |-> now]

Tidied(S) ==
  [i \in Ids |-> IF i \notin S THEN rec[i]
                 ELSE IF rec[i].status = "pending" THEN Resolved("expired")
                 ELSE [status |-> "removed", at |-> 0]]

\* Handler x is in the queue and the mutex is free.
Turn(x, what) == holder = Nobody /\ op[x] \in what

Return(x) ==
  /\ op' = [op EXCEPT ![x] = "idle"]
  /\ rid' = [rid EXCEPT ![x] = Nobody]

Quietly == UNCHANGED <<base, used, ws, now, holder, inside, blocked, history>>

\* assertWritable.
Refuse(x) ==
  /\ Turn(x, {"create", "approve", "reject", "host"}) /\ blocked
  /\ Return(x) /\ NoFault
  /\ Quietly /\ UNCHANGED rec

\* The records cannot be listed, or one of the updates or removals fails:
\* those before it stand, and the operation throws without doing anything of
\* its own.
TidyFails(x) ==
  /\ Turn(x, {"create", "approve", "reject", "read"}) /\ ~blocked
  /\ \E S \in SUBSET Due : rec' = Tidied(S)
  /\ Return(x) /\ Fault
  /\ Quietly

Read(x) ==
  /\ Turn(x, {"read"})
  /\ rec' = IF blocked THEN rec ELSE Tidied(Due)
  /\ Return(x) /\ NoFault
  /\ Quietly

Create(x) ==
  /\ Turn(x, {"create"}) /\ ~blocked
  /\ \/ /\ rec' = [Tidied(Due) EXCEPT ![rid[x]] =
                     [status |-> "pending", at |-> now + PendingTtl]]
        /\ NoFault
     \/ rec' = Tidied(Due) /\ Fault
  /\ Return(x)
  /\ Quietly

\* Mutant: the status of the record is not looked at.
RejectAny(x) ==
  /\ Turn(x, {"reject"}) /\ ~blocked
  /\ \/ rec' = [Tidied(Due) EXCEPT ![rid[x]] = Resolved("rejected")] /\ NoFault
     \/ rec' = Tidied(Due) /\ Fault
  /\ Return(x)
  /\ Quietly

Reject(x) ==
  /\ Turn(x, {"reject"}) /\ ~blocked
  /\ Tidied(Due)[rid[x]].status = "pending"
  /\ \/ rec' = [Tidied(Due) EXCEPT ![rid[x]] = Resolved("rejected")] /\ NoFault
     \/ rec' = Tidied(Due) /\ Fault
  /\ Return(x)
  /\ Quietly

\* The request has expired, is resolved already or is gone.
NotPending(x) ==
  /\ Turn(x, {"approve", "reject"}) /\ ~blocked
  /\ Tidied(Due)[rid[x]].status # "pending"
  /\ rec' = Tidied(Due)
  /\ Return(x) /\ NoFault
  /\ Quietly

\* An approval of a pending request and a host-confirmed write go on to await
\* the resolution of their target, inside the mutex.  Only the approval
\* expires and prunes first.
Begin(x) ==
  /\ Turn(x, {"approve", "host"}) /\ ~blocked
  /\ \/ /\ op[x] = "approve"
        /\ Tidied(Due)[rid[x]].status = "pending"
        /\ rec' = Tidied(Due)
     \/ op[x] = "host" /\ UNCHANGED rec
  /\ holder' = x
  /\ step' = "resolving"
  /\ NoFault
  /\ UNCHANGED <<base, used, ws, now, op, rid, cur, done, code, blocked, history>>
-----------------------------------------------------------------------------
(* Inside the mutex, after the await.                                      *)

Request == rid[holder]

\* The operation ends, with or without an error, and the mutex is released.
Leave ==
  /\ Return(holder)
  /\ holder' = Nobody /\ step' = "none" /\ done' = {} /\ code' = "none"
  /\ UNCHANGED cur

\* store.update of a manual record, store.create of a host receipt.
Persist(status) ==
  \/ rec' = [rec EXCEPT ![Request] = Resolved(status)] /\ NoFault
  \/ UNCHANGED rec /\ Fault

\* Mutant: the new preparation is not compared with the reviewed one.
RevalidateNothing ==
  /\ step = "resolving"
  /\ cur' = ws
  /\ step' = "committing"
  /\ NoFault
  /\ UNCHANGED <<durable, ws, now, op, rid, holder, done, code, blocked, history>>

\* The target is prepared again and must equal what was reviewed.
Revalidate ==
  /\ step = "resolving"
  /\ Agree(Request, base[Request], ws)
  /\ cur' = ws
  /\ step' = "committing"
  /\ NoFault
  /\ UNCHANGED <<durable, ws, now, op, rid, holder, done, code, blocked, history>>

FindStale ==
  /\ step = "resolving"
  /\ ~Agree(Request, base[Request], ws)
  /\ Persist("stale") /\ Leave
  /\ UNCHANGED <<base, used, ws, now, blocked, history>>

\* The workspace, or the path below it, has become unavailable.
TargetLost ==
  /\ step = "resolving"
  /\ Fault
  /\ rec' = [rec EXCEPT ![Request] = Resolved("stale")]
  /\ Leave
  /\ UNCHANGED <<base, used, ws, now, blocked, history>>

Left == Touches[Request] \ done
IsNext(f) == f \in Left /\ \A g \in Left : f <= g

CommitFile(f) ==
  /\ step = "committing" /\ IsNext(f)
  /\ ws[f] = cur[f]
  /\ ws' = [ws EXCEPT ![f] = Request]
  /\ done' = done \cup {f}
  /\ effect' = [effect EXCEPT ![Request] = @ \cup {f}]
  /\ NoFault
  /\ UNCHANGED <<durable, now, op, rid, holder, step, cur, code, blocked,
                 unresolved, unrepaired, orphans>>

CommitFails(f) ==
  /\ step = "committing" /\ IsNext(f)
  /\ \/ ws[f] # cur[f] /\ code' = "stale" /\ NoFault
     \/ code' = "failed" /\ Fault
  /\ step' = "undoing"
  /\ UNCHANGED <<durable, ws, now, op, rid, holder, cur, done, blocked, history>>

PersistApplied ==
  /\ step = "committing" /\ Left = {}
  /\ rec' = [rec EXCEPT ![Request] = Resolved("applied")]
  /\ Leave /\ NoFault
  /\ UNCHANGED <<base, used, ws, now, blocked, history>>

\* Mutants: a receipt that cannot be persisted does not undo the patch, or
\* escapes without releasing the mutex.
PersistAppliedFailsKeeping ==
  /\ step = "committing" /\ Left = {}
  /\ Leave /\ Fault
  /\ UNCHANGED <<durable, ws, now, blocked, history>>

PersistAppliedFailsHolding ==
  /\ step = "committing" /\ Left = {}
  /\ step' = "none" /\ Fault
  /\ UNCHANGED <<durable, ws, now, op, rid, holder, cur, done, code, blocked, history>>

PersistAppliedFails ==
  /\ step = "committing" /\ Left = {}
  /\ step' = "undoing" /\ code' = "receipt"
  /\ Fault
  /\ UNCHANGED <<durable, ws, now, op, rid, holder, cur, done, blocked, history>>

\* Only files that still hold the result are restored; restoring one of them
\* may fail too.
Undo ==
  /\ step = "undoing"
  /\ \E kept \in SUBSET done :
       /\ {f \in done : ws[f] # Request} \subseteq kept
       /\ IF \A f \in kept : ws[f] # Request THEN NoFault ELSE Fault
       /\ ws' = [f \in Files |-> IF f \in done \ kept THEN cur[f] ELSE ws[f]]
       /\ effect' = [effect EXCEPT ![Request] = @ \ (done \ kept)]
       /\ done' = kept
       /\ unresolved' = IF kept = {} THEN unresolved ELSE unresolved \cup {Request}
       /\ unrepaired' = IF kept = {} THEN unrepaired ELSE unrepaired \cup {Request}
  /\ step' = "concluding"
  /\ UNCHANGED <<durable, now, op, rid, holder, cur, code, blocked, orphans>>

\* persistApplyFailure, persistHostFailure, and the catch block of the
\* receipt: an unresolved rollback blocks the service before anything else is
\* tried, and a rolled-back receipt failure leaves the record as it was.
Conclude ==
  /\ step = "concluding"
  /\ blocked' = (blocked \/ done # {})
  /\ IF code = "receipt"
     THEN UNCHANGED rec /\ NoFault
     ELSE Persist(IF code = "stale" /\ done = {} THEN "stale" ELSE "failed")
  /\ Leave
  /\ UNCHANGED <<base, used, ws, now, history>>
-----------------------------------------------------------------------------
(* The environment.                                                        *)

\* Another program edits a file, or puts the original content back.
Edit(f) ==
  /\ edits < MaxEdits /\ edits' = edits + 1
  /\ \E content \in {"original", "foreign"} \ {ws[f]} :
       ws' = [ws EXCEPT ![f] = content]
  /\ UNCHANGED <<durable, now, op, rid, holder, inside, blocked, crashes, faults, history>>

Tick ==
  /\ now < MaxTime /\ now' = now + 1
  /\ UNCHANGED <<durable, ws, op, rid, holder, inside, blocked, bounds, history>>

\* The broker dies and is started again: the records and the workspace are
\* all that survives.
Crash ==
  /\ crashes < MaxCrashes /\ crashes' = crashes + 1
  /\ orphans' = IF holder # Nobody /\ done # {} THEN orphans \cup {Request} ELSE orphans
  /\ op' = [x \in Handlers |-> "idle"] /\ rid' = [x \in Handlers |-> Nobody]
  /\ holder' = Nobody /\ step' = "none" /\ done' = {} /\ code' = "none"
  /\ blocked' = FALSE
  /\ unrepaired' = {}
  /\ UNCHANGED <<durable, ws, now, cur, edits, faults, effect, unresolved>>

Inside ==
  \/ Revalidate \/ FindStale \/ TargetLost
  \/ \E f \in Files : CommitFile(f) \/ CommitFails(f)
  \/ PersistApplied \/ PersistAppliedFails
  \/ Undo \/ Conclude

Serve(x) ==
  \/ Refuse(x) \/ TidyFails(x)
  \/ Read(x) \/ Create(x) \/ Reject(x) \/ NotPending(x) \/ Begin(x)

Next ==
  \/ \E x \in Handlers :
       \/ \E i \in Ids : CallPrepared(x, i) \/ CallOnRequest(x, i)
       \/ CallRead(x)
       \/ Serve(x)
  \/ Inside
  \/ \E f \in Files : Edit(f)
  \/ Tick
  \/ Crash

Spec == Init /\ [][Next]_vars

\* A target that resolves or fails to, and file system calls, all return.
FairSpec == Spec /\ WF_vars(Inside)
-----------------------------------------------------------------------------
TypeOK ==
  /\ rec \in [Ids -> [status : {"none", "pending", "removed"} \cup Resolutions, at : Nat]]
  /\ base \in [Ids -> [Files -> Contents]]
  /\ used \subseteq Ids
  /\ ws \in [Files -> Contents] /\ cur \in [Files -> Contents]
  /\ now \in Nat
  /\ op \in [Handlers -> {"idle", "create", "approve", "reject", "host", "read"}]
  /\ rid \in [Handlers -> Ids \cup {Nobody}]
  /\ holder \in Handlers \cup {Nobody}
  /\ step \in {"none", "resolving", "committing", "undoing", "concluding"}
  /\ done \subseteq Files
  /\ code \in {"none", "stale", "failed", "receipt"}
  /\ blocked \in BOOLEAN
  /\ edits \in Nat /\ crashes \in Nat /\ faults \in Nat
  /\ effect \in [Ids -> SUBSET Files]
  /\ unresolved \subseteq Ids /\ unrepaired \subseteq Ids /\ orphans \subseteq Ids

InProgress(i) == holder # Nobody /\ Request = i

\* The step replaces file f for request i.
Writes(i, f) == InProgress(i) /\ f \in done' \ done

\* Everything the broker wrote and did not take back is accounted for: by a
\* receipt that says applied (for as long as receipts are kept), by a rollback
\* that was reported as unresolved, or by a crash.
EveryEffectAccounted ==
  \A i \in Ids :
    effect[i] # {} /\ ~InProgress(i) =>
      rec[i].status \in {"applied", "removed"} \/ i \in unresolved \cup orphans

\* A receipt that says applied belongs to a patch written completely.
AppliedIsComplete ==
  \A i \in Ids : rec[i].status = "applied" => effect[i] = Touches[i]

\* A file is written for a manual request only while its record is durably
\* pending: never for one that was rejected, has expired, or was applied.
RecordAllows(i) == rec[i].status = IF Mode[i] = "manual" THEN "pending" ELSE "none"

\* Every write is authorized: its record allows it; what it replaces is the
\* content its request was prepared from, so a change made since the review,
\* by another request or another program, is never overwritten; and no earlier
\* rollback was left unresolved since the broker started (service.ts:162,170,189).
WritesAreAuthorized ==
  [][\A i \in Ids, f \in Files :
       Writes(i, f) => RecordAllows(i) /\ ws[f] = base[i][f] /\ unrepaired = {}]_vars

\* No failure leaves the mutex held.
MutexIsReleased == holder # Nobody ~> holder = Nobody

Status == [i \in Ids |-> rec[i].status]
Complete == {i \in Ids : effect[i] = Touches[i]}

Lifecycle == INSTANCE WriteLifecycle WITH status <- Status, complete <- Complete

\* The records follow the lifecycle that SPEC-002 draws.
ImplementsLifecycle == Lifecycle!Spec
=============================================================================
