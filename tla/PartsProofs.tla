----------------------------- MODULE PartsProofs -----------------------------
(***************************************************************************)
(* Proofs about three of the parts that share no state: CommandRunner,     *)
(* LifecycleMutex and PatchApply.                                          *)
(*                                                                         *)
(* Whatever the event loop delivers, the receipt of a run is truthful: the *)
(* invariant RunInv orders the events of a run.                            *)
(*                                                                         *)
(* For any patch and any plan of directories, a failed application is      *)
(* accounted for: the invariant Ledger says that a result is on disk only  *)
(* at a target that is marked committed, a directory of ours only where    *)
(* one is recorded as made, and that rolling back passes each of them      *)
(* once, so that behind it everything is put back or named.                *)
(*                                                                         *)
(* The mutex excludes and never lets a call overtake another, for any set  *)
(* of calls and any set of them abortable: its invariant Chain says that   *)
(* the promises resolve in the order in which they were created, so a call *)
(* whose predecessor is resolved while its own promise is not is the only  *)
(* such call, and everything before it has ended.                          *)
(***************************************************************************)
EXTENDS CommandRunner, LifecycleMutex, PatchApply, TLAPS

-----------------------------------------------------------------------------
(* The run of a command.                                                   *)

\* How far the events have come, and what each implies of those before it.
EventOrder ==
  /\ started = "unasked" => child = "none" /\ emitter = "none" /\ interruption = "none"
  /\ finished <=> emitter = "silent"
  /\ emitter = "none" => started = "unasked"
  /\ spawned <=> started = "yes"
  /\ spawned => child # "none"
  /\ leader => child # "none"
  /\ stopping => leader /\ interruption # "none"
  /\ interruption # "none" => stopping \/ finished
  /\ exitSeen => child = "exited" /\ spawned
  /\ closed => exitSeen
  /\ started = "null" => finished
  /\ finished => started # "waiting"

RunInv == TypeOK /\ EventOrder /\ CompletedIsTruthful /\ FailedNeverRan /\ CompleteOutputWasSeen

Statuses == {"completed", "failed", "interrupted"}

Receipts == [status : Statuses, incomplete : BOOLEAN, termination : Terminations \cup {"none"}]

\* What a receipt says, and that it is not the unresolved outcome.
LEMMA ReceiptFacts ==
  ASSUME NEW status \in Statuses, NEW termination \in Terminations \cup {"none"}
  PROVE  /\ Receipt(status, termination) \in Receipts
         /\ Receipt(status, termination) # Unresolved
         /\ Receipt(status, termination).status = status
         /\ Receipt(status, termination).incomplete
              <=> status # "failed" /\ (~spawned' \/ captureError' \/ eof' # Streams)
<1> DEFINE r == Receipt(status, termination)
<1>1. r \in Receipts
  BY DEF Receipt, Receipts
<1>2. r.status = status
  BY DEF Receipt
<1>3. r # Unresolved
  BY <1>2 DEF Unresolved, Statuses
<1>4. r.incomplete <=> status # "failed" /\ (~spawned' \/ captureError' \/ eof' # Streams)
  BY DEF Receipt
<1> QED
  BY <1>1, <1>2, <1>3, <1>4

\* An unresolved outcome has no final status.
LEMMA UnresolvedStatus == Unresolved.status = "none" /\ Unresolved \notin Receipts
<1>1. Unresolved.status = "none"
  BY DEF Unresolved
<1>2. \A r \in Receipts : r.status # "none"
  BY DEF Receipts, Statuses
<1> QED
  BY <1>1, <1>2

\* The invariant holds before the command is launched.
LEMMA InitEstablishes == Init => RunInv
BY UnresolvedStatus
   DEF Init, RunInv, TypeOK, EventOrder, CompletedIsTruthful, FailedNeverRan,
       CompleteOutputWasSeen, finished, Streams, Codes, Terminations

\* Every callback preserves it: a receipt is formed from the events seen, and
\* none is seen afterwards.
LEMMA NextPreserves == RunInv /\ [Next]_vars => RunInv'
<1> SUFFICES ASSUME RunInv, [Next]_vars PROVE RunInv'
  OBVIOUS
<1> USE UnresolvedStatus, ReceiptFacts
    DEF RunInv, TypeOK, EventOrder, CompletedIsTruthful, FailedNeverRan, CompleteOutputWasSeen,
        finished, Streams, Codes, Terminations, Statuses, Receipts, events
<1>1. CASE Launch
  BY <1>1 DEF Launch, Finish
<1>2. CASE SpawnEvent
  BY <1>2 DEF SpawnEvent, Listening
<1>3. CASE SpawnError
  BY <1>3 DEF SpawnError, Listening, Finish
<1>4. CASE ChildError
  <2>1. CASE stopping \/ leader
    BY <1>4, <2>1 DEF ChildError, Listening, Interrupt
  <2>2. CASE ~stopping /\ ~leader
    BY <1>4, <2>2 DEF ChildError, Listening, Interrupt, Finish
  <2> QED BY <2>1, <2>2
<1>5. CASE ProcessExits
  BY <1>5 DEF ProcessExits, NoCall
<1>6. CASE ExitEvent
  BY <1>6 DEF ExitEvent, Listening, NoCall
<1>7. CASE CloseEvent
  BY <1>7 DEF CloseEvent, Listening, Complete, Finish
<1>8. ASSUME NEW s \in Streams, StreamEnd(s) PROVE RunInv'
  BY <1>8 DEF StreamEnd, Listening, Complete, Finish
<1>9. ASSUME NEW s \in Streams, StreamError(s) PROVE RunInv'
  <2>1. CASE stopping \/ leader
    BY <1>9, <2>1 DEF StreamError, Listening, Interrupt
  <2>2. CASE ~stopping /\ ~leader
    BY <1>9, <2>2 DEF StreamError, Listening, Interrupt, Finish
  <2> QED BY <2>1, <2>2
<1>10. ASSUME NEW s \in Streams, StreamClose(s) PROVE RunInv'
  <2>1. CASE s \in eof
    BY <1>10, <2>1 DEF StreamClose, Listening, NoCall
  <2>2. CASE s \notin eof /\ (stopping \/ leader)
    BY <1>10, <2>2 DEF StreamClose, Listening, Interrupt
  <2>3. CASE s \notin eof /\ ~stopping /\ ~leader
    BY <1>10, <2>3 DEF StreamClose, Listening, Interrupt, Finish
  <2> QED BY <2>1, <2>2, <2>3
<1>11. ASSUME NEW code \in Codes, InterruptBy(code) PROVE RunInv'
  <2>1. CASE stopping
    BY <1>11, <2>1 DEF InterruptBy, Interrupt
  <2>2. CASE ~stopping /\ leader
    BY <1>11, <2>2 DEF InterruptBy, Interrupt
  <2>3. CASE ~stopping /\ ~leader
    <3>1. /\ outcome' = Receipt("interrupted", "absent") /\ emitter' = "silent"
          /\ started' = IF spawned' THEN started ELSE "null"
          /\ interruption' = code /\ UNCHANGED <<child, leader, events, stopping>>
          /\ started # "unasked"
      BY ONLY <1>11, <2>3 DEF InterruptBy, Interrupt, Finish
    <3>2. /\ outcome' \in Receipts /\ outcome' # Unresolved
          /\ outcome'.status = "interrupted"
          /\ outcome'.incomplete <=> ~spawned' \/ captureError' \/ eof' # Streams
      BY ONLY <3>1, ReceiptFacts DEF Statuses, Terminations
    <3> QED BY <2>3, <3>1, <3>2
  <2> QED BY <2>1, <2>2, <2>3
<1>12. CASE Terminated
  BY <1>12 DEF Terminated, Finish
<1>13. CASE UNCHANGED vars
  BY <1>13 DEF vars
<1>14. Deadline \/ OwnerInterrupts => \E code \in Codes : InterruptBy(code)
  BY DEF Deadline, OwnerInterrupts
<1> QED
  BY <1>1, <1>2, <1>3, <1>4, <1>5, <1>6, <1>7, <1>8, <1>9, <1>10, <1>11, <1>12, <1>13,
     <1>14 DEF Next

\* RunInv is an invariant of every run.
THEOREM RunInvariant == Spec => []RunInv
BY InitEstablishes, NextPreserves, PTL DEF Spec

\* The variables of a run keep their types.
THEOREM TypeCorrect == Spec => []TypeOK
BY RunInvariant, PTL DEF RunInv

\* A run reported as completed exited and was captured to its end.
THEOREM CompletedTruthfully == Spec => []CompletedIsTruthful
BY RunInvariant, PTL DEF RunInv

\* A run reported as failed created no process.
THEOREM FailedWithoutProcess == Spec => []FailedNeverRan
BY RunInvariant, PTL DEF RunInv

\* Output reported complete was seen to its end.
THEOREM CompleteOutput == Spec => []CompleteOutputWasSeen
BY RunInvariant, PTL DEF RunInv

\* The first claim is kept and a receipt never changes.
THEOREM ClaimsAreKept == Spec => FirstClaimWins
<1> USE DEF finished, Listening, events
<1>1. RunInv /\ [Next]_vars
        => (interruption # "none" => interruption' = interruption) /\ (finished => outcome' = outcome)
  <2> SUFFICES ASSUME RunInv, [Next]_vars
               PROVE  /\ interruption # "none" => interruption' = interruption
                      /\ finished => outcome' = outcome
    OBVIOUS
  <2> USE DEF RunInv, EventOrder
  <2>1. CASE ~finished /\ Next
    BY <2>1 DEF Next, Launch, SpawnEvent, SpawnError, ChildError, ProcessExits, ExitEvent, CloseEvent,
       StreamEnd, StreamError, StreamClose, Deadline, OwnerInterrupts, InterruptBy, Terminated,
       Interrupt, Complete, Finish, NoCall
  <2>2. CASE finished /\ Next
    BY <2>2 DEF Next, Launch, SpawnEvent, SpawnError, ChildError, ProcessExits, ExitEvent, CloseEvent,
       StreamEnd, StreamError, StreamClose, Deadline, OwnerInterrupts, InterruptBy, Terminated,
       Interrupt, Complete, Finish, NoCall
  <2>3. CASE UNCHANGED vars
    BY <2>3 DEF vars
  <2> QED
    BY <2>1, <2>2, <2>3
<1> QED
  BY <1>1, RunInvariant, PTL DEF FirstClaimWins, Spec

\* What the service observes of a callback that interrupts: nothing, a claim,
\* or the end of the run.
LEMMA InterruptIsSeen ==
  ASSUME RunInv, ~finished, started # "unasked", NEW code \in Codes, Interrupt(code),
         UNCHANGED spawned
  PROVE  Run!Claim \/ Run!Interrupt \/ UNCHANGED Run!runVars
<1> USE DEF RunInv, EventOrder, Interrupt, Run!runVars
<1>1. code # "none" /\ outcome.status = "none" /\ Run!Running
  BY UnresolvedStatus DEF Codes, finished, Run!Running
<1>2. CASE stopping
  BY <1>2
<1>3. CASE ~stopping /\ leader
  BY <1>1, <1>3 DEF Run!Claim
<1>4. CASE ~stopping /\ ~leader
  <2>1. /\ outcome'.status = "interrupted" /\ interruption' = code
        /\ started' = IF spawned THEN started ELSE "null"
    BY <1>4, ReceiptFacts DEF Finish, Statuses, Terminations
  <2>2. started = "waiting" <=> ~spawned
    BY DEF TypeOK
  <2> QED
    BY <1>1, <2>1, <2>2 DEF Run!Interrupt, Run!NeverStarted
<1> QED
  BY <1>2, <1>3, <1>4

\* Every callback is a step of the run the service expects, or none.
LEMMA StepsAreSeen == RunInv /\ [Next]_vars => [Run!Next]_(Run!runVars)
<1> SUFFICES ASSUME RunInv, [Next]_vars PROVE Run!Next \/ UNCHANGED Run!runVars
  OBVIOUS
<1> USE UnresolvedStatus, ReceiptFacts
    DEF RunInv, EventOrder, TypeOK, finished, Statuses, Terminations, events, Run!runVars, Run!Running
<1>1. Launch => Run!Launch \/ Run!Fail
  BY DEF Launch, Finish, Run!Launch, Run!Fail
<1>2. SpawnEvent => Run!Confirm
  BY DEF SpawnEvent, Listening, Run!Confirm
<1>3. SpawnError => Run!Fail
  BY DEF SpawnError, Listening, Finish, Run!Fail
<1>4. ProcessExits \/ ExitEvent => UNCHANGED Run!runVars
  BY DEF ProcessExits, ExitEvent, NoCall
<1>5. ASSUME Complete, ~finished, UNCHANGED <<spawned, interruption>>
      PROVE  Run!Complete \/ UNCHANGED Run!runVars
  BY <1>5 DEF Complete, Finish, Run!Complete
<1>6. CloseEvent => Run!Complete \/ UNCHANGED Run!runVars
  BY <1>5 DEF CloseEvent, Listening
<1>7. ASSUME NEW s \in Streams, StreamEnd(s) PROVE Run!Complete \/ UNCHANGED Run!runVars
  BY <1>5, <1>7 DEF StreamEnd, Listening
<1> DEFINE Ended == Run!Claim \/ Run!Interrupt \/ UNCHANGED Run!runVars
<1>8. ChildError => Ended
  BY InterruptIsSeen DEF ChildError, Listening, Codes
<1>9. ASSUME NEW s \in Streams, StreamError(s) \/ StreamClose(s) PROVE Ended
  BY <1>9, InterruptIsSeen DEF StreamError, StreamClose, Listening, NoCall, Codes
<1>10. ASSUME NEW code \in Codes, InterruptBy(code) PROVE Ended
  BY <1>10, InterruptIsSeen DEF InterruptBy
<1>11. Deadline \/ OwnerInterrupts => Ended
  BY <1>10 DEF Deadline, OwnerInterrupts, Codes
<1>12. Terminated => Run!Interrupt
  BY DEF Terminated, Finish, Run!Interrupt, Run!NeverStarted
<1>13. UNCHANGED vars => UNCHANGED Run!runVars
  BY DEF vars
<1> QED
  BY <1>1, <1>2, <1>3, <1>4, <1>6, <1>7, <1>8, <1>9, <1>11, <1>12, <1>13 DEF Next, Run!Next

\* What the service sees of a run is what CommandRun promises: started is
\* answered once, done once and not before it, and a claimed run does not
\* complete.
THEOREM ImplementsCommandRun == Spec => Run!Spec
<1>1. Init => Run!Init
  BY UnresolvedStatus DEF Init, Run!Init
<1> QED
  BY <1>1, RunInvariant, StepsAreSeen, PTL DEF Spec, Run!Spec

-----------------------------------------------------------------------------
(* The application of a patch.                                             *)

\* The targets above i, and the directories above i, have been rolled back or
\* given up on.
FilesUndone(i) == \A f \in committed : f > i => <<"file", f>> \in unresolved
DirsRemoved(i) == \A d \in ours : d > i => <<"dir", d>> \in unresolved

\* What is on disk is what the transaction has recorded.
Contents ==
  /\ \A f \in Files : disk[f] = "result" => f \in committed
  /\ \A f \in Files : f \in committed \cup edited \/ disk[f] = Initially(f)
  /\ \A d \in ours : d \in made /\ dir[d] = "dir"

Forward == {"stage", "mkdir", "guard", "replace", "unlinkTemp", "applied"}
Undoing == {"undo", "recheck", "remove", "restore"}

\* How far the transaction has come, forward and back.
Progress ==
  /\ step \in Forward => failure = "none"
  /\ failure = "none" => unresolved = {}
  /\ step \in (Forward \ {"mkdir"}) \cup Undoing => at \in Files
  /\ step \in {"mkdir", "rmdir"} => at \in Dirs
  /\ step = "stage" => made = {}
  /\ step \in {"stage", "mkdir"} => committed = {}
  /\ step \in {"guard", "replace"} => committed = 1..(at - 1)
  /\ step = "unlinkTemp" => committed = 1..at
  /\ step = "applied" => committed = Files
  /\ step \in Undoing \cup {"rmdir"} => failure # "none"
  /\ step \in Undoing => FilesUndone(at)
  /\ step = "rmdir" => FilesUndone(0) /\ DirsRemoved(at)
  /\ step \in {"sweep", "ended"} =>
       IF failure = "none" THEN committed = Files ELSE FilesUndone(0) /\ DirsRemoved(0)

\* What a guard has seen still holds at the call it guards, unless an edit
\* fell in between.
Guarded ==
  /\ step = "replace" => disk[at] = Initially(at) \/ at \in raced
  /\ step \in {"remove", "restore"} => disk[at] = "result" \/ at \in raced

Ledger == PatchTypeOK /\ Contents /\ Progress /\ Guarded

\* Whatever directory is removed with what is below it, only planned ones go.
LEMMA BelowIsPlanned == \A d : Below(d) \subseteq Dirs
BY DEF Below

\* Positions in the patch and in the plan are within the range of `at`.
LEMMA Positions ==
  /\ Files \subseteq 0..(N + D) /\ Dirs \subseteq 0..(N + D)
  /\ N \in Files /\ N \in Nat /\ D \in Nat
  /\ 0 \in 0..(N + D)
  /\ \A f \in Files : f < N \/ f = N
  /\ \A f \in Files : f \in Int /\ f >= 1
  /\ \A d \in Dirs : d \in Int /\ d >= 1
  /\ \A f \in Files : f < N => f + 1 \in Files
  /\ \A f \in Files : f > 1 => f - 1 \in Files
  /\ \A d \in Dirs : d < D => d + 1 \in Dirs
  /\ \A d \in Dirs : d > 1 => d - 1 \in Dirs
  /\ D # 0 => 1 \in Dirs /\ D \in Dirs
  /\ 1 \in Files
BY PlanAssumption DEF Files, Dirs

\* The files before a position, and those up to it.
LEMMA Prefixes ==
  /\ 1..0 = {} /\ 1..(1 - 1) = {}
  /\ 1..N = Files
  /\ \A f \in Files : 1..(f - 1) \cup {f} = 1..f
  /\ \A f \in Files : 1..((f + 1) - 1) = 1..f
<1>1. 1..0 = {} /\ 1..(1 - 1) = {} /\ 1..N = Files
  BY PlanAssumption DEF Files
<1>2. ASSUME NEW f \in Files PROVE 1..(f - 1) \cup {f} = 1..f /\ 1..((f + 1) - 1) = 1..f
  BY PlanAssumption DEF Files
<1> QED
  BY <1>1, <1>2

\* Nothing is staged when the transaction begins.
LEMMA PatchInitEstablishes == PatchInit => Ledger
<1> SUFFICES ASSUME PatchInit PROVE Ledger
  OBVIOUS
<1> USE PlanAssumption, Positions DEF PatchInit
<1>1. \A f \in Files : Initially(f) \in {"absent", "base"}
  BY DEF Initially
<1>2. PatchTypeOK
  BY <1>1 DEF PatchTypeOK
<1>3. Contents
  BY <1>1 DEF Contents
<1>4. Progress
  BY DEF Progress, Forward, Undoing
<1>5. Guarded
  BY DEF Guarded
<1> QED
  BY <1>2, <1>3, <1>4, <1>5 DEF Ledger

\* A failure while going forward starts to undo from the last file.
LEMMA FailingPreserves ==
  ASSUME Ledger, step \in Forward,
         step = "applied" \/ step \in {"mkdir", "guard", "replace", "unlinkTemp"},
         NEW code \in {"stale", "failed", "receipt"}, FailWith(code),
         faults' \in 0..MaxFaults,
         UNCHANGED <<world, temps, committed, made, unresolved, edits, history>>
  PROVE  Ledger'
<1> USE Positions DEF Ledger, FailWith, Goto, world, history
<1>1. PatchTypeOK'
  BY DEF PatchTypeOK
<1>2. Contents'
  BY DEF Contents
<1>3. FilesUndone(N)'
  BY DEF FilesUndone, PatchTypeOK
<1>4. Progress'
  BY <1>3 DEF Progress, Forward, Undoing
<1>5. Guarded'
  BY DEF Guarded
<1> QED
  BY <1>1, <1>2, <1>4, <1>5

\* Staging, making directories, replacing: going forward.
LEMMA ForwardPreserves ==
  ASSUME Ledger,
         \/ StageOne \/ StageFails \/ MakeDirectory \/ MakeDirectoryFails
         \/ GuardPasses \/ GuardFails \/ ReplaceUpdate \/ LinkCreate \/ UnlinkTemp \/ ReplaceFails
         \/ Rollback
  PROVE  Ledger'
<1> USE Positions DEF Ledger
<1>1. NoFault \/ Fault => faults' \in 0..MaxFaults
  BY PlanAssumption DEF PatchTypeOK, NoFault, Fault
<1>2. CASE StageOne
  <2> USE <1>2 DEF StageOne, Goto, world, history
  <2>1. at \in Files
    BY DEF Progress, Forward
  <2>2. PatchTypeOK'
    BY <1>1, <2>1 DEF PatchTypeOK
  <2>3. Contents'
    BY DEF Contents
  <2>4. Progress'
    BY <2>1, Prefixes DEF Progress, Forward, Undoing
  <2>5. Guarded'
    BY DEF Guarded
  <2> QED
    BY <2>2, <2>3, <2>4, <2>5
<1>3. CASE StageFails
  <2> USE <1>3 DEF StageFails, Goto, world, history
  <2>1. at \in Files /\ committed = {} /\ ours = {}
    BY DEF Progress, Forward, Contents
  <2>2. PatchTypeOK'
    BY <1>1, <2>1 DEF PatchTypeOK
  <2>3. Contents'
    BY DEF Contents
  <2>4. Progress'
    BY <2>1 DEF Progress, Forward, Undoing, FilesUndone, DirsRemoved
  <2>5. Guarded'
    BY DEF Guarded
  <2> QED
    BY <2>2, <2>3, <2>4, <2>5
<1>4. CASE MakeDirectory
  <2> USE <1>4 DEF MakeDirectory, AfterMkdir, Goto
  <2>1. at \in Dirs
    BY DEF Progress
  <2>2. PatchTypeOK'
    BY <1>1, <2>1 DEF PatchTypeOK
  <2>3. /\ \A d \in Dirs \ {at} : dir'[d] = dir[d]
        /\ \/ UNCHANGED <<dir, made, ours>>
           \/ dir'[at] = "dir" /\ made' = made \cup {at} /\ ours' = ours \cup {at}
    BY <2>1 DEF PatchTypeOK
  <2>4. UNCHANGED <<disk, committed, edited>> /\ ours \subseteq Dirs
    BY DEF PatchTypeOK
  <2>5. Contents'
    BY <2>3, <2>4 DEF Contents, Initially
  <2>6. Progress'
    BY <2>1, Prefixes DEF Progress, Forward, Undoing
  <2>7. Guarded'
    BY DEF Guarded
  <2> QED
    BY <2>2, <2>5, <2>6, <2>7
<1>5. CASE MakeDirectoryFails
  BY <1>1, <1>5, FailingPreserves DEF MakeDirectoryFails, Forward
<1>6. CASE GuardPasses
  <2> USE <1>6 DEF GuardPasses, Goto, world, transaction, history
  <2>1. at \in Files
    BY DEF Progress, Forward
  <2>2. PatchTypeOK'
    BY <1>1, <2>1 DEF PatchTypeOK
  <2>3. Contents'
    BY DEF Contents
  <2>4. Progress'
    BY <2>1 DEF Progress, Forward, Undoing
  <2>5. Guarded'
    BY <2>1, PlanAssumption DEF Guarded, TargetReady, Initially
  <2> QED
    BY <2>2, <2>3, <2>4, <2>5
<1>7. CASE GuardFails
  BY <1>1, <1>7, FailingPreserves DEF GuardFails, Forward
<1>8. CASE ReplaceUpdate \/ LinkCreate
  <2> USE <1>8 DEF ReplaceUpdate, LinkCreate, AfterCommit, Goto, history
  <2>1. at \in Files /\ committed = 1..(at - 1)
    BY DEF Progress, Forward
  <2>2. committed' = 1..at /\ committed' = committed \cup {at}
    BY <2>1, Prefixes
  <2>3. PatchTypeOK'
    BY <1>1, <2>1 DEF PatchTypeOK
  <2>4. Contents'
    BY <2>1 DEF Contents, PatchTypeOK
  <2>5. Progress'
    BY <2>1, <2>2, Prefixes DEF Progress, Forward, Undoing
  <2>6. Guarded'
    BY DEF Guarded
  <2> QED
    BY <2>3, <2>4, <2>5, <2>6
<1>9. CASE UnlinkTemp
  <2> USE <1>9 DEF UnlinkTemp, AfterCommit, Goto, world, history
  <2>1. at \in Files /\ committed = 1..at
    BY DEF Progress, Forward
  <2>2. PatchTypeOK'
    BY <1>1, <2>1 DEF PatchTypeOK
  <2>3. Contents'
    BY DEF Contents
  <2>4. UNCHANGED <<committed, unresolved, failure>> /\ failure = "none" /\ unresolved = {}
    BY DEF Progress, Forward
  <2>5. at < N => Progress'
    BY <2>1, <2>4, Prefixes DEF Progress, Forward, Undoing
  <2>6. at = N => Progress'
    BY <2>1, <2>4, Prefixes DEF Progress, Forward, Undoing
  <2>7. Guarded'
    BY DEF Guarded
  <2> QED
    BY <2>1, <2>2, <2>3, <2>5, <2>6, <2>7
<1>10. CASE ReplaceFails
  BY <1>1, <1>10, FailingPreserves DEF ReplaceFails, Forward
<1>11. CASE Rollback
  BY <1>1, <1>11, FailingPreserves DEF Rollback, Forward
<1> QED
  BY <1>2, <1>3, <1>4, <1>5, <1>6, <1>7, <1>8, <1>9, <1>10, <1>11

\* Undoing goes on to the file before this one, once this one is put back or
\* given up on.
LEMMA UndoPasses ==
  ASSUME Ledger, PatchTypeOK', step \in Undoing, AfterUndo,
         committed' \subseteq committed, unresolved \subseteq unresolved',
         at \in committed' => <<"file", at>> \in unresolved',
         UNCHANGED <<failure, ours>>
  PROVE  Progress'
<1> USE Positions DEF Ledger, AfterUndo, Goto
<1>1. at \in Files /\ failure # "none" /\ FilesUndone(at)
  BY DEF Progress, Undoing
<1>2. \A f \in Files : f > at - 1 => f = at \/ f > at
  BY <1>1
<1>3. committed' \subseteq Files /\ ours \subseteq Dirs
  BY DEF PatchTypeOK
<1>4. \A f \in committed' : f > at - 1 => <<"file", f>> \in unresolved'
  BY <1>1, <1>2, <1>3 DEF FilesUndone
<1>5. CASE at > 1
  BY <1>1, <1>4, <1>5 DEF Progress, Forward, Undoing, FilesUndone
<1>6. CASE ~(at > 1)
  <2>0. \A f \in Files : f > at - 1
    BY <1>1, <1>6, PlanAssumption DEF Files
  <2>1. \A f \in committed' : <<"file", f>> \in unresolved'
    BY <1>3, <1>4, <2>0
  <2>2. CASE D = 0
    <3>1. ours = {}
      BY <1>3, <2>2 DEF Dirs
    <3> QED
      BY <1>1, <1>6, <2>1, <2>2, <3>1 DEF Progress, Forward, Undoing, FilesUndone, DirsRemoved
  <2>3. CASE D # 0
    <3>1. \A d \in ours : ~(d > D)
      BY <1>3, PlanAssumption DEF Dirs
    <3> QED
      BY <1>1, <1>6, <2>1, <2>3, <3>1 DEF Progress, Forward, Undoing, FilesUndone, DirsRemoved
  <2> QED
    BY <2>2, <2>3
<1> QED
  BY <1>5, <1>6

\* Removing goes on to the directory before this one.
LEMMA RmdirPasses ==
  ASSUME Ledger, PatchTypeOK', step = "rmdir", AfterRmdir,
         ours' \subseteq ours, unresolved \subseteq unresolved',
         at \in ours' => <<"dir", at>> \in unresolved',
         UNCHANGED <<failure, committed>>
  PROVE  Progress'
<1> USE Positions DEF Ledger, AfterRmdir, Goto
<1>1. at \in Dirs /\ failure # "none" /\ FilesUndone(0) /\ DirsRemoved(at)
  BY DEF Progress
<1>2. ours' \subseteq Dirs
  BY DEF PatchTypeOK
<1>3. \A d \in ours' : d > at - 1 => <<"dir", d>> \in unresolved'
  BY <1>1, <1>2 DEF DirsRemoved
<1>4. FilesUndone(0)'
  BY <1>1 DEF FilesUndone
<1>5. CASE at > 1
  BY <1>1, <1>3, <1>4, <1>5 DEF Progress, Forward, Undoing, DirsRemoved
<1>6. CASE ~(at > 1)
  BY <1>1, <1>2, <1>3, <1>4, <1>6 DEF Progress, Forward, Undoing, DirsRemoved
<1> QED
  BY <1>5, <1>6

\* Rolling back and ending.
LEMMA BackwardPreserves ==
  ASSUME Ledger,
         \/ UndoUncommitted \/ CheckOwnership \/ OwnershipLost \/ PutBack \/ PutBackFails
         \/ RemoveDirectory \/ RemoveDirectoryFails \/ Cleanup \/ Sweep \/ Crash
  PROVE  Ledger'
<1> USE Positions DEF Ledger
<1>1. NoFault \/ Fault => faults' \in 0..MaxFaults
  BY PlanAssumption DEF PatchTypeOK, NoFault, Fault
<1>2. AfterUndo => /\ step' \in {"undo", "rmdir", "sweep"}
                   /\ at \in Files => at' \in 0..(N + D)
  BY DEF AfterUndo, Goto
<1>3. AfterRmdir => /\ step' \in {"rmdir", "sweep"}
                    /\ at \in Dirs => at' \in 0..(N + D)
  BY DEF AfterRmdir, Goto
<1>4. CASE UndoUncommitted
  <2> USE <1>4 DEF UndoUncommitted, world, transaction, history
  <2>1. at \in Files
    BY DEF Progress, Undoing
  <2>2. PatchTypeOK'
    BY <1>1, <1>2, <2>1 DEF PatchTypeOK
  <2>3. Contents'
    BY DEF Contents
  <2>4. Progress'
    BY <2>2, UndoPasses DEF Undoing
  <2>5. Guarded'
    BY <1>2 DEF Guarded
  <2> QED
    BY <2>2, <2>3, <2>4, <2>5
<1>5. CASE CheckOwnership
  <2> USE <1>5 DEF CheckOwnership, Goto, world, transaction, history
  <2>1. at \in Files /\ failure # "none" /\ FilesUndone(at)
    BY DEF Progress, Undoing
  <2>2. PatchTypeOK'
    BY <1>1, <2>1 DEF PatchTypeOK
  <2>3. Contents'
    BY DEF Contents
  <2>4. Progress'
    BY <2>1 DEF Progress, Forward, Undoing, FilesUndone
  <2>5. Guarded'
    BY DEF Guarded, StillOurs
  <2> QED
    BY <2>2, <2>3, <2>4, <2>5
<1>6. CASE OwnershipLost \/ PutBackFails
  <2> USE <1>6 DEF OwnershipLost, PutBackFails, GiveUp, world, history
  <2>1. at \in Files /\ step \in Undoing
    BY DEF Progress, Undoing
  <2>2. PatchTypeOK'
    <3>1. unresolved' \subseteq ({"file"} \X Files) \cup ({"dir"} \X Dirs)
      BY <2>1 DEF PatchTypeOK
    <3>2. step' \in {"undo", "rmdir", "sweep"} /\ at' \in 0..(N + D) /\ faults' \in 0..MaxFaults
      BY <1>1, <1>2, <2>1
    <3> QED
      BY <3>1, <3>2 DEF PatchTypeOK
  <2>3. Contents'
    BY DEF Contents
  <2>4. Progress'
    BY <2>1, <2>2, UndoPasses
  <2>5. Guarded'
    BY <1>2 DEF Guarded
  <2> QED
    BY <2>2, <2>3, <2>4, <2>5
<1>7. CASE PutBack
  <2> USE <1>7 DEF PutBack, history
  <2>1. at \in Files /\ step \in Undoing
    BY DEF Progress, Undoing
  <2>2. Initially(at) \in {"absent", "base"}
    BY DEF Initially
  <2>3. PatchTypeOK'
    BY <1>1, <1>2, <2>1, <2>2 DEF PatchTypeOK
  <2>4. Contents'
    BY <2>1, <2>2 DEF Contents, PatchTypeOK
  <2>5. Progress'
    BY <2>1, <2>3, UndoPasses
  <2>6. Guarded'
    BY <1>2 DEF Guarded
  <2> QED
    BY <2>3, <2>4, <2>5, <2>6
<1>8. CASE RemoveDirectory
  <2> USE <1>8 DEF RemoveDirectory, transaction
  <2>1. at \in Dirs
    BY DEF Progress
  <2>2. PatchTypeOK'
    BY <1>1, <1>3, <2>1 DEF PatchTypeOK
  <2>3. /\ \A d \in Dirs \ {at} : dir'[d] = dir[d]
        /\ UNCHANGED <<dir, ours>> \/ ours' = ours \ {at}
    BY <2>1 DEF PatchTypeOK
  <2>4. UNCHANGED <<disk, committed, edited, made>> /\ ours \subseteq Dirs
    BY DEF PatchTypeOK
  <2>5. Contents'
    BY <2>3, <2>4 DEF Contents, Initially
  <2>6. at \notin ours'
    BY <2>3 DEF Contents
  <2>7. Progress'
    BY <2>2, <2>3, <2>6, RmdirPasses
  <2>8. Guarded'
    BY <1>3 DEF Guarded
  <2> QED
    BY <2>2, <2>5, <2>7, <2>8
<1>9. CASE RemoveDirectoryFails
  <2> USE <1>9 DEF RemoveDirectoryFails, GiveUp, world, history
  <2>1. at \in Dirs
    BY DEF Progress
  <2>2. PatchTypeOK'
    BY <1>1, <1>3, <2>1 DEF PatchTypeOK
  <2>3. Contents'
    BY DEF Contents
  <2>4. Progress'
    BY <2>1, <2>2, RmdirPasses
  <2>5. Guarded'
    BY <1>3 DEF Guarded
  <2> QED
    BY <2>2, <2>3, <2>4, <2>5
<1>10. CASE Cleanup \/ Sweep
  <2> USE <1>10 DEF Cleanup, Sweep, Goto, world, transaction, history
  <2>1. temps' \subseteq Files
    BY DEF PatchTypeOK
  <2>2. PatchTypeOK'
    BY <1>1, <2>1 DEF PatchTypeOK
  <2>3. Contents'
    BY DEF Contents
  <2>4. Progress'
    BY DEF Progress, Forward, Undoing, FilesUndone, DirsRemoved
  <2>5. Guarded'
    BY DEF Guarded
  <2> QED
    BY <2>2, <2>3, <2>4, <2>5
<1>11. CASE Crash
  <2> USE <1>11 DEF Crash, Goto, world, transaction, history
  <2>1. PatchTypeOK'
    BY <1>1 DEF PatchTypeOK
  <2>2. Contents' /\ Guarded'
    BY DEF Contents, Guarded
  <2>3. Progress'
    BY DEF Progress, Forward, Undoing
  <2> QED
    BY <2>1, <2>2, <2>3
<1> QED
  BY <1>4, <1>5, <1>6, <1>7, <1>8, <1>9, <1>10, <1>11

\* Other programs: they write no result, and what they change is edited.
LEMMA EditsPreserve == Ledger /\ OtherPrograms => Ledger'
<1> SUFFICES ASSUME Ledger, OtherPrograms PROVE Ledger'
  OBVIOUS
<1> USE DEF Ledger, Edit, transaction
<1>1. edits' \in 0..MaxEdits
  BY PlanAssumption
     DEF OtherPrograms, EditFile, MakeEntry, MakeStray, RemoveTree, PatchTypeOK
<1>2. /\ UNCHANGED <<temps, committed, made, unresolved, failure, step, at, faults>>
      /\ ours' \subseteq ours
      /\ edited \subseteq edited' /\ edited' \subseteq Files
      /\ raced \subseteq raced' /\ raced' \subseteq Files
  BY DEF OtherPrograms, EditFile, MakeEntry, MakeStray, RemoveTree, PatchTypeOK
<1>3. /\ disk' \in [Files -> {"absent", "base", "result", "foreign"}]
      /\ \A f \in Files : disk'[f] # disk[f] =>
           disk'[f] # "result" /\ f \in edited' /\ (InWindow(f) => f \in raced')
  <2>1. ASSUME NEW f \in Files, EditFile(f)
        PROVE  <1>3!1 /\ <1>3!2
    BY <2>1 DEF EditFile, PatchTypeOK
  <2>2. ASSUME NEW d \in Dirs, RemoveTree(d)
        PROVE  <1>3!1 /\ <1>3!2
    BY <2>2 DEF RemoveTree, PatchTypeOK
  <2>3. ASSUME NEW d \in Dirs, MakeEntry(d) \/ MakeStray(d)
        PROVE  <1>3!1 /\ <1>3!2
    BY <2>3 DEF MakeEntry, MakeStray, PatchTypeOK
  <2> QED
    BY <2>1, <2>2, <2>3 DEF OtherPrograms
<1>4. /\ dir' \in [Dirs -> {"absent", "dir", "other"}] /\ strays' \subseteq Dirs
      /\ \A d \in ours' : dir'[d] = "dir"
  <2>1. ASSUME NEW f \in Files, EditFile(f) PROVE <1>4!1 /\ <1>4!2
    BY <2>1 DEF EditFile, PatchTypeOK, Contents
  <2>2. ASSUME NEW d \in Dirs, RemoveTree(d) PROVE <1>4!1 /\ <1>4!2
    BY <2>2 DEF RemoveTree, PatchTypeOK, Contents
  <2>3. ASSUME NEW d \in Dirs, MakeEntry(d) \/ MakeStray(d) PROVE <1>4!1 /\ <1>4!2
    BY <2>3 DEF MakeEntry, MakeStray, PatchTypeOK, Contents
  <2> QED
    BY <2>1, <2>2, <2>3 DEF OtherPrograms
<1>5. PatchTypeOK'
  BY <1>1, <1>2, <1>3, <1>4 DEF PatchTypeOK
<1>6. Contents'
  BY <1>2, <1>3, <1>4 DEF Contents, Initially
<1>7. Progress'
  BY <1>2 DEF Progress, FilesUndone, DirsRemoved
<1>8. Guarded'
  <2>1. step \in {"replace", "remove", "restore"} => at \in Files
    BY DEF Progress, Forward, Undoing
  <2> QED
    BY <1>2, <1>3, <2>1 DEF Guarded, InWindow, Initially
<1> QED
  BY <1>5, <1>6, <1>7, <1>8

\* Every step of the transaction and of other programs keeps the ledger.
LEMMA PatchNextPreserves == Ledger /\ [PatchNext]_patchVars => Ledger'
<1>1. Ledger /\ UNCHANGED patchVars => Ledger'
  BY DEF Ledger, PatchTypeOK, Contents, Progress, Guarded, FilesUndone, DirsRemoved, patchVars,
         world, transaction, history
<1> QED
  BY <1>1, ForwardPreserves, BackwardPreserves, EditsPreserve DEF PatchNext, Broker

\* The ledger is kept, whatever fails and whatever other programs edit.
THEOREM LedgerInvariant == PatchSpec => []Ledger
BY PatchInitEstablishes, PatchNextPreserves, PTL DEF PatchSpec

\* The variables of a transaction keep their types.
THEOREM PatchTypeCorrect == PatchSpec => []PatchTypeOK
BY LedgerInvariant, PTL DEF Ledger

\* What the caller is told of the workspace is true: a handled failure left
\* nothing behind, and an unresolved rollback names whatever is left.
THEOREM FailuresAccounted == PatchSpec => []FailuresAreAccounted
<1>1. ASSUME Ledger, step = "ended", failure # "none"
      PROVE  /\ \A f \in committed : <<"file", f>> \in unresolved
             /\ \A d \in ours : <<"dir", d>> \in unresolved
  BY <1>1, Positions DEF Ledger, Progress, FilesUndone, DirsRemoved, PatchTypeOK
<1>2. Ledger => HandledFailureRestores
  <2> SUFFICES ASSUME Ledger, Outcome \in {"stale", "failed", "receipt"}
               PROVE  HandledFailureRestores
    BY DEF HandledFailureRestores
  <2>1. step = "ended" /\ unresolved = {} /\ failure # "none"
    BY DEF Outcome
  <2>2. committed = {} /\ ours = {}
    BY <1>1, <2>1
  <2> QED
    BY <2>2 DEF Ledger, Contents, HandledFailureRestores
<1>3. Ledger => LeftoversAreNamed
  <2> SUFFICES ASSUME Ledger, Outcome = "rollbackFailed" PROVE LeftoversAreNamed
    BY DEF LeftoversAreNamed
  <2>1. step = "ended" /\ unresolved # {}
    BY DEF Outcome, Ledger, PatchTypeOK
  <2>2. failure # "none"
    BY <2>1 DEF Ledger, Progress
  <2> QED
    BY <1>1, <2>1, <2>2 DEF Ledger, Contents, LeftoversAreNamed
<1> QED
  BY <1>2, <1>3, LedgerInvariant, PTL DEF FailuresAreAccounted, Ledger

\* What the abstract transaction sees of a content.
LEMMA SeenFacts ==
  ASSUME NEW f \in Files
  PROVE  /\ Seen[f] \in {"before", "result", "foreign"}
         /\ Seen[f] = "result" <=> disk[f] = "result"
         /\ Seen[f] = "before" <=> disk[f] = Initially(f)
         /\ Seen'[f] \in {"before", "result", "foreign"}
         /\ Seen'[f] = "result" <=> disk'[f] = "result"
         /\ Seen'[f] = "before" <=> disk'[f] = Initially(f)
         /\ disk'[f] = disk[f] => Seen'[f] = Seen[f]
<1>1. Initially(f) # "result"
  BY DEF Initially
<1> QED
  BY <1>1 DEF Seen, Initially

\* Nothing is told before the end.
LEMMA OpenUntilEnded ==
  /\ step # "ended" => Verdict = "open"
  /\ step' # "ended" => Verdict' = "open"
BY DEF Verdict, Outcome

\* Neither a target nor a mark is touched: the abstract transaction stutters.
LEMMA Stutters ==
  ASSUME step # "ended", step' # "ended", UNCHANGED <<disk, committed, raced>>
  PROVE  UNCHANGED Transaction!transactionVars
BY OpenUntilEnded DEF Seen, Initially, Transaction!transactionVars

\* One target is given a content, before the end.
LEMMA OneTarget ==
  ASSUME Ledger, at \in Files, NEW content \in {"result", Initially(at)},
         disk' = [disk EXCEPT ![at] = content],
         step # "ended", step' # "ended"
  PROVE  /\ Seen' = [Seen EXCEPT ![at] = IF content = "result" THEN "result" ELSE "before"]
         /\ Verdict = "open" /\ UNCHANGED Verdict
<1>1. disk'[at] = content /\ \A f \in Files \ {at} : disk'[f] = disk[f]
  BY DEF Ledger, PatchTypeOK
<1>2. Seen'[at] = IF content = "result" THEN "result" ELSE "before"
  BY <1>1, SeenFacts
<1>3. \A f \in Files \ {at} : Seen'[f] = Seen[f]
  BY <1>1, SeenFacts
<1>4. DOMAIN Seen = Files /\ DOMAIN Seen' = Files /\ Seen = [f \in Files |-> Seen[f]]
      /\ Seen' = [f \in Files |-> Seen'[f]]
  BY DEF Seen
<1> HIDE DEF Seen
<1> QED
  BY <1>2, <1>3, <1>4, OpenUntilEnded

\* The steps of the transaction that replace, put back or end.
LEMMA BrokerRefines ==
  ASSUME Ledger, Broker
  PROVE  Transaction!Next \/ UNCHANGED Transaction!transactionVars
<1> USE DEF Ledger
<1>1. step # "ended"
  BY DEF Broker, StageOne, StageFails, MakeDirectory, MakeDirectoryFails, GuardPasses, GuardFails,
     ReplaceUpdate, LinkCreate, UnlinkTemp, ReplaceFails, UndoUncommitted, CheckOwnership,
     OwnershipLost, PutBack, PutBackFails, RemoveDirectory, RemoveDirectoryFails, Cleanup, Rollback,
     Sweep, Undoing
<1>2. CASE ReplaceUpdate \/ LinkCreate
  <2> USE <1>2 DEF ReplaceUpdate, LinkCreate, AfterCommit, Goto, history
  <2>1. at \in Files /\ disk' = [disk EXCEPT ![at] = "result"]
    BY DEF Progress, Forward
  <2>2. step' # "ended" /\ committed' = committed \cup {at} /\ raced' = raced
    OBVIOUS
  <2>3. Seen[at] = "before" \/ at \in raced
    BY <2>1, SeenFacts DEF Guarded
  <2>4. Seen' = [Seen EXCEPT ![at] = "result"] /\ Verdict = "open" /\ UNCHANGED Verdict
    BY <1>1, <2>1, <2>2, OneTarget
  <2>5. Transaction!Replace(at)
    BY <2>2, <2>3, <2>4 DEF Transaction!Replace
  <2> QED
    BY <2>1, <2>5 DEF Transaction!Next
<1>3. CASE PutBack
  <2> USE <1>3 DEF PutBack, AfterUndo, Goto, history
  <2>1. at \in Files /\ disk' = [disk EXCEPT ![at] = Initially(at)] /\ Initially(at) # "result"
    BY DEF Progress, Undoing, Initially
  <2>2. step' # "ended" /\ committed' = committed \ {at} /\ raced' = raced
    OBVIOUS
  <2>3. Seen[at] = "result" \/ at \in raced
    BY <2>1, SeenFacts DEF Guarded
  <2>4. Seen' = [Seen EXCEPT ![at] = "before"] /\ Verdict = "open" /\ UNCHANGED Verdict
    BY <1>1, <2>1, <2>2, OneTarget
  <2>5. Transaction!Restore(at)
    BY <2>2, <2>3, <2>4 DEF Transaction!Restore
  <2> QED
    BY <2>1, <2>5 DEF Transaction!Next
<1>4. CASE Sweep
  <2> USE <1>4 DEF Sweep, Goto, world, history
  <2>1. Seen' = Seen /\ UNCHANGED <<committed, raced>> /\ Verdict = "open"
    BY <1>1, OpenUntilEnded DEF Seen, Initially
  <2>2. CASE unresolved # {}
    <3>1. Verdict' = "unresolved"
      BY <2>2 DEF Verdict, Outcome
    <3> QED
      BY <2>1, <3>1 DEF Transaction!Conclude, Transaction!Next
  <2>3. CASE unresolved = {} /\ failure = "none"
    <3>1. Verdict' = "applied" /\ committed = Files
      BY <2>3 DEF Verdict, Outcome, Progress
    <3> QED
      BY <2>1, <3>1 DEF Transaction!Conclude, Transaction!Next
  <2>4. CASE unresolved = {} /\ failure # "none"
    <3>1. Verdict' = "restored"
      BY <2>4 DEF Verdict, Outcome, PatchTypeOK
    <3>2. committed = {}
      BY <2>4, Positions DEF Progress, FilesUndone, PatchTypeOK
    <3>3. \A f \in Files : Seen[f] # "result"
      BY <3>2, SeenFacts DEF Contents
    <3> QED
      BY <2>1, <3>1, <3>2, <3>3 DEF Transaction!Conclude, Transaction!Next
  <2> QED
    BY <2>2, <2>3, <2>4
<1>5. CASE \/ StageOne \/ StageFails \/ MakeDirectory \/ MakeDirectoryFails
           \/ GuardPasses \/ GuardFails \/ UnlinkTemp \/ ReplaceFails
           \/ UndoUncommitted \/ CheckOwnership \/ OwnershipLost \/ PutBackFails
           \/ RemoveDirectory \/ RemoveDirectoryFails \/ Cleanup \/ Rollback
  <2>1. step' # "ended"
    BY <1>5 DEF StageOne, StageFails, MakeDirectory, MakeDirectoryFails, GuardPasses, GuardFails,
       UnlinkTemp, ReplaceFails, UndoUncommitted, CheckOwnership, OwnershipLost, PutBackFails,
       RemoveDirectory, RemoveDirectoryFails, Cleanup, Rollback, AfterMkdir, AfterCommit, AfterUndo,
       AfterRmdir, FailWith, Goto
  <2>2. UNCHANGED <<disk, committed, raced>>
    BY <1>5 DEF StageOne, StageFails, MakeDirectory, MakeDirectoryFails, GuardPasses, GuardFails,
       UnlinkTemp, ReplaceFails, UndoUncommitted, CheckOwnership, OwnershipLost, PutBackFails,
       RemoveDirectory, RemoveDirectoryFails, Cleanup, Rollback, world, transaction, history
  <2> QED
    BY <1>1, <2>1, <2>2, Stutters
<1> QED
  BY <1>2, <1>3, <1>4, <1>5 DEF Broker

\* What an edit of a target looks like to the abstract transaction.
LEMMA EditRefines ==
  ASSUME Ledger, step # "ended", UNCHANGED <<step, at, committed>>,
         NEW touched \in SUBSET Files,
         \A f \in Files : disk'[f] # disk[f] <=> f \in touched,
         \A f \in touched : disk'[f] # "result",
         raced' = raced \cup {f \in touched : InWindow(f)}
  PROVE  Transaction!Edit
<1> USE DEF Ledger
<1>1. Seen' \in [Files -> {"before", "result", "foreign"}]
  BY SeenFacts DEF Seen
<1>2. \A f \in Files : Seen'[f] = "result" => Seen[f] = "result"
  BY SeenFacts
<1>3. ASSUME NEW f \in touched, InWindow(f), f \notin raced PROVE Seen'[f] # Seen[f]
  <2>1. Seen[f] \in {"before", "result"} /\ disk'[f] # disk[f]
    BY <1>3, SeenFacts DEF Guarded, InWindow
  <2> QED
    BY <2>1, SeenFacts
<1>4. raced' \subseteq raced \cup {f \in Files : Seen'[f] # Seen[f]}
  BY <1>3
<1>5. UNCHANGED <<committed, Verdict>>
  BY OpenUntilEnded
<1> HIDE DEF Seen, Verdict
<1> QED
  BY <1>1, <1>2, <1>4, <1>5 DEF Transaction!Edit

\* The steps of other programs.
LEMMA OthersRefine ==
  ASSUME Ledger, OtherPrograms
  PROVE  Transaction!Next \/ UNCHANGED Transaction!transactionVars
<1> USE DEF Ledger, Edit, transaction
<1>1. step # "ended" /\ UNCHANGED <<step, at, committed>>
  BY DEF OtherPrograms, EditFile, MakeEntry, MakeStray, RemoveTree
<1>2. ASSUME NEW f \in Files, EditFile(f) PROVE Transaction!Edit
  <2>1. /\ \A g \in Files : disk'[g] # disk[g] <=> g \in {f}
        /\ disk'[f] # "result"
    BY <1>2 DEF EditFile, PatchTypeOK
  <2>2. raced' = raced \cup {g \in {f} : InWindow(g)}
    BY <1>2 DEF EditFile
  <2> QED
    BY <1>1, <2>1, <2>2, EditRefines
<1>3. ASSUME NEW d \in Dirs, RemoveTree(d) PROVE Transaction!Edit
  <2> DEFINE lost == {f \in Files : Home[f] \in Below(d) /\ disk[f] # "absent"}
  <2>1. /\ disk' = [f \in Files |-> IF f \in lost THEN "absent" ELSE disk[f]]
        /\ raced' = raced \cup {f \in lost : InWindow(f)}
    BY <1>3 DEF RemoveTree
  <2>2. /\ \A f \in Files : disk'[f] # disk[f] <=> f \in lost
        /\ \A f \in lost : disk'[f] # "result"
    BY <2>1
  <2> HIDE DEF lost
  <2>3. lost \in SUBSET Files
    BY DEF lost
  <2> QED
    BY <1>1, <2>1, <2>2, <2>3, EditRefines
<1>4. ASSUME NEW d \in Dirs, MakeEntry(d) \/ MakeStray(d)
      PROVE  UNCHANGED Transaction!transactionVars
  BY <1>1, <1>4, Stutters DEF MakeEntry, MakeStray
<1> QED
  BY <1>2, <1>3, <1>4 DEF OtherPrograms, Transaction!Next

\* commitPreparedPatch implements the all-or-nothing transaction, step by step.
THEOREM ImplementsPatchTransaction == PatchSpec => ImplementsTransaction
<1>1. PatchInit => Transaction!Init
  <2> SUFFICES ASSUME PatchInit PROVE Transaction!Init
    OBVIOUS
  <2>1. Seen = [f \in Files |-> "before"]
    BY DEF PatchInit, Seen, Initially
  <2> QED
    BY <2>1, OpenUntilEnded DEF PatchInit, Transaction!Init
<1>2. Ledger /\ [PatchNext]_patchVars => [Transaction!Next]_(Transaction!transactionVars)
  <2> SUFFICES ASSUME Ledger, [PatchNext]_patchVars
               PROVE  Transaction!Next \/ UNCHANGED Transaction!transactionVars
    OBVIOUS
  <2>1. CASE Crash
    BY <2>1, Stutters DEF Crash, Goto, world, transaction, history
  <2>2. CASE UNCHANGED patchVars
    BY <2>2 DEF patchVars, world, transaction, history, Seen, Initially, Verdict, Outcome,
                Transaction!transactionVars
  <2> QED
    BY <2>1, <2>2, BrokerRefines, OthersRefine DEF PatchNext
<1> QED
  BY <1>1, <1>2, LedgerInvariant, PTL DEF PatchSpec, ImplementsTransaction, Transaction!Spec

-----------------------------------------------------------------------------
(* The mutex of the services.                                              *)


\* Every variable keeps its type: the counters and promise numbers are
\* naturals and only signals that were given to a call fire.
THEOREM MutexTypeCorrect == MutexSpec => []MutexTypeOK
<1>1. MutexInit => MutexTypeOK
  BY DEF MutexInit, MutexTypeOK, Stage
<1>2. MutexTypeOK /\ [MutexNext]_mutexVars => MutexTypeOK'
  <2> SUFFICES ASSUME MutexTypeOK, [MutexNext]_mutexVars PROVE MutexTypeOK'
    OBVIOUS
  <2> USE DEF MutexTypeOK, Stage
  <2>1. ASSUME NEW c \in Calls, Enter(c) PROVE MutexTypeOK'
    BY <2>1 DEF Enter, Go
  <2>2. ASSUME NEW c \in Calls, Abort(c) PROVE MutexTypeOK'
    BY <2>2 DEF Abort, Go
  <2>3. ASSUME NEW c \in Calls, Grant(c) PROVE MutexTypeOK'
    BY <2>3 DEF Grant, Go
  <2>4. ASSUME NEW c \in Calls, Start(c) PROVE MutexTypeOK'
    BY <2>4 DEF Start, Go
  <2>5. ASSUME NEW c \in Calls, StartAborted(c) PROVE MutexTypeOK'
    BY <2>5 DEF StartAborted, Go, Release
  <2>6. ASSUME NEW c \in Calls, FinishWork(c) PROVE MutexTypeOK'
    BY <2>6 DEF FinishWork, Go, Release
  <2>7. ASSUME NEW c \in Calls, PassOn(c) PROVE MutexTypeOK'
    BY <2>7 DEF PassOn, Go, Release
  <2>8. CASE UNCHANGED mutexVars
    BY <2>8 DEF mutexVars
  <2>9. QED
    BY <2>1, <2>2, <2>3, <2>4, <2>5, <2>6, <2>7, <2>8 DEF MutexNext
<1>3. QED
  BY <1>1, <1>2, PTL DEF MutexSpec

\* A step in which call c resolves its promise, its predecessor being
\* resolved, keeps the chain resolved in order.
LEMMA ReleaseKeepsChain ==
  ASSUME MutexTypeOK, Chain, NEW c \in Calls, NEW stage \in {"done", "cancelled"},
         pc[c] \in {"granted", "working", "abandoned"},
         PreviousReleased(c), Go(c, stage), Release(c),
         UNCHANGED <<tail, slot>>
  PROVE  Chain'
<1> USE DEF MutexTypeOK, Chain, Go, Release, PreviousReleased, Stage
<1>1. slot[c] \in Nat \ {0} /\ slot[c] <= tail
  OBVIOUS
<1>2. (\A i \in released : i <= tail)'
  BY <1>1
<1>3. (\A i \in released : \A j \in 0..i : j \in released)'
  <2> SUFFICES ASSUME NEW i \in released \cup {slot[c]}, NEW j \in 0..i
               PROVE  j \in released \cup {slot[c]}
    OBVIOUS
  <2>1. CASE i \in released
    BY <2>1
  <2>2. CASE i = slot[c] /\ j # slot[c]
    <3>1. j \in 0..(slot[c] - 1)
      BY <2>2, <1>1
    <3>2. QED
      BY <3>1
  <2>3. QED
    BY <2>1, <2>2
<1>4. (\A d \in Calls : pc[d] \in {"done", "cancelled", "idle"} <=> slot[d] \in released)'
  BY <1>1
<1>5. QED
  BY <1>1, <1>2, <1>3, <1>4

\* The chain of promises resolves in order (Chain is inductive).
THEOREM ChainInvariant == MutexSpec => []Chain
<1>1. MutexInit => Chain
  BY DEF MutexInit, Chain, PreviousReleased
<1>2. MutexTypeOK /\ Chain /\ [MutexNext]_mutexVars => Chain'
  <2> SUFFICES ASSUME MutexTypeOK, Chain, [MutexNext]_mutexVars PROVE Chain'
    OBVIOUS
  <2>1. ASSUME NEW c \in Calls, Enter(c) PROVE Chain'
    BY <2>1 DEF Enter, Go, MutexTypeOK, Chain, PreviousReleased, Stage
  <2>2. ASSUME NEW c \in Calls, Abort(c) PROVE Chain'
    BY <2>2 DEF Abort, Go, MutexTypeOK, Chain, PreviousReleased, Stage
  <2>3. ASSUME NEW c \in Calls, Grant(c) PROVE Chain'
    BY <2>3 DEF Grant, Go, MutexTypeOK, Chain, PreviousReleased, Stage
  <2>4. ASSUME NEW c \in Calls, Start(c) PROVE Chain'
    BY <2>4 DEF Start, Go, MutexTypeOK, Chain, PreviousReleased, Stage
  <2>5. ASSUME NEW c \in Calls, StartAborted(c) PROVE Chain'
    BY <2>5, ReleaseKeepsChain DEF StartAborted, Chain
  <2>6. ASSUME NEW c \in Calls, FinishWork(c) PROVE Chain'
    BY <2>6, ReleaseKeepsChain DEF FinishWork, Chain
  <2>7. ASSUME NEW c \in Calls, PassOn(c) PROVE Chain'
    BY <2>7, ReleaseKeepsChain DEF PassOn
  <2>8. CASE UNCHANGED mutexVars
    BY <2>8 DEF mutexVars, Chain, PreviousReleased
  <2>9. QED
    BY <2>1, <2>2, <2>3, <2>4, <2>5, <2>6, <2>7, <2>8 DEF MutexNext
<1>3. QED
  BY <1>1, <1>2, MutexTypeCorrect, PTL DEF MutexSpec

\* Two operations of a service are never inside run() together.
THEOREM MutexExcludes == MutexSpec => []MutualExclusion
<1>1. MutexTypeOK /\ Chain => MutualExclusion
  <2> SUFFICES ASSUME MutexTypeOK, Chain, NEW c \in Calls, NEW d \in Calls,
                      pc[c] = "working", pc[d] = "working", slot[c] < slot[d]
               PROVE  FALSE
    BY DEF MutualExclusion, MutexTypeOK, Chain
  <2>1. slot[d] - 1 \in released /\ slot[c] \in 0..(slot[d] - 1)
    BY DEF MutexTypeOK, Chain, PreviousReleased
  <2>2. slot[c] \in released
    BY <2>1 DEF Chain
  <2>3. QED
    BY <2>2 DEF Chain
<1>2. QED
  BY <1>1, MutexTypeCorrect, ChainInvariant, PTL

\* A call works only when every call that entered run() before it has ended.
THEOREM MutexIsFair == MutexSpec => []NoOvertaking
<1>1. MutexTypeOK /\ Chain => NoOvertaking
  <2> SUFFICES ASSUME MutexTypeOK, Chain, NEW c \in Calls, NEW d \in Calls,
                      pc[c] = "working", 0 < slot[d], slot[d] < slot[c]
               PROVE  pc[d] \in {"done", "cancelled"}
    BY DEF NoOvertaking
  <2>1. slot[c] - 1 \in released /\ slot[d] \in 0..(slot[c] - 1)
    BY DEF MutexTypeOK, Chain, PreviousReleased
  <2>2. slot[d] \in released
    BY <2>1 DEF Chain
  <2>3. QED
    BY <2>2 DEF Chain, MutexTypeOK
<1>2. QED
  BY <1>1, MutexTypeCorrect, ChainInvariant, PTL

\* The work of a call never starts once its AbortSignal has fired.
THEOREM AbortedWorkNeverStarts == MutexSpec => AbortedNeverStarts
<1>1. MutexTypeOK /\ [MutexNext]_mutexVars
        => [\A c \in aborted : pc'[c] = "working" => pc[c] = "working"]_mutexVars
  <2> SUFFICES ASSUME MutexTypeOK, MutexNext, NEW c \in aborted, pc'[c] = "working"
               PROVE  pc[c] = "working"
    OBVIOUS
  <2>1. PICK d \in Calls : \/ Enter(d) \/ Abort(d) \/ Grant(d) \/ Start(d)
                           \/ StartAborted(d) \/ FinishWork(d) \/ PassOn(d)
    BY DEF MutexNext
  <2>2. c \in Calls
    BY DEF MutexTypeOK
  <2>3. CASE d = c
    BY <2>1, <2>2, <2>3 DEF MutexTypeOK, Enter, Abort, Grant, Start, StartAborted,
                            FinishWork, PassOn, Go
  <2>4. CASE d # c
    BY <2>1, <2>2, <2>4 DEF MutexTypeOK, Enter, Abort, Grant, Start, StartAborted,
                            FinishWork, PassOn, Go
  <2>5. QED
    BY <2>3, <2>4
<1>2. QED
  BY <1>1, MutexTypeCorrect, PTL DEF MutexSpec, AbortedNeverStarts
-----------------------------------------------------------------------------
(* The FIFO lock.                                                          *)

\* A queue of the same calls with the same promises is the same queue.
LEMMA SameQueue ==
  ASSUME Queued' = Queued, \A c \in Queued : slot'[c] = slot[c]
  PROVE  Ahead' = Ahead
BY DEF Ahead

\* A call that leaves the queue leaves the others in their order.
LEMMA LeavesTheQueue ==
  ASSUME NEW c, Queued' = Queued \ {c}, UNCHANGED slot
  PROVE  Ahead' = Fifo!Without(c)
<1>1. Fifo!Waiting = Queued
  BY DEF Fifo!Waiting, Ahead
<1>2. ASSUME NEW d \in Queued \ {c} PROVE {e \in Queued' : slot'[e] < slot'[d]} = Ahead[d] \ {c}
  BY DEF Ahead
<1>3. Ahead' = [d \in Queued \ {c} |-> {e \in Queued' : slot'[e] < slot'[d]}]
  BY DEF Ahead
<1> QED
  BY <1>1, <1>2, <1>3 DEF Fifo!Without

\* A call whose turn has come has nobody ahead of it, and nobody works.
LEMMA TurnHasCome ==
  ASSUME MutexTypeOK, Chain, NEW c \in Calls, pc[c] = "granted"
  PROVE  c \in Queued /\ Ahead[c] = {} /\ Working = {}
<1>1. slot[c] \in Nat /\ slot[c] - 1 \in released /\ slot[c] \notin released /\ slot[c] # 0
  BY DEF Chain, MutexTypeOK, PreviousReleased
<1>2. ASSUME NEW d \in Calls, slot[d] < slot[c] PROVE pc[d] \notin {"waiting", "granted", "working"}
  <2>1. slot[d] \in 0..(slot[c] - 1)
    BY <1>1, <1>2 DEF MutexTypeOK
  <2>2. slot[d] \in released
    BY <1>1, <2>1 DEF Chain
  <2> QED
    BY <2>2 DEF Chain
<1>3. ASSUME NEW d \in Calls, slot[c] < slot[d] PROVE pc[d] # "working"
  <2> SUFFICES ASSUME pc[d] = "working" PROVE FALSE
    OBVIOUS
  <2>1. slot[d] - 1 \in released /\ slot[c] \in 0..(slot[d] - 1)
    BY <1>1, <1>3 DEF Chain, MutexTypeOK, PreviousReleased
  <2>2. slot[c] \in released
    BY <2>1 DEF Chain
  <2> QED
    BY <1>1, <2>2
<1>4. ASSUME NEW d \in Calls, slot[d] = slot[c] PROVE d = c
  BY <1>1, <1>4 DEF Chain
<1>5. \A d \in Calls : slot[d] \in Nat
  BY DEF MutexTypeOK
<1>6. c \in Queued /\ Ahead[c] = {}
  BY <1>2 DEF Queued, Ahead
<1>7. Working = {}
  BY <1>1, <1>2, <1>3, <1>4, <1>5 DEF Working
<1> QED
  BY <1>6, <1>7

\* The promise chain implements a FIFO lock, for any number of calls: one
\* holder at a time, in the order of the calls that have not given up
\* (lifecycle-mutex.ts:7-28).
THEOREM MutexIsFifo == MutexSpec => Fifo!Spec
<1>1. MutexInit => Fifo!Init
  <2> SUFFICES ASSUME MutexInit PROVE Fifo!Init
    OBVIOUS
  <2>1. Queued = {} /\ Working = {}
    BY DEF MutexInit, Queued, Working
  <2> QED
    BY <2>1 DEF Fifo!Init, Ahead
<1>2. MutexTypeOK /\ Chain /\ MutualExclusion /\ [MutexNext]_mutexVars => [Fifo!Next]_Fifo!lockVars
  <2> SUFFICES ASSUME MutexTypeOK, Chain, MutualExclusion, [MutexNext]_mutexVars
               PROVE  Fifo!Next \/ UNCHANGED <<Ahead, Working>>
    BY DEF Fifo!lockVars
  <2> USE DEF Go
  <2>0. Fifo!Waiting = Queued /\ pc \in [Calls -> Stage] /\ slot \in [Calls -> Nat] /\ tail \in Nat
    BY DEF Fifo!Waiting, Ahead, MutexTypeOK
  <2>1. ASSUME NEW c \in Calls, Enter(c), c \notin aborted PROVE Fifo!Arrive(c)
    <3>1. c \notin Queued \cup Working
      BY <2>1 DEF Enter, Queued, Working
    <3>2. Queued' = Queued \cup {c} /\ UNCHANGED Working
      BY <2>0, <2>1 DEF Enter, Queued, Working
    <3>3. /\ slot'[c] = tail + 1 /\ \A d \in Queued : /\ slot'[d] = slot[d] /\ slot[d] \in Nat /\ slot[d] <= tail
      BY <2>0, <2>1, <3>1 DEF Enter, Queued, Chain
    <3>4. {e \in Queued' : slot'[e] < slot'[c]} = Queued
      BY <2>0, <3>1, <3>2, <3>3
    <3>5. ASSUME NEW d \in Queued PROVE {e \in Queued' : slot'[e] < slot'[d]} = Ahead[d]
      BY <2>0, <3>1, <3>2, <3>3 DEF Ahead
    <3>6. Ahead' = [d \in Queued \cup {c} |-> IF d = c THEN Queued ELSE Ahead[d]]
      <4>1. Ahead' = [d \in Queued' |-> {e \in Queued' : slot'[e] < slot'[d]}]
        BY DEF Ahead
      <4> QED
        BY <3>1, <3>2, <3>4, <3>5, <4>1
    <3> QED
      BY <2>0, <3>1, <3>2, <3>6 DEF Fifo!Arrive
  <2>2. ASSUME NEW c \in Calls, Enter(c), c \in aborted PROVE UNCHANGED <<Ahead, Working>>
    <3>1. Queued' = Queued /\ UNCHANGED Working /\ \A d \in Queued : slot'[d] = slot[d]
      BY <2>0, <2>2 DEF Enter, Queued, Working
    <3> QED
      BY <3>1, SameQueue
  <2>3. ASSUME NEW c \in Calls, Abort(c), pc[c] = "waiting" PROVE Fifo!Withdraw(c)
    <3>1. c \in Queued /\ Queued' = Queued \ {c} /\ UNCHANGED <<slot, Working>>
      BY <2>0, <2>3 DEF Abort, Queued, Working
    <3> QED
      BY <2>0, <3>1, LeavesTheQueue DEF Fifo!Withdraw
  <2>4. ASSUME NEW c \in Calls, \/ Abort(c) /\ pc[c] # "waiting"
                               \/ Grant(c) \/ PassOn(c)
        PROVE  UNCHANGED <<Ahead, Working>>
    <3>1. Queued' = Queued /\ UNCHANGED <<slot, Working>>
      BY <2>0, <2>4 DEF Abort, Grant, PassOn, Queued, Working
    <3> QED
      BY <3>1, SameQueue
  <2>5. ASSUME NEW c \in Calls, Start(c) PROVE Fifo!Acquire(c)
    <3>1. c \in Queued /\ Ahead[c] = {} /\ Working = {}
      BY <2>5, TurnHasCome DEF Start
    <3>2. Queued' = Queued \ {c} /\ UNCHANGED slot /\ Working' = {c}
      BY <2>0, <2>5, <3>1 DEF Start, Queued, Working
    <3> QED
      BY <2>0, <3>1, <3>2, LeavesTheQueue DEF Fifo!Acquire
  <2>6. ASSUME NEW c \in Calls, StartAborted(c) PROVE Fifo!Withdraw(c)
    <3>1. c \in Queued /\ Queued' = Queued \ {c} /\ UNCHANGED <<slot, Working>>
      BY <2>0, <2>6 DEF StartAborted, Queued, Working
    <3> QED
      BY <2>0, <3>1, LeavesTheQueue DEF Fifo!Withdraw
  <2>7. ASSUME NEW c \in Calls, FinishWork(c) PROVE Fifo!Release
    <3>1. Working = {c}
      BY <2>7 DEF FinishWork, Working, MutualExclusion
    <3>2. Working' = {} /\ Queued' = Queued /\ UNCHANGED slot
      BY <2>0, <2>7, <3>1 DEF FinishWork, Queued, Working
    <3> QED
      BY <3>1, <3>2, SameQueue DEF Fifo!Release
  <2>8. CASE UNCHANGED mutexVars
    <3>1. Queued' = Queued /\ UNCHANGED <<slot, Working>>
      BY <2>8 DEF mutexVars, Queued, Working
    <3> QED
      BY <3>1, SameQueue
  <2> QED
    BY <2>1, <2>2, <2>3, <2>4, <2>5, <2>6, <2>7, <2>8 DEF MutexNext, Fifo!Next
<1> QED
  BY <1>1, <1>2, MutexTypeCorrect, ChainInvariant, MutexExcludes, PTL DEF MutexSpec, Fifo!Spec
=============================================================================
