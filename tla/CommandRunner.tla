---------------------------- MODULE CommandRunner ----------------------------
(***************************************************************************)
(* runCommand (src/command-requests/runner.ts): one child process, the     *)
(* events Node emits for it and for its two pipes, the deadline, and the   *)
(* interruptions of the owner, in every order the event loop can deliver   *)
(* them.  An action is one callback, run to completion.                    *)
(*                                                                         *)
(* Pipes may outlive the process (a descendant holds them), and nothing    *)
(* obliges the process to exit, not even a signal.                         *)
(***************************************************************************)
EXTENDS Naturals

Streams == {"out", "err"}

VARIABLES
  child,        \* the OS process: "none", "alive" or "exited"
  emitter,      \* the ChildProcess: "none", "live" or "silent" (listeners removed)
  leader,       \* the identity of the process is known
  spawned, exitSeen, closed,
  eof, shut,    \* pipes whose end, whose close event was seen
  captureError,
  interruption, \* "none" or the code that was claimed
  stopping,     \* termination of the leader is awaited
  started,      \* the promise: "unasked", "waiting", "null", "yes"
  outcome       \* the promise done: "none" or the receipt

events == <<spawned, exitSeen, closed, eof, shut, captureError>>
vars == <<child, emitter, leader, events, interruption, stopping, started, outcome>>

Codes == {"COMMAND_TIMEOUT", "COMMAND_OUTPUT_INCOMPLETE", "BROKER_SHUTDOWN"}
Terminations == {"group", "leader", "absent", "different", "unavailable"}
Unresolved == [status |-> "none"]

Init ==
  /\ child = "none" /\ emitter = "none" /\ leader = FALSE
  /\ spawned = FALSE /\ exitSeen = FALSE /\ closed = FALSE
  /\ eof = {} /\ shut = {} /\ captureError = FALSE
  /\ interruption = "none" /\ stopping = FALSE
  /\ started = "unasked" /\ outcome = Unresolved

finished == outcome # Unresolved
Listening == emitter = "live"
-----------------------------------------------------------------------------
(* finish, complete and interrupt.  They look at the primed events: the    *)
(* callback that calls them has updated those.                             *)

\* Mutant: output that was not seen to its end is reported complete.
ReceiptOptimistic(status, termination) ==
  [status |-> status, incomplete |-> captureError', termination |-> termination]

Receipt(status, termination) ==
  [status |-> status,
   incomplete |-> status # "failed" /\ (~spawned' \/ captureError' \/ eof' # Streams),
   termination |-> termination]

\* Listeners are removed, the pipes destroyed and the deadline cleared.
Finish(status, termination) ==
  /\ outcome' = Receipt(status, termination)
  /\ emitter' = "silent"
  /\ started' = IF spawned' THEN started ELSE "null"

\* Mutant: an interruption that was claimed is not looked at.
CompleteUnclaimed ==
  IF /\ spawned' /\ closed' /\ eof' = Streams /\ ~captureError'
  THEN Finish("completed", "none")
  ELSE UNCHANGED <<outcome, emitter, started>>

Complete ==
  IF /\ interruption = "none"
     /\ spawned' /\ closed' /\ eof' = Streams /\ ~captureError'
  THEN Finish("completed", "none")
  ELSE UNCHANGED <<outcome, emitter, started>>

\* Mutants: a later reason overwrites the first; nothing ends a run that has
\* no leader to signal.
InterruptAgain(code) ==
  /\ interruption' = code
  /\ IF leader
     THEN stopping' = TRUE /\ UNCHANGED <<outcome, emitter, started>>
     ELSE Finish("interrupted", "absent") /\ UNCHANGED stopping

InterruptNobody(code) ==
  /\ interruption' = IF interruption = "none" THEN code ELSE interruption
  /\ stopping' = leader
  /\ UNCHANGED <<outcome, emitter, started>>

\* The first caller claims; with no leader to signal the run ends at once.
Interrupt(code) ==
  IF stopping
  THEN UNCHANGED <<interruption, stopping, outcome, emitter, started>>
  ELSE /\ interruption' = code
       /\ IF leader
          THEN stopping' = TRUE /\ UNCHANGED <<outcome, emitter, started>>
          ELSE Finish("interrupted", "absent") /\ UNCHANGED stopping

NoCall == UNCHANGED <<interruption, stopping, outcome, emitter, started>>
-----------------------------------------------------------------------------
(* Launching.  The OS may have created the process before Node says so,    *)
(* and its identity may then be readable already.                          *)

Launch ==
  /\ started = "unasked"
  /\ UNCHANGED <<events, interruption, stopping>>
  /\ \/ /\ child' = "alive" /\ leader' \in BOOLEAN
        /\ emitter' = "live" /\ started' = "waiting" /\ UNCHANGED outcome
     \/ /\ UNCHANGED <<child, leader>>
        /\ \/ emitter' = "live" /\ started' = "waiting" /\ UNCHANGED outcome
           \/ Finish("failed", "none")

SpawnEvent ==
  /\ Listening /\ child # "none" /\ ~spawned
  /\ spawned' = TRUE
  /\ \E known \in BOOLEAN : leader' = (leader \/ known)
  /\ started' = "yes"
  /\ UNCHANGED <<child, emitter, exitSeen, closed, eof, shut, captureError, interruption,
                 stopping, outcome>>

\* An error before the spawn event: no process was created.
SpawnError ==
  /\ Listening /\ child = "none"
  /\ UNCHANGED events
  /\ Finish("failed", "none")
  /\ UNCHANGED <<child, leader, interruption, stopping>>

\* An error after it: capture can no longer be trusted.
ChildError ==
  /\ Listening /\ spawned
  /\ captureError' = TRUE
  /\ UNCHANGED <<spawned, exitSeen, closed, eof, shut>>
  /\ Interrupt("COMMAND_OUTPUT_INCOMPLETE")
  /\ UNCHANGED <<child, leader>>

\* The process ends by itself, or because it was signaled.
ProcessExits ==
  /\ child = "alive"
  /\ child' = "exited"
  /\ UNCHANGED <<leader, events>> /\ NoCall

ExitEvent ==
  /\ Listening /\ child = "exited" /\ spawned /\ ~exitSeen
  /\ exitSeen' = TRUE
  /\ UNCHANGED <<child, leader, spawned, closed, eof, shut, captureError>> /\ NoCall

\* Node emits close once the process has exited and both pipes are closed.
CloseEvent ==
  /\ Listening /\ exitSeen /\ shut = Streams /\ ~closed
  /\ closed' = TRUE
  /\ UNCHANGED <<spawned, exitSeen, eof, shut, captureError>>
  /\ Complete
  /\ UNCHANGED <<child, leader, interruption, stopping>>
-----------------------------------------------------------------------------
(* The pipes.                                                              *)

StreamEnd(s) ==
  /\ Listening /\ spawned /\ s \notin eof \cup shut
  /\ eof' = eof \cup {s}
  /\ UNCHANGED <<spawned, exitSeen, closed, shut, captureError>>
  /\ Complete
  /\ UNCHANGED <<child, leader, interruption, stopping>>

StreamError(s) ==
  /\ Listening /\ spawned /\ s \notin shut
  /\ captureError' = TRUE
  /\ UNCHANGED <<spawned, exitSeen, closed, eof, shut>>
  /\ Interrupt("COMMAND_OUTPUT_INCOMPLETE")
  /\ UNCHANGED <<child, leader>>

StreamClose(s) ==
  /\ Listening /\ spawned /\ s \notin shut
  /\ shut' = shut \cup {s}
  /\ UNCHANGED <<spawned, exitSeen, closed, eof>>
  /\ IF s \in eof
     THEN UNCHANGED captureError /\ NoCall
     ELSE captureError' = TRUE /\ Interrupt("COMMAND_OUTPUT_INCOMPLETE")
  /\ UNCHANGED <<child, leader>>
-----------------------------------------------------------------------------
(* The deadline, the owner, and the end of an interruption.                *)

InterruptBy(code) ==
  /\ started # "unasked" /\ ~finished
  /\ UNCHANGED events
  /\ Interrupt(code)
  /\ UNCHANGED <<child, leader>>

Deadline == InterruptBy("COMMAND_TIMEOUT")
OwnerInterrupts == \E code \in {"BROKER_SHUTDOWN", "COMMAND_OUTPUT_INCOMPLETE"} : InterruptBy(code)

\* The signaling helper answers, throws, or the cleanup deadline of 4.5 s
\* passes first.
Terminated ==
  /\ stopping /\ ~finished
  /\ UNCHANGED events
  /\ \E termination \in Terminations : Finish("interrupted", termination)
  /\ UNCHANGED <<child, leader, interruption, stopping>>

Next ==
  \/ Launch
  \/ SpawnEvent \/ SpawnError \/ ChildError
  \/ ProcessExits \/ ExitEvent \/ CloseEvent
  \/ \E s \in Streams : StreamEnd(s) \/ StreamError(s) \/ StreamClose(s)
  \/ Deadline \/ OwnerInterrupts \/ Terminated

Spec == Init /\ [][Next]_vars

\* Timers fire.  Nothing is assumed of the process, its pipes or the owner.
FairSpec == Spec /\ WF_vars(Deadline) /\ WF_vars(Terminated)
-----------------------------------------------------------------------------
TypeOK ==
  /\ child \in {"none", "alive", "exited"}
  /\ emitter \in {"none", "live", "silent"}
  /\ leader \in BOOLEAN /\ spawned \in BOOLEAN /\ exitSeen \in BOOLEAN
  /\ closed \in BOOLEAN /\ captureError \in BOOLEAN /\ stopping \in BOOLEAN
  /\ eof \subseteq Streams /\ shut \subseteq Streams
  /\ interruption \in Codes \cup {"none"}
  /\ started \in {"unasked", "waiting", "null", "yes"}
  /\ outcome = Unresolved
     \/ outcome \in [status : {"completed", "failed", "interrupted"}, incomplete : BOOLEAN,
                     termination : Terminations \cup {"none"}]

\* A run is reported as completed only when the process has exited, both
\* pipes ended by themselves, nothing was lost and nobody had claimed an
\* interruption.
CompletedIsTruthful ==
  outcome.status = "completed" =>
    /\ child = "exited" /\ exitSeen
    /\ eof = Streams /\ ~captureError
    /\ interruption = "none"
    /\ ~outcome.incomplete

\* A run is reported as failed only when no process was created, so nothing
\* of it is left running.
FailedNeverRan == outcome.status = "failed" => child = "none"

\* Output is reported complete only when all of it was seen.
CompleteOutputWasSeen ==
  finished /\ child # "none" /\ ~outcome.incomplete => eof = Streams /\ ~captureError

\* The first reason to interrupt is kept, and a resolved run is not resolved
\* again, whatever is emitted later.
FirstClaimWins ==
  [][/\ interruption # "none" => interruption' = interruption
     /\ finished => outcome' = outcome]_vars

\* Every run ends, even if the process never exits and its pipes never end.
EveryRunEnds == started # "unasked" ~> finished
-----------------------------------------------------------------------------
Run == INSTANCE CommandRun
  WITH claimed <- interruption # "none", outcome <- outcome.status

\* Whatever the event loop delivers, the service sees the run it expects.
ImplementsRun == Run!FairSpec
=============================================================================
