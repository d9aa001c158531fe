-------------------------- MODULE CommandLifecycle --------------------------
(***************************************************************************)
(* The lifecycle of a command request (SPEC-004, section 8): pending until *)
(* it is resolved locally, by time or by a durable claim; running until    *)
(* its one attempt is resolved; a resolved record only ever goes away.     *)
(***************************************************************************)
EXTENDS Naturals

CONSTANT Ids

VARIABLES status,   \* "none", "pending", "running", a resolution, "removed"
          attempts  \* how often the command of a request was launched

lifecycleVars == <<status, attempts>>

Executed == {"completed", "failed", "interrupted"}
Dismissed == {"rejected", "expired"}

Init ==
  /\ status = [i \in Ids |-> "none"]
  /\ attempts = [i \in Ids |-> 0]

Moves(from, to) ==
  \/ from = "none" /\ to = "pending"
  \/ from = "pending" /\ to \in Dismissed \cup {"running", "removed"}
  \/ from = "running" /\ to \in Executed
  \/ from \in Executed \cup Dismissed /\ to = "removed"

\* The claim is durable before the launch, and there is one launch.
Launches(i) ==
  /\ attempts[i] = 0 /\ attempts'[i] = 1
  /\ status'[i] = "running"

Next ==
  /\ status' \in [Ids -> {"none", "pending", "running", "removed"} \cup Executed \cup Dismissed]
  /\ attempts' \in [Ids -> {0, 1}]
  /\ \A i \in Ids :
       /\ status'[i] = status[i] \/ Moves(status[i], status'[i])
       /\ attempts'[i] = attempts[i] \/ Launches(i)

Spec == Init /\ [][Next]_lifecycleVars
=============================================================================
