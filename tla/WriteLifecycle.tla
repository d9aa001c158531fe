--------------------------- MODULE WriteLifecycle ---------------------------
(***************************************************************************)
(* The lifecycle of a write request that SPEC-002 15.1 draws: a manual     *)
(* request is pending until it is resolved once, a host-confirmed attempt  *)
(* is resolved as it is recorded, and a resolved record only ever goes     *)
(* away.  A record resolved as applied belongs to a patch that was written *)
(* completely.                                                             *)
(***************************************************************************)
CONSTANTS Ids, Mode

VARIABLES status,    \* "none", "pending", a resolution, "removed"
          complete   \* the requests whose every target holds what was written

lifecycleVars == <<status, complete>>

HostResolutions == {"applied", "stale", "failed"}
ManualResolutions == HostResolutions \cup {"rejected", "expired"}

Init ==
  /\ status = [i \in Ids |-> "none"]
  /\ complete = {}

Propose(i) == Mode[i] = "manual" /\ status[i] = "none" /\ status'[i] = "pending"

Resolve(i) ==
  /\ IF Mode[i] = "manual"
     THEN status[i] = "pending" /\ status'[i] \in ManualResolutions
     ELSE status[i] = "none" /\ status'[i] \in HostResolutions
  /\ status'[i] = "applied" => i \in complete

Forget(i) == status[i] \in ManualResolutions /\ status'[i] = "removed"

\* Several records may move in one operation, and a patch may be written or
\* taken back while its record has not been resolved as applied.
Next ==
  /\ status' \in [Ids -> {"none", "pending", "removed"} \cup ManualResolutions]
  /\ \A i \in Ids : status'[i] # status[i] => Propose(i) \/ Resolve(i) \/ Forget(i)
  /\ complete' \subseteq Ids
  /\ \A i \in complete : status[i] = "applied" => i \in complete'

Spec == Init /\ [][Next]_lifecycleVars
=============================================================================
