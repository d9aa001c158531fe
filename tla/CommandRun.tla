----------------------------- MODULE CommandRun -----------------------------
(***************************************************************************)
(* What runCommand promises the command service: started is answered once, *)
(* done is answered once and never before started, a run that was claimed  *)
(* for interruption does not complete, and every run ends.                 *)
(***************************************************************************)
VARIABLES started,  \* "unasked", "waiting", then "yes" or "null"
          claimed,  \* an interruption has been claimed
          outcome   \* "none", then "completed", "failed" or "interrupted"

runVars == <<started, claimed, outcome>>

Init == started = "unasked" /\ claimed = FALSE /\ outcome = "none"

Running == started # "unasked" /\ outcome = "none"
NeverStarted == started' = IF started = "waiting" THEN "null" ELSE started

Launch == started = "unasked" /\ started' = "waiting" /\ UNCHANGED <<claimed, outcome>>

Confirm == started = "waiting" /\ started' = "yes" /\ UNCHANGED <<claimed, outcome>>

Claim == Running /\ claimed' = TRUE /\ UNCHANGED <<started, outcome>>

\* Nothing was started.
Fail ==
  /\ \/ started = "unasked"
     \/ Running /\ started = "waiting"
  /\ started' = "null" /\ outcome' = "failed"
  /\ UNCHANGED claimed

Complete ==
  /\ Running /\ started = "yes" /\ ~claimed
  /\ outcome' = "completed"
  /\ UNCHANGED <<started, claimed>>

\* Claimed before, or in the same step when there is nobody to signal.
Interrupt ==
  /\ Running
  /\ claimed' = TRUE /\ outcome' = "interrupted"
  /\ NeverStarted

End == (Running /\ Fail) \/ Complete \/ Interrupt

Next == Launch \/ Confirm \/ Claim \/ Fail \/ Complete \/ Interrupt

Spec == Init /\ [][Next]_runVars

\* The deadline of a run ends it whatever the process does.
FairSpec == Spec /\ WF_runVars(End)
=============================================================================
