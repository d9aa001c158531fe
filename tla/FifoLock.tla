------------------------------ MODULE FifoLock ------------------------------
(***************************************************************************)
(* What LifecycleMutex promises its callers: one holder at a time, granted *)
(* strictly in order of arrival among the callers that have not given up.  *)
(***************************************************************************)
CONSTANT Calls

VARIABLES ahead,   \* for each caller that waits, the ones that were before it and still wait
          holders  \* the callers whose work is running

lockVars == <<ahead, holders>>

Waiting == DOMAIN ahead
Without(c) == [d \in Waiting \ {c} |-> ahead[d] \ {c}]

Init ==
  /\ ahead = [c \in {} |-> {}]
  /\ holders = {}

Arrive(c) ==
  /\ c \notin Waiting \cup holders
  /\ ahead' = [d \in Waiting \cup {c} |-> IF d = c THEN Waiting ELSE ahead[d]]
  /\ UNCHANGED holders

\* A waiting caller may give up from any place of the queue.
Withdraw(c) ==
  /\ c \in Waiting
  /\ ahead' = Without(c)
  /\ UNCHANGED holders

\* The one that nobody is ahead of gets the lock when nobody holds it.
Acquire(c) ==
  /\ c \in Waiting
  /\ ahead[c] = {}
  /\ holders = {}
  /\ holders' = {c}
  /\ ahead' = Without(c)

Release ==
  /\ holders # {}
  /\ holders' = {}
  /\ UNCHANGED ahead

Next ==
  \/ \E c \in Calls : Arrive(c) \/ Withdraw(c) \/ Acquire(c)
  \/ Release

Spec == Init /\ [][Next]_lockVars

\* Nobody holds the lock or waits for it for ever: a caller works, or gives up.
NobodyIsStuck == \A c \in Calls : c \in Waiting \cup holders ~> c \notin Waiting \cup holders

FairSpec == Spec /\ NobodyIsStuck
=============================================================================
