--------------------------- MODULE LifecycleMutex ---------------------------
(***************************************************************************)
(* The promise-chain mutex of src/write-requests/lifecycle-mutex.ts, which *)
(* serializes every operation of WriteRequestService and of                *)
(* CommandRequestService.                                                  *)
(*                                                                         *)
(* The promises that `tail` ever holds are numbered: promise 0 is the      *)
(* initial resolved one, the n-th call of run() creates promise n and      *)
(* waits for promise n - 1.  `released` are the resolved ones.  A caller   *)
(* may hold an AbortSignal, which can fire at any moment.                  *)
(***************************************************************************)
EXTENDS Naturals

CONSTANTS Calls,      \* invocations of run(); each happens at most once
          Abortable   \* the invocations that were given an AbortSignal

VARIABLES tail,       \* number of the promise in this.tail
          slot,       \* slot[c]: number of the promise created by call c
          released,   \* numbers of the resolved promises
          aborted,    \* calls whose AbortSignal has fired
          pc          \* where each call stands in run()

mutexVars == <<tail, slot, released, aborted, pc>>

Stage == {"idle", "waiting", "granted", "working", "abandoned",
          "done", "cancelled"}

MutexInit ==
  /\ tail = 0
  /\ slot = [c \in Calls |-> 0]
  /\ released = {0}
  /\ aborted = {}
  /\ pc = [c \in Calls |-> "idle"]

Go(c, stage) == pc' = [pc EXCEPT ![c] = stage]

\* release(): resolves the promise that the next call waits for.
Release(c) == released' = released \cup {slot[c]}

\* The previous promise of the chain is resolved.
PreviousReleased(c) == slot[c] - 1 \in released

\* run() is called: the tail is swapped before anything is awaited, and a
\* signal that has fired already cancels the wait at once.
Enter(c) ==
  /\ pc[c] = "idle"
  /\ tail' = tail + 1
  /\ slot' = [slot EXCEPT ![c] = tail + 1]
  /\ Go(c, IF c \in aborted THEN "abandoned" ELSE "waiting")
  /\ UNCHANGED <<released, aborted>>

\* The signal fires.  While the wait is pending its listener rejects the
\* wait; later it is only a flag.
Abort(c) ==
  /\ c \in Abortable \ aborted
  /\ aborted' = aborted \cup {c}
  /\ Go(c, IF pc[c] = "waiting" THEN "abandoned" ELSE pc[c])
  /\ UNCHANGED <<tail, slot, released>>

\* The then-callback of the previous promise: the listener is removed.
Grant(c) ==
  /\ pc[c] = "waiting"
  /\ PreviousReleased(c)
  /\ Go(c, "granted")
  /\ UNCHANGED <<tail, slot, released, aborted>>

\* The awaited wait resumes with the lock acquired, and the signal is looked
\* at once more before the work starts.
Start(c) ==
  /\ pc[c] = "granted"
  /\ c \notin aborted
  /\ Go(c, "working")
  /\ UNCHANGED <<tail, slot, released, aborted>>

StartAborted(c) ==
  /\ pc[c] = "granted"
  /\ c \in aborted
  /\ Go(c, "cancelled")
  /\ Release(c)
  /\ UNCHANGED <<tail, slot, aborted>>

\* The work returned or threw: the finally block releases.
FinishWork(c) ==
  /\ pc[c] = "working"
  /\ Go(c, "done")
  /\ Release(c)
  /\ UNCHANGED <<tail, slot, aborted>>

\* Mutant: an abandoned call releases at once instead of in its turn.
PassOnEarly(c) ==
  /\ pc[c] = "abandoned"
  /\ Go(c, "cancelled")
  /\ Release(c)
  /\ UNCHANGED <<tail, slot, aborted>>

\* An abandoned call hands its turn on, but only once its own turn comes.
PassOn(c) ==
  /\ pc[c] = "abandoned"
  /\ PreviousReleased(c)
  /\ Go(c, "cancelled")
  /\ Release(c)
  /\ UNCHANGED <<tail, slot, aborted>>

MutexNext ==
  \E c \in Calls :
    \/ Enter(c)
    \/ Abort(c)
    \/ Grant(c)
    \/ Start(c)
    \/ StartAborted(c)
    \/ FinishWork(c)
    \/ PassOn(c)

MutexSpec == MutexInit /\ [][MutexNext]_mutexVars

\* Callbacks that are due run, and a caller's work ends (every promise the
\* services await inside it settles); nobody is obliged to call or to abort.
MutexFairness ==
  \A c \in Calls : /\ WF_mutexVars(Grant(c))
                   /\ WF_mutexVars(Start(c) \/ StartAborted(c))
                   /\ WF_mutexVars(FinishWork(c))
                   /\ WF_mutexVars(PassOn(c))

MutexFairSpec == MutexSpec /\ MutexFairness
-----------------------------------------------------------------------------
MutexTypeOK ==
  /\ tail \in Nat
  /\ slot \in [Calls -> Nat]
  /\ released \subseteq Nat
  /\ aborted \subseteq Calls \cap Abortable
  /\ pc \in [Calls -> Stage]

\* Two operations of a service never run at the same time, whatever calls
\* were aborted, before, while or after they waited.
MutualExclusion ==
  \A c, d \in Calls : pc[c] = "working" /\ pc[d] = "working" => c = d

\* "Abandoned queue entries never let successors overtake": when a call
\* works, every call that entered before it has ended.
NoOvertaking ==
  \A c, d \in Calls :
    /\ pc[c] = "working"
    /\ 0 < slot[d]
    /\ slot[d] < slot[c]
    => pc[d] \in {"done", "cancelled"}

\* "Abandoned queue entries never run": the work of a call does not start
\* after its signal has fired.
AbortedNeverStarts ==
  [][\A c \in aborted : pc'[c] = "working" => pc[c] = "working"]_mutexVars

\* The strengthening that makes mutual exclusion inductive: the promises
\* resolve in order, and a call that holds the lock is the lowest unresolved.
Chain ==
  /\ \A i \in released : i <= tail
  /\ \A i \in released : \A j \in 0..i : j \in released
  /\ \A c \in Calls : slot[c] <= tail
  /\ \A c \in Calls : (pc[c] = "idle") <=> (slot[c] = 0)
  /\ \A c, d \in Calls : slot[c] = slot[d] /\ slot[c] # 0 => c = d
  /\ \A c \in Calls : pc[c] \in {"done", "cancelled", "idle"} <=> slot[c] \in released
  /\ \A c \in Calls : pc[c] \in {"granted", "working"} => PreviousReleased(c)
-----------------------------------------------------------------------------
(* The lock that the chain of promises implements: the calls still waiting *)
(* in the order of their promises.                                         *)

Queued == {c \in Calls : pc[c] \in {"waiting", "granted"}}
Ahead == [c \in Queued |-> {d \in Queued : slot[d] < slot[c]}]
Working == {c \in Calls : pc[c] = "working"}

Fifo == INSTANCE FifoLock WITH ahead <- Ahead, holders <- Working
=============================================================================
