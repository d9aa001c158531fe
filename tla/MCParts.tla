------------------------------- MODULE MCParts -------------------------------
(***************************************************************************)
(* The parts that share no state, each explored by itself: a run of a      *)
(* command, the mutex, the application of a patch, its preparation, and a  *)
(* command that starts, restarts or stops brokers that may hang.  `part`   *)
(* is the one a behaviour is about; the others keep an initial state.      *)
(*                                                                         *)
(* The mutex has four calls, three of them observations that can be        *)
(* aborted.  The patch has two updates around a create in a nested         *)
(* directory that does not exist; MCPatchText tells which texts, edits and *)
(* diffs are prepared.                                                     *)
(***************************************************************************)
EXTENDS CommandRunner, LifecycleMutex, PatchApply, MCPatchText

CONSTANTS Nobody, Commands, Brokers, Pids, Other, MaxReconciliations, MaxRewrites

VARIABLES part,
          proc, pid, occupant, lease, record, rewrites, asked,
          op, goal, place, snap, ident, tries, ousted, harmed

brokerVars == <<proc, pid, occupant, lease, record, rewrites, asked,
                op, goal, place, snap, ident, tries, ousted, harmed>>
partsVars == <<part, vars, mutexVars, patchVars, textVars, brokerVars>>

Lifecycle == INSTANCE BrokerLifecycle WITH pc <- place

MCOp == <<"update", "create", "update">>
MCHome == <<0, 2, 0>>
MCAbove == <<0, 1>>

RunStep   == part = "run"   /\ Next       /\ UNCHANGED <<part, mutexVars, patchVars, textVars, brokerVars>>
MutexStep == part = "mutex" /\ MutexNext  /\ UNCHANGED <<part, vars, patchVars, textVars, brokerVars>>
PatchStep == part = "patch" /\ PatchNext  /\ UNCHANGED <<part, vars, mutexVars, textVars, brokerVars>>
TextStep  == part = "text"  /\ TextNext   /\ UNCHANGED <<part, vars, mutexVars, patchVars, brokerVars>>
BrokerStep ==
  part = "broker" /\ Lifecycle!Next /\ UNCHANGED <<part, vars, mutexVars, patchVars, textVars>>

PartsInit ==
  /\ part \in {"run", "mutex", "patch", "text", "broker"}
  /\ Init /\ MutexInit /\ PatchInit /\ Lifecycle!Init
  /\ TextInit /\ (part = "text" \/ file = Absent)

\* The fairness of CommandRunner, LifecycleMutex and BrokerLifecycle: an
\* initial state enables none of these steps.
PartsSpec ==
  /\ PartsInit
  /\ [][RunStep \/ MutexStep \/ PatchStep \/ TextStep \/ BrokerStep]_partsVars
  /\ WF_vars(Deadline) /\ WF_vars(Terminated) /\ MutexFairness /\ Lifecycle!Fairness

-----------------------------------------------------------------------------
\* The promise chain implements the FIFO lock its callers rely on, and no
\* aborted call wedges it: whoever waits or works gets out (lifecycle-mutex.ts:25).
ImplementsFifoLock == Fifo!FairSpec

\* Every command returns or throws, even when the broker it deals with hangs
\* (broker/installation-process.ts:554).
CommandsEnd == Lifecycle!CommandsEnd
=============================================================================
