-------------------------- MODULE MCBrokerLifecycle --------------------------
(***************************************************************************)
(* Two commands, two brokers, two pids, a record that is rewritten once.   *)
(***************************************************************************)
EXTENDS BrokerLifecycle, TLC

Alike == Permutations(Commands) \cup Permutations(Brokers) \cup Permutations(Pids)
=============================================================================
