-------------------------- MODULE RaftRefinement --------------------------
(* Raft implements the replicated log the services are written against.      *)
EXTENDS Raft

(* The entries leaders have committed, as the one sequence they form.        *)
DecidedLog ==
    [x \in 1..Max({0} \cup {e.index : e \in committed}) |-> CHOOSE e \in committed : e.index = x]

OneLog == INSTANCE ReplicatedLog
              WITH decided <- DecidedLog, executed <- [i \in Server |-> service[i].state]

(* Every step of the peers, of the network and of a crash is a step of the   *)
(* one log or invisible in it: commits only extend it, and each service      *)
(* moves along it, although two goroutines write to applyCh, snapshots       *)
(* replace commands and a restart replays (DoApply, CondInstallSnapshot,     *)
(* Sync, Make of raft.go).                                                   *)
ImplementsLog == OneLog!Spec
=============================================================================
