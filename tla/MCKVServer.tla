---------------------------- MODULE MCKVServer ----------------------------
(* The key/value server on a small instance.                                 *)
EXTENDS KVServer, TLC

Symmetry == Permutations(Client) \cup Permutations(Server)

(* Two states that differ only in what no step can read any more count as    *)
(* one: once no command can be started, that is what clerks without a call   *)
(* are still asked for, and how many requests there were; and lastApplied,   *)
(* whose two comparisons always come out the same: it is not above what was  *)
(* delivered, and not below a command that a snapshot overtook.              *)
LiveView ==
    <<[c \in Client |-> IF starts = MaxStarts /\ call[c].pc = "idle" THEN Nil
                        ELSE <<current[c], since[c]>>],
      IF starts = MaxStarts THEN 0 ELSE requests,
      call, starts, raftVars, kv, dedup, deliveryVars, restarts>>
=============================================================================
