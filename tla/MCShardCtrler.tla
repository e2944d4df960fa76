--------------------------- MODULE MCShardCtrler ---------------------------
(* The controller on small instances.  Servers and clerks are                *)
(* interchangeable; groups are not, their numbers decide between equals.     *)
EXTENDS ShardCtrler

Symmetry == Permutations(Server) \cup Permutations(Client)

Singles == {{g} : g \in GID}

(* Group 1 stays once it has joined.                                         *)
Leave2 == {{2}}

(* One shard pinned to group 2, which may join and leave.                    *)
Move2 == {[shard |-> 0, gid |-> 2]}
=============================================================================
