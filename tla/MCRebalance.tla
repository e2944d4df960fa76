---------------------------- MODULE MCRebalance ----------------------------
(* The loop for as many shards as the code has.  Its turns depend on how     *)
(* many shards each group has and not on which, so that the shards of group  *)
(* 0, 1, 2... may be taken to stand in this order.                           *)
EXTENDS Rebalance

(* The assignments in order: cut[g] is the first shard of g or a later group.*)
Sorted ==
    {[s \in Shard |-> Cardinality({g \in GID : cut[g] <= s})] :
        cut \in {c \in [GID -> 0..NShards] : \A g, h \in GID : g <= h => c[g] <= c[h]}}

MCInit ==
    /\ conf \in [num : {1}, shards : Sorted, groups : SUBSET GID]
    /\ ct = ShardsByGroup(conf)

MCSpec == MCInit /\ [][Next]_vars /\ WF_vars(Turn)
=============================================================================
