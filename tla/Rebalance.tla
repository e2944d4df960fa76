----------------------------- MODULE Rebalance -----------------------------
(* The loop of rebalance, turn by turn, from every assignment a history of   *)
(* Join, Leave and Move can leave.                                           *)
EXTENDS Sharding

VARIABLES
    conf,   \* the configuration rebalance was called with
    ct      \* its lists

vars == <<conf, ct>>

Init ==
    /\ conf \in [num : {1}, shards : [Shard -> GID \cup {0}], groups : SUBSET GID]
    /\ ct = ShardsByGroup(conf)

Turn ==
    /\ Uneven(ct, conf.groups)
    /\ ct' = MoveShards(ct, conf.groups)
    /\ UNCHANGED conf

Next == Turn

Spec == Init /\ [][Next]_vars /\ WF_vars(Turn)
-----------------------------------------------------------------------------
(* The loop ends, and then no two groups differ by more than one shard and   *)
(* none is left unassigned ("max %v too much larger than min %v" of          *)
(* test_test.go).                                                            *)
EndsEven == <>[](Even([conf EXCEPT !.shards = ShardsOf(ct)]) /\ ~ Uneven(ct, conf.groups))

(* The lists hold every shard exactly once, however they are cut and         *)
(* appended, and a shard of a group that is not in the configuration stays.  *)
Partition ==
    /\ \A s \in Shard : Cardinality({p \in (DOMAIN ct) \X (1..NShards) :
                                       p[2] <= Len(ct[p[1]]) /\ ct[p[1]][p[2]] = s}) = 1
    /\ \A g \in GID \ conf.groups : ct[g] = ShardsByGroup(conf)[g]

(* The assignment the loop has reached.                                      *)
Now == ShardsOf(ct)

(* After a Join to an even configuration, all shards being with its groups,  *)
(* no turn gives a shard to a group that had shards before ("non-minimal     *)
(* transfer after Join()s" of test_test.go).  With NShards = 10 of common.go *)
(* that is so; with 8 shards on two groups the third group's turn leaves     *)
(* 2, 4 and 2, and the next one may choose the first of the old groups.      *)
JoinMinimal ==
    LET old == {g \in conf.groups : Count(conf, g) > 0} IN
    Even([conf EXCEPT !.groups = old]) /\ (\A s \in Shard : conf.shards[s] \in old) =>
        \A s \in Shard : Now[s] \in old => Now[s] = conf.shards[s]

(* After one group left an even configuration, its shards being unassigned,  *)
(* no turn takes a shard from a group that stays ("non-minimal transfer      *)
(* after Leave()s" of test_test.go).                                         *)
LeaveMinimal ==
    (\A g, h \in conf.groups \cup {0} : Count(conf, g) <= Count(conf, h) + 1) =>
        \A s \in Shard : conf.shards[s] \in conf.groups => Now[s] = conf.shards[s]
=============================================================================
