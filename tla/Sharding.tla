----------------------------- MODULE Sharding -----------------------------
(* The assignment of shards to replica groups: Config of                     *)
(* shard-controller/common.go and rebalance of shard-controller/server.go.   *)
EXTENDS Integers, Sequences, FiniteSets, SequencesExt

CONSTANTS
    NShards,    \* number of shards
    GID         \* group identifiers the administrator may use

ASSUME ShardingAssumption == NShards \in Nat \ {0} /\ GID \subseteq Nat \ {0}

Shard == 0..(NShards - 1)

(* Config.  Groups is the set of its keys: no step looks at server names.    *)
Config == [num : Nat, shards : [Shard -> GID \cup {0}], groups : SUBSET GID]

EmptyConfig == [num |-> 0, shards |-> [s \in Shard |-> 0], groups |-> {}]

(* A shard is appended to the list of its group.                             *)
Collect(ct, gid, s) == [ct EXCEPT ![gid] = Append(@, s)]

(* ct of rebalance: the shards of every group, of 0 and of groups gone.      *)
ShardsByGroup(conf) ==
    LET ct[k \in 0..NShards] ==
          IF k = 0 THEN [g \in GID \cup {0} |-> << >>]
          ELSE Collect(ct[k - 1], conf.shards[k - 1], k - 1)
    IN ct[NShards]

(* What rebalance has written to conf.Shards when its lists are ct.          *)
ShardsOf(ct) == [s \in Shard |-> CHOOSE g \in DOMAIN ct : \E k \in DOMAIN ct[g] : ct[g][k] = s]

(* The first group, in the order of sort.Ints, with the fewest shards.       *)
Smallest(ct, gs) == Min({g \in gs : \A h \in gs : Len(ct[g]) <= Len(ct[h])})

Largest(ct, gs) == Min({g \in gs : \A h \in gs : Len(ct[g]) >= Len(ct[h])})

(* maxmin, gap being max - min.  Unassigned shards come first: twice their   *)
(* number makes rebalance move all of them.                                  *)
maxmin(ct, gs) ==
    IF Len(ct[0]) > 0
    THEN [maxi |-> 0, mini |-> Smallest(ct, gs), gap |-> 2 * Len(ct[0])]
    ELSE [maxi |-> Largest(ct, gs), mini |-> Smallest(ct, gs),
          gap |-> Len(ct[Largest(ct, gs)]) - Len(ct[Smallest(ct, gs)])]

UnevenByOne(ct, gs) == gs # {} /\ maxmin(ct, gs).gap > 0

(* The condition of rebalance's loop.                                        *)
Uneven(ct, gs) == gs # {} /\ maxmin(ct, gs).gap > 1

MovedRoundedUp(ct, gs) ==
    LET m == maxmin(ct, gs)
        c == (m.gap + 1) \div 2
    IN [ct EXCEPT ![m.maxi] = SubSeq(@, c + 1, Len(@)),
                  ![m.mini] = @ \o SubSeq(ct[m.maxi], 1, c)]

MovedTwice(ct, gs) ==
    LET m == maxmin(ct, gs)
        c == m.gap \div 2
    IN [ct EXCEPT ![m.maxi] = SubSeq(@, c, Len(@)),
                  ![m.mini] = @ \o SubSeq(ct[m.maxi], 1, c)]

(* One turn of the loop: the first c shards of maxi go to mini.              *)
MoveShards(ct, gs) ==
    LET m == maxmin(ct, gs)
        c == m.gap \div 2
    IN [ct EXCEPT ![m.maxi] = SubSeq(@, c + 1, Len(@)),
                  ![m.mini] = @ \o SubSeq(ct[m.maxi], 1, c)]

(* The lists after at most n turns.                                          *)
Rebalanced(ct, gs, n) ==
    LET turn[k \in 0..n] ==
          IF k = 0 THEN ct
          ELSE LET t == turn[k - 1] IN IF Uneven(t, gs) THEN MoveShards(t, gs) ELSE t
    IN turn[n]

(* More turns than the loop takes: each turn but the first separates shards. *)
EnoughTurns == NShards * NShards + 1

(* rebalance of a configuration.                                             *)
rebalance(conf) ==
    [conf EXCEPT !.shards = ShardsOf(Rebalanced(ShardsByGroup(conf), conf.groups, EnoughTurns))]

-----------------------------------------------------------------------------
Count(conf, g) == Cardinality({s \in Shard : conf.shards[s] = g})

(* The check of test_test.go: as even as possible over the groups, and no    *)
(* shard without a group.                                                    *)
Even(conf) ==
    conf.groups # {} =>
        /\ \A g, h \in conf.groups : Count(conf, g) <= Count(conf, h) + 1
        /\ Count(conf, 0) = 0
=============================================================================
