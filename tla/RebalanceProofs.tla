-------------------------- MODULE RebalanceProofs --------------------------
(* Theorems of module Rebalance: what the loop of rebalance keeps, turn by   *)
(* turn, for any assignment and any groups.                                  *)
EXTENDS Rebalance, ShardingLemmas

(* Every shard is once in the lists, and lists of groups that are not in the *)
(* configuration are as they were.                                           *)
ListsKept ==
    /\ conf \in Config
    /\ EachOnce(ct)
    /\ \A g \in GID \ conf.groups : ct[g] = ShardsByGroup(conf)[g]

LEMMA ListsKeptInit == Init => ListsKept
  <1> SUFFICES ASSUME Init PROVE ListsKept
    OBVIOUS
  <1>1. conf \in Config
    BY DEF Init, Config
  <1>2. conf.shards \in [Shard -> Key]
    BY <1>1 DEF Config, Key
  <1>3. EachOnce(ct)
    BY <1>2, ByGroupOnce DEF Init
  <1> QED
    BY <1>1, <1>3 DEF ListsKept, Init

(* A turn is one of ShardingLemmas.                                          *)
LEMMA TurnTurned ==
    ASSUME ListsKept, Turn
    PROVE  /\ conf' = conf /\ conf.groups \in SUBSET GID /\ EachOnce(ct) /\ EachOnce(ct')
           /\ \E a, b, c : Turned(ct, ct', conf.groups, a, b, c)
  <1>1. EachOnce(ct) /\ conf.groups \in SUBSET GID /\ Uneven(ct, conf.groups) /\ ct' = MoveShards(ct, conf.groups) /\ conf' = conf
    BY DEF ListsKept, Turn, Config
  <1>2. PICK a, b, c : Turned(ct, ct', conf.groups, a, b, c)
    BY <1>1, TurnIs
  <1>3. EachOnce(ct')
    BY <1>1, <1>2, TurnKeeps
  <1> QED
    BY <1>1, <1>2, <1>3

LEMMA ListsKeptStep == ListsKept /\ [Next]_vars => ListsKept'
  <1> SUFFICES ASSUME ListsKept, [Next]_vars PROVE ListsKept'
    OBVIOUS
  <1>1. CASE Turn
    <2>1. conf' = conf /\ EachOnce(ct')
      BY <1>1, TurnTurned
    <2>2. PICK a, b, c : Turned(ct, ct', conf.groups, a, b, c)
      BY <1>1, TurnTurned
    <2>3. ASSUME NEW g \in GID \ conf.groups PROVE ct'[g] = ShardsByGroup(conf)[g]
      <3>1. g \in Key /\ g # 0
        BY ShardingAssumption DEF Key
      <3>2. g # a /\ g # b
        BY <2>2, <3>1, Zenon DEF Turned
      <3>3. ct'[g] = ct[g]
        BY <2>2, <3>1, <3>2 DEF Turned
      <3> QED
        BY <3>3 DEF ListsKept
    <2> QED
      BY <2>1, <2>3 DEF ListsKept
  <1>2. CASE UNCHANGED vars
    BY <1>2 DEF ListsKept, vars
  <1> QED
    BY <1>1, <1>2 DEF Next

(* A list that holds every shard once has one place for each.                *)
LEMMA OnePlace ==
    ASSUME NEW t, EachOnce(t), NEW s \in Shard
    PROVE  Cardinality({p \in (DOMAIN t) \X (1..NShards) : p[2] <= Len(t[p[1]]) /\ t[p[1]][p[2]] = s}) = 1
  <1> DEFINE S == {p \in (DOMAIN t) \X (1..NShards) : p[2] <= Len(t[p[1]]) /\ t[p[1]][p[2]] = s}
  <1>1. DOMAIN t = Key
    BY DEF EachOnce, Lists
  <1>2. PICK g \in Key : \E k \in 1..Len(t[g]) : t[g][k] = s
    BY DEF EachOnce
  <1>3. PICK k \in 1..Len(t[g]) : t[g][k] = s
    BY <1>2
  <1>4. NShards \in Nat /\ Len(t[g]) \in 0..NShards
    BY ListBounded, ShardingAssumption
  <1>5. <<g, k>> \in S
    BY <1>1, <1>3, <1>4
  <1>6. ASSUME NEW p \in S PROVE p = <<g, k>>
    <2>1. PICK h \in Key, l \in 1..NShards : p = <<h, l>> /\ l <= Len(t[h]) /\ t[h][l] = s
      BY <1>1
    <2>2. Len(t[h]) \in Nat
      BY ListBounded
    <2>3. l \in 1..Len(t[h])
      BY <1>4, <2>1, <2>2
    <2>4. g = h /\ k = l
      BY <1>3, <2>1, <2>3 DEF EachOnce
    <2> QED
      BY <2>1, <2>4
  <1>7. S = {<<g, k>>}
    BY <1>5, <1>6
  <1> QED
    BY <1>7, FS_Singleton

(* rebalance loses no shard and doubles none, whatever the lists it cuts.    *)
THEOREM ListsPartition == Spec => []Partition
  <1>1. Init => ListsKept
    BY ListsKeptInit
  <1>2. ListsKept /\ [Next]_vars => ListsKept'
    BY ListsKeptStep
  <1>3. ListsKept => Partition
    BY OnePlace DEF ListsKept, Partition
  <1> QED
    BY <1>1, <1>2, <1>3, PTL DEF Spec

(* When the loop has ended the assignment is what the code's test demands,   *)
(* the safety half of EndsEven.                                              *)
EndedEven == ~ Uneven(ct, conf.groups) => Even([conf EXCEPT !.shards = ShardsOf(ct)])

(* maxmin finds nothing to do only when the groups are even and no shard is  *)
(* unassigned.                                                               *)
THEOREM EndsInEvenness == Spec => []EndedEven
  <1>1. Init => ListsKept
    BY ListsKeptInit
  <1>2. ListsKept /\ [Next]_vars => ListsKept'
    BY ListsKeptStep
  <1>3. ListsKept => EndedEven
    <2> SUFFICES ASSUME ListsKept, ~ Uneven(ct, conf.groups), conf.groups # {}
                 PROVE  Even([conf EXCEPT !.shards = ShardsOf(ct)])
      BY DEF EndedEven, Even, ListsKept, Config
    <2>1. EachOnce(ct) /\ conf.groups \in SUBSET GID /\ conf \in Config
      BY DEF ListsKept, Config
    <2>2. Len(ct[0]) = 0 /\ \A g, h \in conf.groups : Len(ct[g]) <= Len(ct[h]) + 1
      BY <2>1, EndsEvenly
    <2>3. PICK r : r = [conf EXCEPT !.shards = ShardsOf(ct)]
      OBVIOUS
    <2>4. r.shards = ShardsOf(ct) /\ r.groups = conf.groups
      BY <2>1, <2>3 DEF Config
    <2>5. \A g \in Key : Count(r, g) = Len(ct[g])
      BY <2>1, <2>4, OwnedCount DEF Count
    <2>6. 0 \in Key /\ conf.groups \subseteq Key
      BY <2>1 DEF Key
    <2>7. Even(r)
      BY <2>2, <2>4, <2>5, <2>6 DEF Even
    <2> QED
      BY <2>3, <2>7
  <1> QED
    BY <1>1, <1>2, <1>3, PTL DEF Spec

(* Every turn but the first, which hands out the shards without a group,     *)
(* separates more pairs of shards than it joins: the loop cannot go on for   *)
(* ever, whatever the groups (the liveness half of EndsEven rests on it).    *)
TurnsSeparate ==
    [][/\ Len(ct'[0]) = 0
       /\ Len(ct[0]) = 0 => Cardinality(Together(ct')) < Cardinality(Together(ct))]_vars

(* The loop of rebalance makes progress in every turn.                       *)
THEOREM EveryTurnSeparates == Spec => TurnsSeparate
  <1>1. Init => ListsKept
    BY ListsKeptInit
  <1>2. ListsKept /\ [Next]_vars => ListsKept'
    BY ListsKeptStep
  <1> DEFINE A == /\ Len(ct'[0]) = 0
                  /\ Len(ct[0]) = 0 => Cardinality(Together(ct')) < Cardinality(Together(ct))
  <1>3. ListsKept /\ [Next]_vars => [A]_vars
    <2> SUFFICES ASSUME ListsKept, Turn PROVE A
      BY DEF Next
    <2>1. EachOnce(ct) /\ EachOnce(ct') /\ conf.groups \in SUBSET GID
      BY TurnTurned
    <2>2. PICK a, b, c : Turned(ct, ct', conf.groups, a, b, c)
      BY TurnTurned
    <2>3. Places(ct, ct', a, b, c)
      BY <2>1, <2>2, TurnPlaces
    <2>4. 0 \in Key /\ b # 0
      BY <2>2, <2>1, ShardingAssumption DEF Key, Turned
    <2>5. CASE a = 0
      <3>1. Len(ct'[0]) = Len(ct[0]) - c /\ c \in Nat /\ c > 0 /\ c <= Len(ct[0]) /\ Len(ct[0]) \in Nat
        BY <2>3, <2>5 DEF Places
      <3>2. c = Len(ct[0]) \/ Len(ct[0]) = 0
        BY <2>2, Zenon DEF Turned
      <3> QED
        BY <3>1, <3>2
    <2>6. CASE a # 0
      <3>1. Cardinality(Together(ct')) < Cardinality(Together(ct))
        BY <2>1, <2>2, <2>6, TurnSeparates
      <3>2. Len(ct[0]) = 0
        BY <2>2, <2>6 DEF Turned
      <3>3. ct'[0] = ct[0]
        BY <2>3, <2>4, <2>6 DEF Places
      <3> QED
        BY <3>1, <3>2, <3>3
    <2> QED
      BY <2>5, <2>6
  <1> HIDE DEF A
  <1>4. Spec => [][A]_vars
    BY <1>1, <1>2, <1>3, PTL DEF Spec
  <1> QED
    BY <1>4 DEF TurnsSeparate, A

-----------------------------------------------------------------------------
(* After a Join.                                                             *)

(* How many shards the groups have, l, while ten shards spread from the      *)
(* groups that had them, old, over all groups, gs: one group has all; two    *)
(* have five each; five, three and two; four and threes; few.                *)
AllOnOne(l, gs, old) ==
    \E x \in gs : l[x] = 10 /\ old = {x} /\ \A g \in gs : g # x => l[g] = 0

OnTwo(l, gs, old) ==
    \E x, y \in gs :
        /\ x # y /\ l[x] = 5 /\ l[y] = 5 /\ old \subseteq {x, y}
        /\ \A g \in gs : g # x /\ g # y => l[g] = 0

OnThree(l, gs, old) ==
    \E x, y, z \in gs :
        /\ x # y /\ x # z /\ y # z /\ l[x] = 5 /\ l[y] = 3 /\ l[z] = 2 /\ old \subseteq {x, y}
        /\ \A g \in gs : g # x /\ g # y /\ g # z => l[g] = 0

OneFour(l, gs, old) ==
    \E x \in gs :
        /\ l[x] = 4 /\ \A g \in gs : g # x => l[g] <= 3
        /\ \A g \in old : l[g] >= 3
        /\ \A g \in gs : g \notin old => l[g] = 0

Few(l, gs, old) ==
    /\ \A g \in gs : l[g] <= 3
    /\ \A h \in old : l[h] >= 1
    /\ \A g \in gs, h \in old : l[g] = 3 => l[h] >= 2

Level(l, gs) == \A g, h \in gs : l[g] <= l[h] + 1

Spreads(l, gs, old) ==
    AllOnOne(l, gs, old) \/ OnTwo(l, gs, old) \/ OnThree(l, gs, old) \/ OneFour(l, gs, old)
    \/ Few(l, gs, old) \/ Level(l, gs)

(* c shards go from a, which has the most, to b, which has the fewest.       *)
Passes(l, m, gs, a, b, c) ==
    /\ a \in gs /\ b \in gs /\ a # b /\ c \in Nat /\ c >= 1
    /\ \A g \in gs : l[b] <= l[g] /\ l[g] <= l[a]
    /\ 2 * c <= l[a] - l[b] /\ l[a] - l[b] <= 2 * c + 1
    /\ m = [l EXCEPT ![a] = l[a] - c, ![b] = l[b] + c]

LEMMA PassesOn ==
    ASSUME NEW gs, NEW old \in SUBSET gs, NEW l \in [gs -> Nat], NEW m, NEW a, NEW b, NEW c,
           Passes(l, m, gs, a, b, c), Spreads(l, gs, old)
    PROVE  b \notin old /\ Spreads(m, gs, old)
  <1>0. /\ a \in gs /\ b \in gs /\ a # b /\ c \in Nat /\ c >= 1
        /\ \A g \in gs : l[g] \in Nat /\ l[b] <= l[g] /\ l[g] <= l[a]
        /\ 2 * c <= l[a] - l[b] /\ l[a] - l[b] <= 2 * c + 1
        /\ m[a] = l[a] - c /\ m[b] = l[b] + c /\ \A g \in gs : g # a /\ g # b => m[g] = l[g]
    BY DEF Passes
  <1>1. CASE AllOnOne(l, gs, old)
    <2>1. PICK x \in gs : l[x] = 10 /\ old = {x} /\ \A g \in gs : g # x => l[g] = 0
      BY <1>1 DEF AllOnOne
    <2>2. a = x /\ b # x /\ l[b] = 0 /\ l[a] = 10
      BY <2>1, <1>0
    <2>3. c = 5
      BY <2>2, <1>0
    <2>4. m[a] = 5 /\ m[b] = 5 /\ \A g \in gs : g # a /\ g # b => m[g] = 0
      BY <2>1, <2>2, <2>3, <1>0
    <2>5. OnTwo(m, gs, old)
      BY <2>1, <2>2, <2>4, <1>0 DEF OnTwo
    <2> QED
      BY <2>1, <2>2, <2>5 DEF Spreads
  <1>2. CASE OnTwo(l, gs, old)
    <2>1. PICK x \in gs, y \in gs : /\ x # y /\ l[x] = 5 /\ l[y] = 5 /\ old \subseteq {x, y}
                                    /\ \A g \in gs : g # x /\ g # y => l[g] = 0
      BY <1>2 DEF OnTwo
    <2>2. (a = x \/ a = y) /\ b # x /\ b # y /\ l[b] = 0 /\ l[a] = 5
      BY <2>1, <1>0
    <2>3. c = 2
      BY <2>2, <1>0
    <2>4. m[a] = 3 /\ m[b] = 2
      BY <2>2, <2>3, <1>0
    <2>5. PICK w \in gs : w # a /\ (w = x \/ w = y) /\ {x, y} = {w, a}
      BY <2>1, <2>2
    <2>6. m[w] = 5 /\ w # b /\ old \subseteq {w, a} /\ \A g \in gs : g # w /\ g # a /\ g # b => m[g] = 0
      BY <2>1, <2>2, <2>5, <1>0
    <2>7. OnThree(m, gs, old)
      BY <2>4, <2>5, <2>6, <1>0 DEF OnThree
    <2> QED
      BY <2>1, <2>2, <2>7 DEF Spreads
  <1>3. CASE OnThree(l, gs, old)
    <2>1. PICK x \in gs, y \in gs, z \in gs :
              /\ x # y /\ x # z /\ y # z /\ l[x] = 5 /\ l[y] = 3 /\ l[z] = 2 /\ old \subseteq {x, y}
              /\ \A g \in gs : g # x /\ g # y /\ g # z => l[g] = 0
      BY <1>3 DEF OnThree
    <2>2. a = x /\ l[a] = 5 /\ b # x /\ b # y
      BY <2>1, <1>0
    <2>3. CASE b = z
      <3>1. c = 1 /\ \A g \in gs : g = x \/ g = y \/ g = z
        BY <2>1, <2>2, <2>3, <1>0
      <3>2. m[x] = 4 /\ m[y] = 3 /\ m[z] = 3
        BY <2>1, <2>2, <2>3, <3>1, <1>0
      <3>3. Level(m, gs)
        BY <3>1, <3>2 DEF Level
      <3> QED
        BY <2>1, <2>2, <3>3 DEF Spreads
    <2>4. CASE b # z
      <3>1. l[b] = 0 /\ c = 2
        BY <2>1, <2>2, <2>4, <1>0
      <3>2. m[x] = 3 /\ m[b] = 2 /\ m[y] = 3 /\ m[z] = 2 /\ \A g \in gs : g # x /\ g # y /\ g # z /\ g # b => m[g] = 0
        BY <2>1, <2>2, <2>4, <3>1, <1>0
      <3>3. Few(m, gs, old)
        BY <2>1, <3>2 DEF Few
      <3> QED
        BY <2>1, <2>2, <3>3 DEF Spreads
    <2> QED
      BY <2>3, <2>4
  <1>4. CASE OneFour(l, gs, old)
    <2>1. PICK x \in gs : /\ l[x] = 4 /\ \A g \in gs : g # x => l[g] <= 3
                          /\ \A g \in old : l[g] >= 3
                          /\ \A g \in gs : g \notin old => l[g] = 0
      BY <1>4 DEF OneFour
    <2>2. a = x /\ l[b] <= 2
      BY <2>1, <1>0
    <2>3. b \notin old /\ l[b] = 0 /\ c = 2
      BY <2>1, <2>2, <1>0
    <2>4. m[a] = 2 /\ m[b] = 2 /\ \A g \in gs : g # a /\ g # b => m[g] <= 3 /\ (g \in old => m[g] >= 3)
      BY <2>1, <2>2, <2>3, <1>0
    <2>5. Few(m, gs, old)
      BY <2>3, <2>4, <1>0 DEF Few
    <2> QED
      BY <2>3, <2>5 DEF Spreads
  <1>5. CASE Few(l, gs, old)
    <2>1. /\ \A g \in gs : l[g] <= 3
          /\ \A h \in old : l[h] >= 1
          /\ \A g \in gs, h \in old : l[g] = 3 => l[h] >= 2
      BY <1>5 DEF Few
    <2>2. (l[a] = 3 /\ l[b] <= 1 /\ c = 1) \/ (l[a] = 2 /\ l[b] = 0 /\ c = 1)
      BY <2>1, <1>0
    <2>3. b \notin old
      BY <2>1, <2>2, <1>0
    <2>4. m[b] <= 2 /\ m[a] <= 2 /\ m[a] >= 1 /\ (l[a] = 3 => m[a] = 2)
      BY <2>2, <1>0
    <2>5. ASSUME NEW g \in gs, NEW h \in old, m[g] = 3 PROVE m[h] >= 2
      <3>1. g # a /\ g # b /\ l[g] = 3
        BY <2>4, <2>5, <1>0
      <3>2. l[a] = 3 /\ l[h] >= 2
        BY <2>1, <3>1, <1>0
      <3> QED
        BY <2>3, <2>4, <3>2, <1>0
    <2>6. \A g \in gs : m[g] <= 3
      BY <2>1, <2>4, <1>0
    <2>7. \A h \in old : m[h] >= 1
      BY <2>1, <2>3, <2>4, <1>0
    <2>8. Few(m, gs, old)
      BY <2>5, <2>6, <2>7 DEF Few
    <2> QED
      BY <2>3, <2>8 DEF Spreads
  <1>6. CASE Level(l, gs)
    <2>1. l[a] <= l[b] + 1
      BY <1>6, <1>0 DEF Level
    <2> QED
      BY <2>1, <1>0
  <1> QED
    BY <1>1, <1>2, <1>3, <1>4, <1>5, <1>6 DEF Spreads

LEMMA DisjointSum ==
    ASSUME NEW A, NEW B, IsFiniteSet(A), IsFiniteSet(B), A \cap B = {}
    PROVE  IsFiniteSet(A \cup B) /\ Cardinality(A \cup B) = Cardinality(A) + Cardinality(B)
  <1>1. PICK x \in Nat, y \in Nat : x = Cardinality(A) /\ y = Cardinality(B)
    BY FS_CardinalityType
  <1>2. Cardinality(A \cap B) = 0
    BY FS_EmptySet
  <1>3. IsFiniteSet(A \cup B) /\ Cardinality(A \cup B) = Cardinality(A) + Cardinality(B) - Cardinality(A \cap B)
    BY FS_Union
  <1> QED
    BY <1>1, <1>2, <1>3

(* An even assignment of ten shards to the groups old, seen from all groups. *)
LEMMA StartSpreads ==
    ASSUME NShards = 10, NEW gs, NEW old \in SUBSET gs, NEW shards \in [Shard -> old], NEW l \in [gs -> Nat],
           \A g \in gs : l[g] = Cardinality({s \in Shard : shards[s] = g}),
           \A g \in gs : g \in old <=> l[g] > 0,
           \A g, h \in old : l[g] <= l[h] + 1
    PROVE  Spreads(l, gs, old)
  <1> DEFINE S(g) == {s \in Shard : shards[s] = g}
  <1>1. \A g \in gs : IsFiniteSet(S(g)) /\ l[g] = Cardinality(S(g)) /\ l[g] \in Nat
    BY ShardFinite, FS_Subset
  <1>2. \A g, h \in gs : g # h => S(g) \cap S(h) = {}
    OBVIOUS
  <1>3. \A T \in SUBSET Shard : IsFiniteSet(T) /\ Cardinality(T) <= 10 /\ (T = Shard => Cardinality(T) = 10)
    BY ShardFinite, FS_Subset
  <1>4. CASE \A g \in old : l[g] <= 3
    <2>1. \A g \in gs : l[g] <= 3 /\ (g \notin old => l[g] = 0)
      BY <1>1, <1>4
    <2>2. \A g \in gs, h \in old : l[g] = 3 => l[h] >= 2
      BY <2>1, <1>1
    <2>3. \A h \in old : l[h] >= 1
      BY <1>1
    <2>4. Few(l, gs, old)
      BY <2>1, <2>2, <2>3 DEF Few
    <2> QED
      BY <2>4 DEF Spreads
  <1>5. CASE \E g \in old : ~ (l[g] <= 3)
    <2>1. PICK x \in old : l[x] >= 4
      BY <1>1, <1>5
    <2>2. \A g \in old : l[g] >= 3
      BY <1>1, <2>1
    <2>3. \A g \in gs : g \notin old => l[g] = 0
      BY <1>1
    <2>4. CASE \A g \in old : g = x
      <3>1. S(x) = Shard /\ old = {x}
        BY <2>4
      <3>2. l[x] = 10
        BY <3>1, <1>1, <1>3
      <3>3. AllOnOne(l, gs, old)
        BY <2>3, <3>1, <3>2 DEF AllOnOne
      <3> QED
        BY <3>3 DEF Spreads
    <2>5. CASE \E g \in old : g # x
      <3>1. PICK y \in old : y # x
        BY <2>5
      <3>2. PICK U : U = S(x) \cup S(y)
        OBVIOUS
      <3>3. IsFiniteSet(U) /\ Cardinality(U) = l[x] + l[y]
        <4>1. PICK A, B : A = S(x) /\ B = S(y)
          OBVIOUS
        <4>2. IsFiniteSet(A) /\ IsFiniteSet(B) /\ A \cap B = {} /\ l[x] = Cardinality(A) /\ l[y] = Cardinality(B)
          BY <4>1, <3>1, <1>1, <1>2
        <4>3. IsFiniteSet(A \cup B) /\ Cardinality(A \cup B) = l[x] + l[y]
          BY <4>2, DisjointSum
        <4> QED
          BY <4>1, <4>3, <3>2
      <3>4. CASE \A g \in old : g = x \/ g = y
        <4>1. U = Shard
          BY <3>2, <3>4
        <4>2. l[x] + l[y] = 10
          BY <3>3, <4>1, <1>3
        <4>3. l[x] = 5 /\ l[y] = 5
          BY <4>2, <3>1, <1>1
        <4>4. OnTwo(l, gs, old)
          BY <4>3, <3>1, <3>4, <2>3 DEF OnTwo
        <4> QED
          BY <4>4 DEF Spreads
      <3>5. CASE \E g \in old : g # x /\ g # y
        <4>1. PICK z \in old : z # x /\ z # y
          BY <3>5
        <4>2. PICK V : V = U \cup S(z)
          OBVIOUS
        <4>3. U \cap S(z) = {}
          BY <4>1, <3>2
        <4>4. IsFiniteSet(V) /\ Cardinality(V) = (l[x] + l[y]) + l[z]
          <5>1. PICK B : B = S(z)
            OBVIOUS
          <5>2. IsFiniteSet(B) /\ U \cap B = {} /\ l[z] = Cardinality(B)
            BY <5>1, <4>1, <4>3, <1>1
          <5>3. IsFiniteSet(U \cup B) /\ Cardinality(U \cup B) = (l[x] + l[y]) + l[z]
            BY <5>2, <3>3, DisjointSum
          <5> QED
            BY <5>1, <5>3, <4>2
        <4>5. \A g \in old : g = x \/ g = y \/ g = z
          <5>1. SUFFICES ASSUME NEW w \in old, w # x, w # y, w # z PROVE FALSE
            OBVIOUS
          <5>2. PICK W : W = V \cup S(w)
            OBVIOUS
          <5>3. V \cap S(w) = {} /\ W \in SUBSET Shard
            BY <5>1, <5>2, <4>2, <3>2
          <5>4. Cardinality(W) = ((l[x] + l[y]) + l[z]) + l[w]
            <6>1. PICK B : B = S(w)
              OBVIOUS
            <6>2. IsFiniteSet(B) /\ V \cap B = {} /\ l[w] = Cardinality(B)
              BY <6>1, <5>1, <5>3, <1>1
            <6>3. Cardinality(V \cup B) = ((l[x] + l[y]) + l[z]) + l[w]
              BY <6>2, <4>4, DisjointSum
            <6> QED
              BY <6>1, <6>3, <5>2
          <5>5. Cardinality(W) <= 10
            BY <5>3, <1>3
          <5> QED
            BY <5>4, <5>5, <2>1, <2>2, <1>1
        <4>6. V = Shard
          BY <4>2, <4>5, <3>2
        <4>7. (l[x] + l[y]) + l[z] = 10
          BY <4>4, <4>6, <1>3
        <4>8. l[x] = 4 /\ l[y] = 3 /\ l[z] = 3
          BY <4>7, <2>1, <2>2, <1>1
        <4>9. \A g \in gs : g # x => l[g] <= 3
          BY <4>5, <4>8, <2>3
        <4>10. OneFour(l, gs, old)
          BY <4>8, <4>9, <2>2, <2>3 DEF OneFour
        <4> QED
          BY <4>10 DEF Spreads
      <3> QED
        BY <3>4, <3>5
    <2> QED
      BY <2>4, <2>5
  <1> QED
    BY <1>4, <1>5

(* The groups that had shards, and the Joins JoinMinimal is about.           *)
Old == {g \in conf.groups : Count(conf, g) > 0}

AfterJoin == Even([conf EXCEPT !.groups = Old]) /\ \A s \in Shard : conf.shards[s] \in Old

Lengths(t) == [g \in conf.groups |-> Len(t[g])]

(* No shard has gone to an old group, and the shards are on their way from   *)
(* the old groups to all groups.                                             *)
JoinSpreads ==
    AfterJoin =>
        /\ \A s \in Shard : Now[s] \in Old => Now[s] = conf.shards[s]
        /\ Len(ct[0]) = 0
        /\ Spreads(Lengths(ct), conf.groups, Old)

LEMMA JoinSpreadsInit ==
    ASSUME NShards = 10, Init
    PROVE  JoinSpreads
  <1> SUFFICES ASSUME AfterJoin
               PROVE  /\ \A s \in Shard : Now[s] \in Old => Now[s] = conf.shards[s]
                      /\ Len(ct[0]) = 0
                      /\ Spreads(Lengths(ct), conf.groups, Old)
    BY DEF JoinSpreads
  <1>1. conf \in Config /\ ct = ShardsByGroup(conf)
    BY DEF Init, Config
  <1>2. conf.shards \in [Shard -> Key] /\ conf.groups \in SUBSET GID /\ 0 \in Key /\ conf.groups \subseteq Key /\ 0 \notin conf.groups
    BY <1>1, ShardingAssumption DEF Config, Key
  <1>3. EachOnce(ct) /\ ShardsOf(ct) = conf.shards
    BY <1>1, <1>2, ByGroupOnce, OwnersByGroup
  <1>4. \A g \in Key : Count(conf, g) = Len(ct[g]) /\ Len(ct[g]) \in Nat
    <2>1. \A g \in Key : Len(ct[g]) \in Nat
      BY <1>3, ListTyped DEF EachOnce
    <2> QED
      BY <1>3, <2>1, OwnedCount DEF Count
  <1>5. Len(ct[0]) = 0
    <2>1. {s \in Shard : conf.shards[s] = 0} = {}
      BY <1>2 DEF AfterJoin, Old
    <2>2. Count(conf, 0) = 0
      BY <2>1, FS_EmptySet DEF Count
    <2> QED
      BY <2>2, <1>2, <1>4
  <1>6. PICK l \in [conf.groups -> Nat] : l = Lengths(ct)
    BY <1>2, <1>4 DEF Lengths
  <1>7. \A g \in conf.groups : l[g] = Count(conf, g) /\ l[g] = Cardinality({s \in Shard : conf.shards[s] = g})
    BY <1>2, <1>4, <1>6 DEF Lengths, Count
  <1>8. Old \in SUBSET conf.groups /\ \A g \in conf.groups : g \in Old <=> l[g] > 0
    BY <1>7 DEF Old
  <1>9. conf.shards \in [Shard -> Old]
    BY <1>2 DEF AfterJoin
  <1>10. \A g, h \in Old : l[g] <= l[h] + 1
    <2>1. PICK r : r = [conf EXCEPT !.groups = Old]
      OBVIOUS
    <2>2. r.groups = Old /\ r.shards = conf.shards
      BY <1>1, <2>1 DEF Config
    <2>3. \A g, h \in Old : Count(r, g) <= Count(r, h) + 1
      BY <2>1, <2>2 DEF AfterJoin, Even
    <2>4. \A g \in Old : Count(r, g) = l[g]
      BY <2>2, <1>7, <1>8 DEF Count
    <2> QED
      BY <2>3, <2>4
  <1>11. Spreads(l, conf.groups, Old)
    BY <1>7, <1>8, <1>9, <1>10, StartSpreads
  <1> QED
    BY <1>3, <1>5, <1>6, <1>11 DEF Now

LEMMA JoinSpreadsStep == ListsKept /\ JoinSpreads /\ [Next]_vars => JoinSpreads'
  <1> SUFFICES ASSUME ListsKept, JoinSpreads, [Next]_vars PROVE JoinSpreads'
    OBVIOUS
  <1>1. CASE Turn
    <2>1. conf' = conf /\ conf.groups \in SUBSET GID /\ EachOnce(ct) /\ EachOnce(ct')
      BY <1>1, TurnTurned
    <2>2. PICK a, b, c : Turned(ct, ct', conf.groups, a, b, c)
      BY <1>1, TurnTurned
    <2>3. Old' = Old /\ AfterJoin' = AfterJoin
      BY <2>1 DEF Old, AfterJoin, Count, Even
    <2> SUFFICES ASSUME AfterJoin
                 PROVE  /\ \A s \in Shard : ShardsOf(ct')[s] \in Old => ShardsOf(ct')[s] = conf.shards[s]
                        /\ Len(ct'[0]) = 0
                        /\ Spreads([g \in conf.groups |-> Len(ct'[g])], conf.groups, Old)
      BY <2>1, <2>3 DEF JoinSpreads, Now, Lengths
    <2>4. /\ \A s \in Shard : ShardsOf(ct)[s] \in Old => ShardsOf(ct)[s] = conf.shards[s]
          /\ Len(ct[0]) = 0
          /\ Spreads(Lengths(ct), conf.groups, Old)
      BY DEF JoinSpreads, Now
    <2>5. Places(ct, ct', a, b, c)
      BY <2>1, <2>2, TurnPlaces
    <2>6. conf.groups \subseteq Key /\ 0 \in Key /\ 0 \notin conf.groups /\ \A g \in Key : Len(ct[g]) \in Nat
      BY <2>1, ListTyped, ShardingAssumption DEF Key, EachOnce
    <2>7. PICK l, m : l = Lengths(ct) /\ l \in [conf.groups -> Nat] /\ m = [g \in conf.groups |-> Len(ct'[g])]
      <3>1. Lengths(ct) \in [conf.groups -> Nat]
        BY <2>6 DEF Lengths
      <3> QED
        BY <3>1
    <2>8. /\ a \in Key /\ a # b /\ c \in Nat /\ c > 0 /\ c <= Len(ct[a])
          /\ Len(ct'[a]) = Len(ct[a]) - c /\ Len(ct'[b]) = Len(ct[b]) + c
          /\ \A g \in Key : g # a /\ g # b => ct'[g] = ct[g]
      BY <2>5 DEF Places
    <2>9. a # 0
      BY <2>4, <2>8
    <2>10. /\ a \in conf.groups /\ b \in conf.groups
           /\ \A h \in conf.groups : Len(ct[b]) <= Len(ct[h]) /\ Len(ct[h]) <= Len(ct[a])
           /\ 2 * c <= Len(ct[a]) - Len(ct[b]) /\ Len(ct[a]) - Len(ct[b]) <= 2 * c + 1
      BY <2>2, <2>9, Zenon DEF Turned
    <2>11. \A g \in conf.groups : l[g] = Len(ct[g])
      BY <2>7 DEF Lengths
    <2>12. m = [l EXCEPT ![a] = l[a] - c, ![b] = l[b] + c]
      <3>1. ASSUME NEW g \in conf.groups PROVE m[g] = [l EXCEPT ![a] = l[a] - c, ![b] = l[b] + c][g]
        BY <2>6, <2>7, <2>8, <2>10, <2>11
      <3> QED
        BY <3>1, <2>7
    <2>13. Passes(l, m, conf.groups, a, b, c)
      <3>1. c >= 1
        BY <2>8
      <3>2. /\ \A g \in conf.groups : l[b] <= l[g] /\ l[g] <= l[a]
            /\ 2 * c <= l[a] - l[b] /\ l[a] - l[b] <= 2 * c + 1
        BY <2>10, <2>11
      <3> QED
        BY <3>1, <3>2, <2>8, <2>10, <2>12 DEF Passes
    <2>14. b \notin Old /\ Spreads(m, conf.groups, Old)
      <3>1. Old \in SUBSET conf.groups /\ Spreads(l, conf.groups, Old)
        BY <2>4, <2>7 DEF Old
      <3> QED
        BY <3>1, <2>7, <2>13, PassesOn
    <2>15. \A s \in Shard : ShardsOf(ct')[s] = ShardsOf(ct)[s] \/ ShardsOf(ct')[s] = b
      BY <2>1, <2>2, TurnOwners
    <2>16. Len(ct'[0]) = 0
      BY <2>4, <2>6, <2>8, <2>9, <2>10
    <2> QED
      BY <2>4, <2>7, <2>14, <2>15, <2>16
  <1>2. CASE UNCHANGED vars
    BY <1>2 DEF JoinSpreads, AfterJoin, Old, Now, Lengths, vars
  <1> QED
    BY <1>1, <1>2 DEF Next

(* With as many shards as common.go has, a Join takes shards from the groups *)
(* there were and gives none back to them, for any groups and however many   *)
(* join at once.                                                             *)
THEOREM JoinsAreMinimal ==
    ASSUME NShards = 10
    PROVE  Spec => []JoinMinimal
  <1>1. Init => ListsKept /\ JoinSpreads
    BY ListsKeptInit, JoinSpreadsInit
  <1>2. ListsKept /\ JoinSpreads /\ [Next]_vars => ListsKept' /\ JoinSpreads'
    BY ListsKeptStep, JoinSpreadsStep
  <1>3. JoinSpreads => JoinMinimal
    BY DEF JoinSpreads, JoinMinimal, AfterJoin, Old
  <1> QED
    BY <1>1, <1>2, <1>3, PTL DEF Spec
=============================================================================
