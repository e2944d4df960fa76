-------------------------- MODULE ShardingLemmas --------------------------
(* What the operators of Sharding compute, for any number of shards and any  *)
(* groups: the lists of rebalance, a turn of its loop, the loop.             *)
EXTENDS Sharding, FiniteSetTheorems, SequenceTheorems, WellFoundedInduction, TLAPS

(* Keys of ct, and lists that hold shards.                                   *)
Key == GID \cup {0}

Lists == [Key -> Seq(Shard)]

(* Every shard is in the lists, at one place.                                *)
EachOnce(t) ==
    /\ t \in Lists
    /\ \A s \in Shard : \E g \in Key : \E k \in 1..Len(t[g]) : t[g][k] = s
    /\ \A g, h \in Key : \A k \in 1..Len(t[g]), l \in 1..Len(t[h]) :
         t[g][k] = t[h][l] => g = h /\ k = l

-----------------------------------------------------------------------------
(* Numbers.                                                                  *)

(* Every set of numbers has a least one.                                     *)
LEMMA LeastNat ==
    ASSUME NEW S \in SUBSET Nat, S # {}
    PROVE  \E n \in S : \A m \in S : n <= m
  <1>1. PICK x \in S : \A y \in S : <<y, x>> \notin OpToRel(<, Nat)
    BY WFMin, NatLessThanWellFounded
  <1>2. ASSUME NEW y \in S PROVE x <= y
    <2>1. <<y, x>> \in Nat \X Nat /\ <<y, x>> \notin OpToRel(<, Nat)
      BY <1>1
    <2>2. ~ (y < x)
      BY <2>1 DEF OpToRel
    <2> QED
      BY <2>2
  <1> QED
    BY <1>2

(* Induction on a set of numbers.                                            *)
LEMMA AllNat ==
    ASSUME NEW S, 0 \in S, \A n \in Nat : n \in S => n + 1 \in S
    PROVE  Nat \subseteq S
  <1> SUFFICES ASSUME Nat \ S # {} PROVE FALSE
    OBVIOUS
  <1>1. PICK n \in Nat \ S : \A m \in Nat \ S : n <= m
    BY LeastNat
  <1>2. n - 1 \in Nat /\ ~ (n <= n - 1)
    BY <1>1
  <1>3. n - 1 \in S
    BY <1>1, <1>2
  <1>4. (n - 1) + 1 \in S
    BY <1>2, <1>3
  <1> QED
    BY <1>1, <1>4

(* f is what a step repeated n times makes of a start.                       *)
Iterates(f, S, base, step, n) ==
    f \in [0..n -> S] /\ f[0] = base /\ \A k \in 1..n : f[k] = step[k][f[k - 1]]

LEMMA IterationExists ==
    ASSUME NEW S, NEW base \in S, NEW step \in [Nat -> [S -> S]], NEW n \in Nat
    PROVE  \E f : Iterates(f, S, base, step, n)
  <1> DEFINE Good(m) == \E f : Iterates(f, S, base, step, m)
             G == {m \in Nat : Good(m)}
  <1>1. 0 \in G
    <2>1. [k \in 0..0 |-> base] \in [0..0 -> S] /\ [k \in 0..0 |-> base][0] = base
      OBVIOUS
    <2>2. \A k \in 1..0 : FALSE
      OBVIOUS
    <2>3. Good(0)
      BY <2>1, <2>2 DEF Iterates
    <2> QED
      BY <2>3
  <1>2. ASSUME NEW m \in Nat, m \in G PROVE m + 1 \in G
    <2>1. PICK f \in [0..m -> S] : f[0] = base /\ \A k \in 1..m : f[k] = step[k][f[k - 1]]
      BY <1>2 DEF Iterates
    <2>2. PICK z \in S : z = step[m + 1][f[m]]
      OBVIOUS
    <2>3. PICK g : g = [k \in 0..(m + 1) |-> IF k = m + 1 THEN z ELSE f[k]]
      OBVIOUS
    <2>4. g \in [0..(m + 1) -> S] /\ g[0] = base
      BY <2>1, <2>3
    <2>5. ASSUME NEW k \in 1..(m + 1) PROVE g[k] = step[k][g[k - 1]]
      <3>1. CASE k = m + 1
        <4>1. g[k] = z /\ g[k - 1] = f[m]
          BY <2>3, <3>1
        <4> QED
          BY <4>1, <3>1, <2>2
      <3>2. CASE k # m + 1
        <4>1. k \in 1..m /\ k - 1 \in 0..m /\ k - 1 # m + 1
          BY <3>2
        <4>2. g[k] = f[k] /\ g[k - 1] = f[k - 1]
          BY <2>3, <4>1
        <4> QED
          BY <4>1, <4>2, <2>1
      <3> QED
        BY <3>1, <3>2
    <2>6. Good(m + 1)
      BY <2>4, <2>5 DEF Iterates
    <2> QED
      BY <2>6
  <1>3. n \in G
    <2> HIDE DEF G
    <2> QED
      BY <1>1, <1>2, AllNat
  <1> QED
    BY <1>3

-----------------------------------------------------------------------------
(* The lists rebalance begins with.                                          *)

LEMMA ListTyped ==
    ASSUME NEW t \in Lists, NEW g \in Key
    PROVE  /\ t[g] \in Seq(Shard) /\ Len(t[g]) \in Nat
           /\ \A k \in 1..Len(t[g]) : t[g][k] \in Shard /\ t[g][k] \in Nat
  <1>1. t[g] \in Seq(Shard) /\ \A s \in Shard : s \in Nat
    BY ShardingAssumption DEF Lists, Shard
  <1> QED
    BY <1>1

(* The first n shards are in the lists, in order, and no others.             *)
Collected(shards, t, n) ==
    /\ t \in Lists
    /\ \A g \in Key : \A k \in 1..Len(t[g]) : t[g][k] < n /\ shards[t[g][k]] = g
    /\ \A g \in Key : \A k, l \in 1..Len(t[g]) : k < l => t[g][k] < t[g][l]
    /\ \A s \in 0..(n - 1) : \E k \in 1..Len(t[shards[s]]) : t[shards[s]][k] = s

(* The next shard goes to the end of its group's list.                       *)
LEMMA CollectNext ==
    ASSUME NEW shards \in [Shard -> Key], NEW n \in Shard, NEW t, Collected(shards, t, n),
           NEW u, u = Collect(t, shards[n], n)
    PROVE  Collected(shards, u, n + 1)
  <1>1. NShards \in Nat /\ n \in Nat /\ t \in Lists /\ Shard \subseteq Nat
    BY ShardingAssumption DEF Collected, Shard
  <1>2. PICK a \in Key : a = shards[n]
    OBVIOUS
  <1>3. t[a] \in Seq(Shard) /\ u[a] = Append(t[a], n) /\ \A g \in Key : g # a => u[g] = t[g]
    BY <1>1, <1>2 DEF Lists, Collect
  <1>4. /\ u[a] \in Seq(Shard) /\ Len(u[a]) = Len(t[a]) + 1 /\ Len(t[a]) \in Nat
        /\ u[a][Len(t[a]) + 1] = n /\ \A k \in 1..Len(t[a]) : u[a][k] = t[a][k]
    BY <1>3
  <1>5. u \in Lists
    BY <1>1, <1>2, <1>3, <1>4 DEF Lists, Collect
  <1>6. ASSUME NEW g \in Key, NEW k \in 1..Len(u[g]) PROVE u[g][k] < n + 1 /\ shards[u[g][k]] = g
    <2>1. CASE g = a /\ k = Len(t[a]) + 1
      BY <2>1, <1>1, <1>2, <1>4
    <2>2. CASE ~ (g = a /\ k = Len(t[a]) + 1)
      <3>1. k \in 1..Len(t[g]) /\ u[g][k] = t[g][k]
        BY <2>2, <1>3, <1>4
      <3>2. t[g][k] < n /\ shards[t[g][k]] = g /\ t[g][k] \in Nat
        BY <3>1, <1>1, ListTyped DEF Collected
      <3> QED
        BY <3>1, <3>2, <1>1
    <2> QED
      BY <2>1, <2>2
  <1>7. ASSUME NEW g \in Key, NEW k \in 1..Len(u[g]), NEW l \in 1..Len(u[g]), k < l PROVE u[g][k] < u[g][l]
    <2>1. CASE g = a /\ l = Len(t[a]) + 1
      <3>1. k \in 1..Len(t[a])
        BY <2>1, <1>4, <1>7
      <3> QED
        BY <3>1, <2>1, <1>4 DEF Collected
    <2>2. CASE g = a /\ l # Len(t[a]) + 1
      <3>1. k \in 1..Len(t[a]) /\ l \in 1..Len(t[a])
        BY <2>2, <1>4, <1>7
      <3> QED
        BY <3>1, <2>2, <1>4, <1>7 DEF Collected
    <2>3. CASE g # a
      <3>1. u[g] = t[g]
        BY <2>3, <1>3
      <3> QED
        BY <3>1, <1>7 DEF Collected
    <2> QED
      BY <2>1, <2>2, <2>3
  <1>8. ASSUME NEW s \in 0..n PROVE \E k \in 1..Len(u[shards[s]]) : u[shards[s]][k] = s
    <2>1. CASE s = n
      BY <2>1, <1>2, <1>4
    <2>2. CASE s # n
      <3>1. s \in 0..(n - 1) /\ s \in Shard
        BY <2>2, <1>1, ShardingAssumption DEF Shard
      <3>2. PICK k \in 1..Len(t[shards[s]]) : t[shards[s]][k] = s
        BY <3>1 DEF Collected
      <3>3. k \in 1..Len(u[shards[s]]) /\ u[shards[s]][k] = s
        <4>1. CASE shards[s] = a
          BY <4>1, <3>2, <1>4
        <4>2. CASE shards[s] # a
          BY <4>2, <3>1, <3>2, <1>3
        <4> QED
          BY <4>1, <4>2
      <3> QED
        BY <3>3
    <2> QED
      BY <2>1, <2>2
  <1>9. (n + 1) - 1 = n
    BY <1>1
  <1> QED
    BY <1>5, <1>6, <1>7, <1>8, <1>9 DEF Collected

(* f[k] is ct after k shards of conf.Shards.                                 *)
CollectedBy(conf, f) ==
    f = [k \in 0..NShards |-> IF k = 0 THEN [g \in GID \cup {0} |-> << >>]
                              ELSE Collect(f[k - 1], conf.shards[k - 1], k - 1)]

LEMMA ByGroupChosen ==
    ASSUME NEW conf, NEW f, CollectedBy(conf, f)
    PROVE  \E h : ShardsByGroup(conf) = h[NShards] /\ CollectedBy(conf, h)
  BY Zenon DEF ShardsByGroup, CollectedBy

LEMMA ByGroupUnfolds ==
    ASSUME NEW conf, conf.shards \in [Shard -> Key]
    PROVE  \E f : ShardsByGroup(conf) = f[NShards] /\ CollectedBy(conf, f)
  <1>0. NShards \in Nat /\ Shard = 0..(NShards - 1)
    BY ShardingAssumption DEF Shard
  <1>1. [g \in GID \cup {0} |-> << >>] \in Lists
    BY DEF Lists, Key
  <1>2. ASSUME NEW k \in 1..NShards, NEW t \in Lists PROVE Collect(t, conf.shards[k - 1], k - 1) \in Lists
    <2>1. k - 1 \in Shard /\ conf.shards[k - 1] \in Key
      BY <1>0
    <2>2. Append(t[conf.shards[k - 1]], k - 1) \in Seq(Shard)
      BY <2>1 DEF Lists
    <2> QED
      BY <2>1, <2>2 DEF Lists, Collect
  <1>3. PICK step \in [Nat -> [Lists -> Lists]] :
          step = [k \in Nat |-> [t \in Lists |->
                    IF k \in 1..NShards THEN Collect(t, conf.shards[k - 1], k - 1) ELSE t]]
    BY <1>2
  <1>4. PICK f : Iterates(f, Lists, [g \in GID \cup {0} |-> << >>], step, NShards)
    BY <1>0, <1>1, IterationExists
  <1>5. ASSUME NEW k \in 1..NShards PROVE f[k] = Collect(f[k - 1], conf.shards[k - 1], k - 1)
    <2>1. k - 1 \in 0..NShards /\ f[k - 1] \in Lists /\ k \in Nat
      BY <1>0, <1>4 DEF Iterates
    <2>2. step[k][f[k - 1]] = Collect(f[k - 1], conf.shards[k - 1], k - 1)
      BY <2>1, <1>3
    <2> QED
      BY <2>2, <1>4 DEF Iterates
  <1>6. CollectedBy(conf, f)
    <2>1. \A k \in 0..NShards : k = 0 \/ k \in 1..NShards
      BY <1>0
    <2> QED
      BY <2>1, <1>4, <1>5 DEF CollectedBy, Iterates
  <1> QED
    BY <1>6, ByGroupChosen

(* They hold each shard once, in the list of its group.                      *)
LEMMA ByGroup ==
    ASSUME NEW conf, conf.shards \in [Shard -> Key]
    PROVE  Collected(conf.shards, ShardsByGroup(conf), NShards)
  <1>0. NShards \in Nat /\ Shard = 0..(NShards - 1)
    BY ShardingAssumption DEF Shard
  <1>1. PICK f : ShardsByGroup(conf) = f[NShards] /\ CollectedBy(conf, f)
    BY ByGroupUnfolds
  <1> DEFINE G == {n \in Nat : n <= NShards => Collected(conf.shards, f[n], n)}
  <1>2. 0 \in G
    <2>1. f[0] = [g \in Key |-> << >>]
      BY <1>0, <1>1 DEF Key, CollectedBy
    <2>2. Collected(conf.shards, f[0], 0)
      BY <2>1 DEF Collected, Lists
    <2> QED
      BY <2>2
  <1>3. ASSUME NEW n \in Nat, n \in G PROVE n + 1 \in G
    <2> SUFFICES ASSUME n + 1 <= NShards PROVE Collected(conf.shards, f[n + 1], n + 1)
      OBVIOUS
    <2>1. n \in Shard /\ n <= NShards /\ n + 1 \in 0..NShards /\ n + 1 # 0 /\ (n + 1) - 1 = n
      BY <1>0
    <2>2. f[n + 1] = Collect(f[n], conf.shards[n], n)
      BY <2>1, <1>1 DEF CollectedBy
    <2> QED
      BY <2>1, <2>2, <1>3, CollectNext
  <1>4. NShards \in G
    <2> HIDE DEF G
    <2> QED
      BY <1>0, <1>2, <1>3, AllNat
  <1> QED
    BY <1>0, <1>1, <1>4

LEMMA ByGroupOnce ==
    ASSUME NEW conf, conf.shards \in [Shard -> Key]
    PROVE  /\ EachOnce(ShardsByGroup(conf))
           /\ \A g \in Key : \A k \in 1..Len(ShardsByGroup(conf)[g]) : conf.shards[ShardsByGroup(conf)[g][k]] = g
  <1>0. NShards \in Nat /\ Shard = 0..(NShards - 1)
    BY ShardingAssumption DEF Shard
  <1>1. PICK t : t = ShardsByGroup(conf)
    OBVIOUS
  <1>2. Collected(conf.shards, t, NShards)
    BY <1>1, ByGroup
  <1>3. \A s \in Shard : \E g \in Key : \E k \in 1..Len(t[g]) : t[g][k] = s
    BY <1>0, <1>2 DEF Collected
  <1>4. ASSUME NEW g \in Key, NEW h \in Key, NEW k \in 1..Len(t[g]), NEW l \in 1..Len(t[h]), t[g][k] = t[h][l]
        PROVE  g = h /\ k = l
    <2>1. g = h
      BY <1>2, <1>4 DEF Collected
    <2>2. k \in Nat /\ l \in Nat /\ t[g][k] \in Nat /\ t[g][l] \in Nat
      BY <2>1, <1>2, ListTyped DEF Collected
    <2>3. (k < l => t[g][k] < t[g][l]) /\ (l < k => t[g][l] < t[g][k])
      BY <2>1, <1>2 DEF Collected
    <2> QED
      BY <2>1, <2>2, <2>3, <1>4
  <1> QED
    BY <1>1, <1>2, <1>3, <1>4 DEF EachOnce, Collected

-----------------------------------------------------------------------------
(* A turn of the loop.                                                       *)

(* The first c shards of a go to b, which has the fewest shards of gs: all   *)
(* shards without a group, or half of what a has more than b.                *)
Turned(t, u, gs, a, b, c) ==
    /\ a \in Key /\ b \in gs /\ a # b /\ c \in 1..Len(t[a])
    /\ \A h \in gs : Len(t[b]) <= Len(t[h])
    /\ \/ a = 0 /\ c = Len(t[0])
       \/ /\ Len(t[0]) = 0 /\ a \in gs
          /\ \A h \in gs : Len(t[h]) <= Len(t[a])
          /\ 2 * c <= Len(t[a]) - Len(t[b]) /\ Len(t[a]) - Len(t[b]) <= 2 * c + 1
    /\ u \in Lists
    /\ u[a] = SubSeq(t[a], c + 1, Len(t[a]))
    /\ u[b] = t[b] \o SubSeq(t[a], 1, c)
    /\ \A g \in Key : g # a /\ g # b => u[g] = t[g]

LEMMA Halves ==
    ASSUME NEW n \in Nat
    PROVE  n \div 2 \in Nat /\ 2 * (n \div 2) <= n /\ n <= 2 * (n \div 2) + 1
  OBVIOUS

LEMMA ShardFinite == IsFiniteSet(Shard) /\ Cardinality(Shard) = NShards
  <1>1. NShards \in Nat /\ 0 \in Int /\ NShards - 1 \in Int /\ NShards > 0
    BY ShardingAssumption
  <1>2. /\ IsFiniteSet(0..(NShards - 1))
        /\ Cardinality(0..(NShards - 1)) = IF 0 > NShards - 1 THEN 0 ELSE (NShards - 1) - 0 + 1
    BY <1>1, FS_Interval
  <1> QED
    BY <1>1, <1>2 DEF Shard

(* No list is longer than there are shards.                                  *)
LEMMA ListBounded ==
    ASSUME NEW t, EachOnce(t), NEW g \in Key
    PROVE  Len(t[g]) \in 0..NShards
  <1>1. t[g] \in Seq(Shard) /\ Len(t[g]) \in Nat
    BY ListTyped DEF EachOnce
  <1>2. t[g] \in [1..Len(t[g]) -> Shard]
    BY <1>1
  <1>3. t[g] \in Injection(1..Len(t[g]), Shard)
    BY <1>2 DEF EachOnce, Injection, IsInjective
  <1>4. Cardinality(1..Len(t[g])) <= NShards
    BY <1>3, ShardFinite, FS_Injection
  <1>5. Cardinality(1..Len(t[g])) = IF 1 > Len(t[g]) THEN 0 ELSE Len(t[g]) - 1 + 1
    BY <1>1, FS_Interval
  <1> QED
    BY <1>1, <1>4, <1>5, ShardingAssumption

(* The first group with the fewest shards exists.                            *)
LEMMA SmallestIs ==
    ASSUME NEW t \in Lists, NEW gs \in SUBSET GID, gs # {}
    PROVE  Smallest(t, gs) \in gs /\ \A h \in gs : Len(t[Smallest(t, gs)]) <= Len(t[h])
  <1>0. \A g \in gs : g \in Nat /\ g \in Key /\ Len(t[g]) \in Nat
    BY ListTyped, ShardingAssumption DEF Key
  <1> DEFINE lens == {Len(t[g]) : g \in gs}
             few == {g \in gs : \A h \in gs : Len(t[g]) <= Len(t[h])}
  <1>1. PICK n \in lens : \A m \in lens : n <= m
    BY <1>0, LeastNat
  <1>2. few # {} /\ few \in SUBSET Nat
    <2>1. PICK g \in gs : n = Len(t[g])
      BY <1>1
    <2>2. g \in few
      BY <2>1, <1>1
    <2> QED
      BY <2>2, <1>0
  <1>3. \E x \in few : \A y \in few : x <= y
    BY <1>2, LeastNat
  <1>4. Min(few) \in few
    <2> HIDE DEF few
    <2> QED
      BY <1>3 DEF Min
  <1> QED
    BY <1>4 DEF Smallest

(* So does the first one with the most, lists being bounded.                 *)
LEMMA LargestIs ==
    ASSUME NEW t, EachOnce(t), NEW gs \in SUBSET GID, gs # {}
    PROVE  Largest(t, gs) \in gs /\ \A h \in gs : Len(t[Largest(t, gs)]) >= Len(t[h])
  <1>0. /\ NShards \in Nat
        /\ \A g \in gs : g \in Nat /\ Len(t[g]) \in 0..NShards
    BY ListBounded, ShardingAssumption DEF Key
  <1> DEFINE gaps == {NShards - Len(t[g]) : g \in gs}
             many == {g \in gs : \A h \in gs : Len(t[g]) >= Len(t[h])}
  <1>1. PICK n \in gaps : \A m \in gaps : n <= m
    <2>1. gaps \in SUBSET Nat /\ gaps # {}
      BY <1>0
    <2> QED
      BY <2>1, LeastNat
  <1>2. many # {} /\ many \in SUBSET Nat
    <2>1. PICK g \in gs : n = NShards - Len(t[g])
      BY <1>1
    <2>2. \A h \in gs : NShards - Len(t[g]) <= NShards - Len(t[h])
      BY <2>1, <1>1
    <2>3. \A h \in gs : Len(t[g]) >= Len(t[h])
      BY <2>2, <1>0
    <2> QED
      BY <2>3, <1>0
  <1>3. \E x \in many : \A y \in many : x <= y
    BY <1>2, LeastNat
  <1>4. Min(many) \in many
    <2> HIDE DEF many
    <2> QED
      BY <1>3 DEF Min
  <1> QED
    BY <1>4 DEF Largest

(* MoveShards of uneven lists is such a turn.                                *)
LEMMA TurnIs ==
    ASSUME NEW t, EachOnce(t), NEW gs \in SUBSET GID, Uneven(t, gs)
    PROVE  \E a, b, c : Turned(t, MoveShards(t, gs), gs, a, b, c)
  <1>0. t \in Lists /\ gs # {} /\ 0 \in Key /\ gs \subseteq Key /\ 0 \notin gs
    BY ShardingAssumption DEF EachOnce, Uneven, Key
  <1>1. PICK b \in gs : b = Smallest(t, gs) /\ \A h \in gs : Len(t[b]) <= Len(t[h])
    BY <1>0, SmallestIs
  <1>2. \A g \in Key : t[g] \in Seq(Shard) /\ Len(t[g]) \in Nat
    BY <1>0, ListTyped
  <1>3. PICK a, c :
          /\ a \in Key /\ a # b /\ c \in 1..Len(t[a])
          /\ \/ a = 0 /\ c = Len(t[0])
             \/ /\ Len(t[0]) = 0 /\ a \in gs
                /\ \A h \in gs : Len(t[h]) <= Len(t[a])
                /\ 2 * c <= Len(t[a]) - Len(t[b]) /\ Len(t[a]) - Len(t[b]) <= 2 * c + 1
          /\ maxmin(t, gs).maxi = a /\ maxmin(t, gs).mini = b /\ c = maxmin(t, gs).gap \div 2
    <2>1. CASE Len(t[0]) > 0
      <3>1. maxmin(t, gs) = [maxi |-> 0, mini |-> b, gap |-> 2 * Len(t[0])]
        BY <2>1, <1>1 DEF maxmin
      <3>2. PICK c \in Nat : c = Len(t[0]) /\ c > 0
        BY <2>1, <1>0, <1>2
      <3>3. c = (2 * c) \div 2 /\ c \in 1..c
        <4>1. 2 * c \in Nat
          BY <3>2
        <4>2. (2 * c) \div 2 \in Nat /\ 2 * ((2 * c) \div 2) <= 2 * c /\ 2 * c <= 2 * ((2 * c) \div 2) + 1
          BY <4>1, Halves
        <4>3. PICK d \in Nat : d = (2 * c) \div 2
          BY <4>2
        <4>4. 2 * d <= 2 * c /\ 2 * c <= 2 * d + 1
          BY <4>2, <4>3, Zenon
        <4>5. c = d
          BY <4>4
        <4>6. c \in 1..c
          BY <3>2
        <4> QED
          BY <4>3, <4>5, <4>6
      <3>4. maxmin(t, gs).maxi = 0 /\ maxmin(t, gs).mini = b /\ maxmin(t, gs).gap = 2 * c
        BY <3>1, <3>2
      <3>5. 0 \in Key /\ 0 # b
        BY <1>0, <1>1
      <3> QED
        BY <3>2, <3>3, <3>4, <3>5
    <2>2. CASE ~ (Len(t[0]) > 0)
      <3>1. PICK a \in gs : a = Largest(t, gs) /\ \A h \in gs : Len(t[a]) >= Len(t[h])
        BY <1>0, LargestIs
      <3>2. maxmin(t, gs) = [maxi |-> a, mini |-> b, gap |-> Len(t[a]) - Len(t[b])]
        BY <2>2, <3>1, <1>1 DEF maxmin
      <3>3. PICK la \in Nat, lb \in Nat : la = Len(t[a]) /\ lb = Len(t[b])
        BY <1>0, <1>1, <1>2, <3>1
      <3>4. la - lb > 1
        <4>1. maxmin(t, gs).gap = la - lb
          BY <3>2, <3>3
        <4> QED
          BY <4>1 DEF Uneven
      <3>5. PICK c : c = (la - lb) \div 2
        OBVIOUS
      <3>6. c \in 1..la /\ 2 * c <= la - lb /\ la - lb <= 2 * c + 1 /\ a # b
        <4>1. la - lb \in Nat
          BY <3>4
        <4>2. c \in Nat /\ 2 * c <= la - lb /\ la - lb <= 2 * c + 1
          BY <4>1, <3>5, Halves
        <4>3. la # lb /\ c \in 1..la
          BY <4>2, <3>4
        <4> QED
          BY <4>2, <4>3, <3>3
      <3>7. Len(t[0]) = 0
        BY <2>2, <1>0, <1>2
      <3>8. \A h \in gs : Len(t[h]) <= Len(t[a])
        BY <3>1, <1>0, <1>2
      <3>9. maxmin(t, gs).maxi = a /\ maxmin(t, gs).mini = b /\ c = maxmin(t, gs).gap \div 2
        BY <3>2, <3>3, <3>5
      <3> QED
        BY <3>3, <3>6, <3>7, <3>8, <3>9, <1>0
    <2> QED
      BY <2>1, <2>2
  <1>4. PICK u : u = MoveShards(t, gs)
    OBVIOUS
  <1>5. u = [t EXCEPT ![a] = SubSeq(t[a], c + 1, Len(t[a])), ![b] = t[b] \o SubSeq(t[a], 1, c)]
    <2>1. u = [[t EXCEPT ![a] = SubSeq(t[a], c + 1, Len(t[a]))] EXCEPT ![b] = @ \o SubSeq(t[a], 1, c)]
      BY <1>3, <1>4 DEF MoveShards
    <2> QED
      BY <2>1, <1>0, <1>3 DEF Lists
  <1>6. /\ SubSeq(t[a], c + 1, Len(t[a])) \in Seq(Shard)
        /\ SubSeq(t[a], 1, c) \in Seq(Shard)
        /\ t[b] \o SubSeq(t[a], 1, c) \in Seq(Shard)
    <2>1. PICK s \in Seq(Shard), q \in Seq(Shard) : s = t[a] /\ q = t[b]
      BY <1>0, <1>1, <1>2, <1>3
    <2>2. c \in 1..Len(s)
      BY <2>1, <1>3
    <2>3. SubSeq(s, c + 1, Len(s)) \in Seq(Shard) /\ SubSeq(s, 1, c) \in Seq(Shard)
      BY <2>1, <2>2
    <2>4. q \o SubSeq(s, 1, c) \in Seq(Shard)
      BY <2>1, <2>3
    <2> QED
      BY <2>1, <2>3, <2>4
  <1>7. /\ u \in Lists
        /\ u[a] = SubSeq(t[a], c + 1, Len(t[a]))
        /\ u[b] = t[b] \o SubSeq(t[a], 1, c)
        /\ \A g \in Key : g # a /\ g # b => u[g] = t[g]
    BY <1>0, <1>1, <1>3, <1>5, <1>6 DEF Lists
  <1>8. Turned(t, u, gs, a, b, c)
    BY <1>1, <1>3, <1>7 DEF Turned
  <1> QED
    BY <1>4, <1>8

(* Where the shards stand after a turn.                                      *)
Places(t, u, a, b, c) ==
    /\ a \in Key /\ b \in Key /\ a # b /\ c \in Nat /\ c > 0
    /\ Len(t[a]) \in Nat /\ Len(t[b]) \in Nat /\ c <= Len(t[a])
    /\ Len(u[a]) = Len(t[a]) - c /\ Len(u[b]) = Len(t[b]) + c
    /\ \A k \in 1..Len(u[a]) : u[a][k] = t[a][k + c] /\ k + c \in 1..Len(t[a])
    /\ \A k \in 1..Len(t[b]) : u[b][k] = t[b][k]
    /\ \A k \in 1..c : u[b][Len(t[b]) + k] = t[a][k]
    /\ \A g \in Key : g # a /\ g # b => u[g] = t[g]

(* What is at place k of g was at place l of h.                              *)
From(t, u, a, b, c, g, k, h, l) ==
    /\ h \in Key /\ l \in 1..Len(t[h]) /\ u[g][k] = t[h][l]
    /\ \/ g = a /\ h = a /\ l = k + c
       \/ g = b /\ h = a /\ k > Len(t[b]) /\ l = k - Len(t[b]) /\ l <= c
       \/ g = b /\ h = b /\ l = k
       \/ g # a /\ g # b /\ h = g /\ l = k

LEMMA TurnPlaces ==
    ASSUME NEW t, EachOnce(t), NEW gs \in SUBSET GID, NEW u, NEW a, NEW b, NEW c, Turned(t, u, gs, a, b, c)
    PROVE  Places(t, u, a, b, c)
  <1>1. a \in Key /\ b \in Key /\ a # b /\ t \in Lists
    BY DEF Turned, EachOnce, Key
  <1>2. PICK s \in Seq(Shard), q \in Seq(Shard) : s = t[a] /\ q = t[b]
    BY <1>1, ListTyped
  <1>3. c \in 1..Len(s) /\ u[a] = SubSeq(s, c + 1, Len(s)) /\ u[b] = q \o SubSeq(s, 1, c)
    BY <1>2 DEF Turned
  <1>4. Len(s) \in Nat /\ Len(q) \in Nat /\ c \in Nat /\ c > 0 /\ c <= Len(s)
    BY <1>3
  <1>5. Len(u[a]) = Len(s) - c /\ \A k \in 1..(Len(s) - c) : u[a][k] = s[k + c] /\ k + c \in 1..Len(s)
    BY <1>3, <1>4
  <1>6. SubSeq(s, 1, c) \in Seq(Shard) /\ Len(SubSeq(s, 1, c)) = c /\ \A k \in 1..c : SubSeq(s, 1, c)[k] = s[k]
    BY <1>3, <1>4
  <1>7. /\ Len(u[b]) = Len(q) + c
        /\ \A k \in 1..Len(q) : u[b][k] = q[k]
        /\ \A k \in 1..c : u[b][Len(q) + k] = s[k]
    <2>1. PICK m \in Seq(Shard) : m = SubSeq(s, 1, c)
      BY <1>6
    <2>2. Len(m) = c /\ u[b] = q \o m /\ \A k \in 1..c : m[k] = s[k]
      BY <2>1, <1>3, <1>6
    <2>3. Len(q \o m) = Len(q) + c
      <3>1. Len(q \o m) = Len(q) + Len(m)
        OBVIOUS
      <3> QED
        BY <3>1, <2>2
    <2>5. \A k \in 1..Len(q) : (q \o m)[k] = q[k]
      OBVIOUS
    <2>4. ASSUME NEW k \in 1..c PROVE (q \o m)[Len(q) + k] = s[k]
      <3>1. (q \o m)[Len(q) + k] = m[k]
        BY <2>2, <1>4
      <3> QED
        BY <3>1, <2>2
    <2> QED
      BY <2>2, <2>3, <2>4, <2>5
  <1>8. \A g \in Key : g # a /\ g # b => u[g] = t[g]
    BY DEF Turned
  <1> QED
    BY <1>1, <1>2, <1>4, <1>5, <1>7, <1>8 DEF Places

(* A shard stays in its list or, one of the first c of a, comes to b.        *)
LEMMA TurnSources ==
    ASSUME NEW t, NEW u, NEW a, NEW b, NEW c, Places(t, u, a, b, c), NEW g \in Key, NEW k \in 1..Len(u[g])
    PROVE  \E h, l : From(t, u, a, b, c, g, k, h, l)
  <1>1. CASE g = a
    <2>1. From(t, u, a, b, c, g, k, a, k + c)
      BY <1>1 DEF Places, From
    <2> QED
      BY <2>1
  <1>2. CASE g = b /\ k > Len(t[b])
    <2>1. PICK l : l = k - Len(t[b])
      OBVIOUS
    <2>2. l \in 1..c /\ Len(t[b]) + l = k /\ l \in 1..Len(t[a]) /\ l <= c
      BY <2>1, <1>2 DEF Places
    <2>3. u[g][k] = t[a][l] /\ a \in Key
      BY <2>2, <1>2 DEF Places
    <2>4. From(t, u, a, b, c, g, k, a, l)
      BY <2>1, <2>2, <2>3, <1>2 DEF From
    <2> QED
      BY <2>4
  <1>3. CASE g = b /\ ~ (k > Len(t[b]))
    <2>1. k \in 1..Len(t[b])
      BY <1>3 DEF Places
    <2>2. From(t, u, a, b, c, g, k, b, k)
      BY <2>1, <1>3 DEF Places, From
    <2> QED
      BY <2>2
  <1>4. CASE g # a /\ g # b
    <2>1. From(t, u, a, b, c, g, k, g, k)
      BY <1>4 DEF Places, From
    <2> QED
      BY <2>1
  <1> QED
    BY <1>1, <1>2, <1>3, <1>4

(* A turn loses no shard and copies none.                                    *)
LEMMA TurnKeeps ==
    ASSUME NEW t, EachOnce(t), NEW gs \in SUBSET GID, NEW u, NEW a, NEW b, NEW c, Turned(t, u, gs, a, b, c)
    PROVE  EachOnce(u)
  <1>0. Places(t, u, a, b, c)
    BY TurnPlaces
  <1>1. /\ a \in Key /\ b \in Key /\ a # b /\ c \in Nat /\ c > 0
        /\ Len(t[a]) \in Nat /\ Len(t[b]) \in Nat /\ c <= Len(t[a])
        /\ Len(u[a]) = Len(t[a]) - c /\ Len(u[b]) = Len(t[b]) + c
        /\ \A i \in 1..Len(u[a]) : u[a][i] = t[a][i + c] /\ i + c \in 1..Len(t[a])
        /\ \A i \in 1..Len(t[b]) : u[b][i] = t[b][i]
        /\ \A i \in 1..c : u[b][Len(t[b]) + i] = t[a][i]
        /\ \A h \in Key : h # a /\ h # b => u[h] = t[h]
    BY <1>0 DEF Places
  <1>2. ASSUME NEW s \in Shard PROVE \E g \in Key : \E k \in 1..Len(u[g]) : u[g][k] = s
    <2>1. PICK g \in Key : \E k \in 1..Len(t[g]) : t[g][k] = s
      BY DEF EachOnce
    <2>2. PICK k \in 1..Len(t[g]) : t[g][k] = s
      BY <2>1
    <2>3. CASE g = a /\ k <= c
      <3>1. Len(t[b]) + k \in 1..Len(u[b]) /\ u[b][Len(t[b]) + k] = s
        BY <2>2, <2>3, <1>1
      <3> QED
        BY <3>1, <1>1
    <2>4. CASE g = a /\ ~ (k <= c)
      <3>1. k - c \in 1..Len(u[a]) /\ (k - c) + c = k
        BY <2>2, <2>4, <1>1
      <3>2. u[a][k - c] = s
        BY <3>1, <2>2, <2>4, <1>1
      <3> QED
        BY <3>1, <3>2, <1>1
    <2>5. CASE g = b
      <3>1. k \in 1..Len(u[b]) /\ u[b][k] = s
        BY <2>2, <2>5, <1>1
      <3> QED
        BY <3>1, <1>1
    <2>6. CASE g # a /\ g # b
      BY <2>2, <2>6, <1>1
    <2> QED
      BY <2>3, <2>4, <2>5, <2>6
  <1>3. ASSUME NEW g \in Key, NEW h \in Key, NEW k \in 1..Len(u[g]), NEW l \in 1..Len(u[h]), u[g][k] = u[h][l]
        PROVE  g = h /\ k = l
    <2>1. PICK y, j : From(t, u, a, b, c, g, k, y, j)
      BY <1>0, TurnSources
    <2>2. PICK z, i : From(t, u, a, b, c, h, l, z, i)
      BY <1>0, TurnSources
    <2>3. y \in Key /\ j \in 1..Len(t[y]) /\ z \in Key /\ i \in 1..Len(t[z]) /\ t[y][j] = t[z][i]
      BY <2>1, <2>2, <1>3 DEF From
    <2>4. y = z /\ j = i
      BY <2>3 DEF EachOnce
    <2>5. k \in Nat /\ l \in Nat /\ k > 0 /\ l > 0
      OBVIOUS
    <2> QED
      BY <2>1, <2>2, <2>4, <2>5, <1>1 DEF From
  <1>4. u \in Lists
    BY DEF Turned
  <1> QED
    BY <1>2, <1>3, <1>4 DEF EachOnce

-----------------------------------------------------------------------------
(* What the lists say of conf.Shards.                                        *)

(* A shard belongs to the group in whose list it is.                         *)
LEMMA OwnerIs ==
    ASSUME NEW t, EachOnce(t), NEW g \in Key, NEW k \in 1..Len(t[g])
    PROVE  t[g][k] \in Shard /\ ShardsOf(t)[t[g][k]] = g
  <1>1. t \in Lists /\ DOMAIN t = Key /\ \A h \in Key : DOMAIN t[h] = 1..Len(t[h])
    BY ListTyped DEF EachOnce, Lists
  <1>2. t[g][k] \in Shard
    BY <1>1, ListTyped
  <1>3. \A h \in Key : (\E l \in 1..Len(t[h]) : t[h][l] = t[g][k]) <=> h = g
    BY DEF EachOnce
  <1>4. (CHOOSE h \in DOMAIN t : \E l \in DOMAIN t[h] : t[h][l] = t[g][k]) = g
    BY <1>1, <1>3
  <1> QED
    BY <1>2, <1>4 DEF ShardsOf

LEMMA OwnerHas ==
    ASSUME NEW t, EachOnce(t)
    PROVE  /\ ShardsOf(t) \in [Shard -> Key]
           /\ \A s \in Shard : \E k \in 1..Len(t[ShardsOf(t)[s]]) : t[ShardsOf(t)[s]][k] = s
  <1>1. ASSUME NEW s \in Shard
        PROVE  ShardsOf(t)[s] \in Key /\ \E k \in 1..Len(t[ShardsOf(t)[s]]) : t[ShardsOf(t)[s]][k] = s
    <2>1. PICK g \in Key : \E k \in 1..Len(t[g]) : t[g][k] = s
      BY DEF EachOnce
    <2>2. PICK k \in 1..Len(t[g]) : t[g][k] = s
      BY <2>1
    <2>3. ShardsOf(t)[s] = g
      BY <2>2, OwnerIs
    <2> QED
      BY <2>2, <2>3
  <1>2. \A s \in Shard : (CHOOSE g \in DOMAIN t : \E k \in DOMAIN t[g] : t[g][k] = s) \in Key
    BY <1>1 DEF ShardsOf
  <1>3. ShardsOf(t) \in [Shard -> Key]
    BY <1>2 DEF ShardsOf
  <1> QED
    BY <1>1, <1>3

(* The lists of an assignment give the assignment.                           *)
LEMMA OwnersByGroup ==
    ASSUME NEW conf, conf.shards \in [Shard -> Key]
    PROVE  ShardsOf(ShardsByGroup(conf)) = conf.shards
  <1>1. PICK t : t = ShardsByGroup(conf)
    OBVIOUS
  <1>2. EachOnce(t) /\ \A g \in Key : \A k \in 1..Len(t[g]) : conf.shards[t[g][k]] = g
    BY <1>1, ByGroupOnce
  <1>3. ASSUME NEW s \in Shard PROVE ShardsOf(t)[s] = conf.shards[s]
    <2>1. ShardsOf(t)[s] \in Key /\ \E k \in 1..Len(t[ShardsOf(t)[s]]) : t[ShardsOf(t)[s]][k] = s
      BY <1>2, OwnerHas
    <2> QED
      BY <2>1, <1>2
  <1>4. ShardsOf(t) \in [Shard -> Key]
    BY <1>2, OwnerHas
  <1> QED
    BY <1>1, <1>3, <1>4

(* A group has as many shards as its list is long.                           *)
LEMMA OwnedCount ==
    ASSUME NEW t, EachOnce(t), NEW g \in Key
    PROVE  /\ IsFiniteSet({s \in Shard : ShardsOf(t)[s] = g})
           /\ Cardinality({s \in Shard : ShardsOf(t)[s] = g}) = Len(t[g])
  <1> DEFINE S == {s \in Shard : ShardsOf(t)[s] = g}
  <1>1. t[g] \in Seq(Shard) /\ Len(t[g]) \in Nat
    BY ListTyped DEF EachOnce
  <1>2. t[g] \in [1..Len(t[g]) -> S]
    <2>1. \A k \in 1..Len(t[g]) : t[g][k] \in S
      BY OwnerIs
    <2>2. t[g] \in [1..Len(t[g]) -> Shard]
      BY <1>1
    <2> QED
      BY <2>1, <2>2
  <1>3. \A s \in S : \E k \in 1..Len(t[g]) : t[g][k] = s
    BY OwnerHas
  <1>4. \A k, l \in 1..Len(t[g]) : t[g][k] = t[g][l] => k = l
    BY DEF EachOnce
  <1>5. t[g] \in Bijection(1..Len(t[g]), S)
    <2> HIDE DEF S
    <2> QED
      BY <1>2, <1>3, <1>4 DEF Bijection, Injection, Surjection, IsInjective
  <1>6. ExistsBijection(1..Len(t[g]), S)
    BY <1>5 DEF ExistsBijection
  <1> QED
    BY <1>1, <1>6, ShardFinite, FS_Subset, FS_CountingElements

(* A turn gives shards of a to b and leaves the others alone.                *)
LEMMA TurnOwners ==
    ASSUME NEW t, EachOnce(t), NEW gs \in SUBSET GID, NEW u, NEW a, NEW b, NEW c, Turned(t, u, gs, a, b, c),
           NEW s \in Shard
    PROVE  \/ ShardsOf(u)[s] = ShardsOf(t)[s]
           \/ ShardsOf(t)[s] = a /\ ShardsOf(u)[s] = b
  <1>1. EachOnce(u) /\ Places(t, u, a, b, c)
    BY TurnKeeps, TurnPlaces
  <1>2. PICK g \in Key : g = ShardsOf(u)[s] /\ \E k \in 1..Len(u[g]) : u[g][k] = s
    BY <1>1, OwnerHas
  <1>3. PICK k \in 1..Len(u[g]) : u[g][k] = s
    BY <1>2
  <1>4. PICK h, l : From(t, u, a, b, c, g, k, h, l)
    BY <1>1, TurnSources
  <1>5. ShardsOf(t)[s] = h
    BY <1>3, <1>4, OwnerIs DEF From
  <1>6. h = g \/ (h = a /\ g = b)
    BY <1>4 DEF From
  <1> QED
    BY <1>2, <1>5, <1>6

-----------------------------------------------------------------------------
(* When the loop ends.                                                       *)

(* Then no two groups differ by more than one, and no shard is left over.    *)
LEMMA EndsEvenly ==
    ASSUME NEW t, EachOnce(t), NEW gs \in SUBSET GID, gs # {}, ~ Uneven(t, gs)
    PROVE  Len(t[0]) = 0 /\ \A g, h \in gs : Len(t[g]) <= Len(t[h]) + 1
  <1>0. t \in Lists /\ 0 \in Key /\ gs \subseteq Key
    BY DEF EachOnce, Key
  <1>1. \A g \in Key : Len(t[g]) \in Nat
    BY <1>0, ListTyped
  <1>2. PICK b \in gs : b = Smallest(t, gs) /\ \A h \in gs : Len(t[b]) <= Len(t[h])
    BY <1>0, SmallestIs
  <1>3. PICK a \in gs : a = Largest(t, gs) /\ \A h \in gs : Len(t[a]) >= Len(t[h])
    BY LargestIs
  <1>4. ~ (maxmin(t, gs).gap > 1)
    BY DEF Uneven
  <1>5. Len(t[0]) = 0
    <2>1. ASSUME Len(t[0]) > 0 PROVE FALSE
      <3>1. maxmin(t, gs) = [maxi |-> 0, mini |-> Smallest(t, gs), gap |-> 2 * Len(t[0])]
        BY <2>1 DEF maxmin
      <3>2. maxmin(t, gs).gap = 2 * Len(t[0])
        BY <3>1
      <3> QED
        BY <3>2, <2>1, <1>0, <1>1, <1>4
    <2> QED
      BY <2>1, <1>0, <1>1
  <1>6. Len(t[a]) - Len(t[b]) <= 1
    <2>1. maxmin(t, gs) = [maxi |-> a, mini |-> b, gap |-> Len(t[a]) - Len(t[b])]
      <3>1. ~ (Len(t[0]) > 0)
        BY <1>5
      <3> QED
        BY <3>1, <1>2, <1>3 DEF maxmin
    <2>2. maxmin(t, gs).gap = Len(t[a]) - Len(t[b])
      BY <2>1
    <2>3. PICK x \in Nat, y \in Nat : x = Len(t[a]) /\ y = Len(t[b])
      BY <1>0, <1>1
    <2>4. ~ (x - y > 1)
      BY <2>2, <2>3, <1>4
    <2>5. x - y <= 1
      BY <2>4
    <2> QED
      BY <2>3, <2>5
  <1>7. ASSUME NEW g \in gs, NEW h \in gs PROVE Len(t[g]) <= Len(t[h]) + 1
    <2>1. Len(t[g]) <= Len(t[a]) /\ Len(t[b]) <= Len(t[h])
      BY <1>0, <1>1, <1>2, <1>3
    <2> QED
      BY <2>1, <1>0, <1>1, <1>6
  <1> QED
    BY <1>5, <1>7

-----------------------------------------------------------------------------
(* That it ends.                                                             *)

(* The pairs of shards that are in one list.                                 *)
Together(t) == {p \in Shard \X Shard : ShardsOf(t)[p[1]] = ShardsOf(t)[p[2]]}

LEMMA TogetherBounded ==
    ASSUME NEW t
    PROVE  /\ IsFiniteSet(Together(t))
           /\ Cardinality(Together(t)) \in Nat
           /\ Cardinality(Together(t)) > 0
           /\ Cardinality(Together(t)) <= NShards * NShards
  <1>1. IsFiniteSet(Shard \X Shard) /\ Cardinality(Shard \X Shard) = NShards * NShards
    BY ShardFinite, FS_Product
  <1>2. Together(t) \in SUBSET (Shard \X Shard)
    BY DEF Together
  <1>3. IsFiniteSet(Together(t)) /\ Cardinality(Together(t)) <= NShards * NShards
    BY <1>1, <1>2, FS_Subset
  <1>4. Cardinality(Together(t)) \in Nat
    BY <1>3, FS_CardinalityType
  <1>5. <<0, 0>> \in Together(t)
    <2>1. 0 \in Shard
      BY ShardingAssumption DEF Shard
    <2> QED
      BY <2>1 DEF Together
  <1>6. Cardinality(Together(t)) # 0
    BY <1>3, <1>5, FS_EmptySet
  <1> QED
    BY <1>3, <1>4, <1>6

LEMMA MoreOfMore ==
    ASSUME NEW x \in Nat, NEW y \in Nat, NEW z \in Nat, x > 0, y > z
    PROVE  x * y \in Nat /\ x * z \in Nat /\ x * y > x * z
  <1>1. x * (y - z) > 0 /\ x * y = x * z + x * (y - z)
    <2>1. y - z \in Nat /\ y - z > 0 /\ y = z + (y - z)
      OBVIOUS
    <2>2. \A m, n \in Nat : m > 0 /\ n > 0 => m * n > 0
      OBVIOUS
    <2>3. \A k, m, n \in Nat : k * (m + n) = k * m + k * n
      OBVIOUS
    <2> QED
      BY <2>1, <2>2, <2>3
  <1>2. x * y \in Nat /\ x * z \in Nat /\ x * (y - z) \in Int
    OBVIOUS
  <1> QED
    BY <1>1, <1>2

(* Pairs of A and B, in both orders.                                         *)
Mixed(A, B) == (A \X B) \cup (B \X A)

LEMMA MixedCount ==
    ASSUME NEW A, NEW B, IsFiniteSet(A), IsFiniteSet(B), A \cap B = {}
    PROVE  IsFiniteSet(Mixed(A, B)) /\ Cardinality(Mixed(A, B)) = 2 * (Cardinality(A) * Cardinality(B))
  <1>1. PICK x \in Nat, y \in Nat : x = Cardinality(A) /\ y = Cardinality(B)
    BY FS_CardinalityType
  <1>2. /\ IsFiniteSet(A \X B) /\ Cardinality(A \X B) = x * y
        /\ IsFiniteSet(B \X A) /\ Cardinality(B \X A) = y * x
    BY <1>1, FS_Product
  <1>3. (A \X B) \cap (B \X A) = {}
    OBVIOUS
  <1>4. Cardinality((A \X B) \cap (B \X A)) = 0
    BY <1>3, FS_EmptySet
  <1>5. PICK S, T : S = A \X B /\ T = B \X A
    OBVIOUS
  <1>6. PICK d \in Nat : d = x * y /\ d = y * x
    OBVIOUS
  <1>7. /\ IsFiniteSet(S) /\ Cardinality(S) = d /\ IsFiniteSet(T) /\ Cardinality(T) = d
        /\ Cardinality(S \cap T) = 0 /\ Mixed(A, B) = S \cup T
    BY <1>2, <1>4, <1>5, <1>6, Zenon DEF Mixed
  <1>8. IsFiniteSet(S \cup T) /\ Cardinality(S \cup T) = Cardinality(S) + Cardinality(T) - Cardinality(S \cap T)
    BY <1>7, FS_Union, Zenon
  <1>9. Cardinality(S \cup T) = 2 * d
    BY <1>7, <1>8
  <1> QED
    BY <1>1, <1>6, <1>7, <1>8, <1>9, Zenon

(* A turn between two groups separates more pairs than it joins.             *)
LEMMA TurnSeparates ==
    ASSUME NEW t, EachOnce(t), NEW gs \in SUBSET GID, NEW u, NEW a, NEW b, NEW c, Turned(t, u, gs, a, b, c), a # 0
    PROVE  Cardinality(Together(u)) < Cardinality(Together(t))
  <1>00. EachOnce(u) /\ Places(t, u, a, b, c)
    BY TurnKeeps, TurnPlaces
  <1>0. EachOnce(u) /\ Places(t, u, a, b, c) /\ a \in Key /\ b \in Key /\ a # b
    BY <1>00 DEF Places
  <1> DEFINE O == ShardsOf(t)
             P == ShardsOf(u)
             A == {s \in Shard : O[s] = a /\ P[s] = b}
             B == {s \in Shard : P[s] = a}
             C == {s \in Shard : O[s] = b}
  <1>1. \A s \in Shard : P[s] = O[s] \/ (O[s] = a /\ P[s] = b)
    BY TurnOwners
  <1>2. IsFiniteSet(A) /\ IsFiniteSet(B) /\ IsFiniteSet(C)
    BY ShardFinite, FS_Subset
  <1>3. Cardinality(B) = Len(u[a]) /\ Cardinality(C) = Len(t[b])
    BY <1>0, OwnedCount
  <1>4. PICK x \in Nat, y \in Nat, z \in Nat : x = Cardinality(A) /\ y = Cardinality(B) /\ z = Cardinality(C)
    BY <1>2, FS_CardinalityType
  <1>5. y > z
    <2>1. PICK la \in Nat, lb \in Nat : la = Len(t[a]) /\ lb = Len(t[b])
      BY <1>0 DEF Places
    <2>2. c \in Nat /\ c > 0 /\ 2 * c <= la - lb
      BY <1>0, <2>1 DEF Places, Turned
    <2>3. y = la - c /\ z = lb
      BY <1>0, <1>3, <1>4, <2>1 DEF Places
    <2> HIDE DEF A, B, C
    <2> QED
      BY <2>2, <2>3
  <1>6. x > 0
    <2>1. PICK s : s = t[a][1]
      OBVIOUS
    <2>2. 1 \in 1..Len(t[a]) /\ 1 \in 1..c /\ Len(t[b]) + 1 \in 1..Len(u[b]) /\ u[b][Len(t[b]) + 1] = t[a][1]
      BY <1>0 DEF Places
    <2>3. s \in Shard /\ O[s] = a
      BY <1>0, <2>1, <2>2, OwnerIs
    <2>4. P[s] = b
      BY <1>0, <2>1, <2>2, OwnerIs
    <2>5. s \in A
      BY <2>3, <2>4
    <2> QED
      BY <1>2, <1>4, <2>5, FS_EmptySet
  <1>7. /\ IsFiniteSet(Mixed(A, B)) /\ Cardinality(Mixed(A, B)) = 2 * (x * y)
        /\ IsFiniteSet(Mixed(A, C)) /\ Cardinality(Mixed(A, C)) = 2 * (x * z)
    <2>1. A \cap B = {} /\ A \cap C = {}
      BY <1>0
    <2> HIDE DEF A, B, C
    <2> QED
      BY <2>1, <1>2, <1>4, MixedCount
  <1>8. Together(u) \subseteq (Together(t) \ Mixed(A, B)) \cup Mixed(A, C)
    <2>1. ASSUME NEW p \in Together(u), p \notin Mixed(A, C) PROVE p \in Together(t) /\ p \notin Mixed(A, B)
      <3>1. PICK q \in Shard, r \in Shard : p = <<q, r>>
        BY DEF Together
      <3>2. P[q] = P[r]
        BY <2>1, <3>1 DEF Together
      <3>3. p \notin Mixed(A, B)
        BY <3>1, <3>2, <1>0 DEF Mixed
      <3>4. ~ (q \in A /\ r \in C) /\ ~ (q \in C /\ r \in A)
        BY <2>1, <3>1 DEF Mixed
      <3>5. O[q] = O[r]
        BY <3>2, <3>4, <1>0, <1>1
      <3>6. p \in Together(t)
        BY <3>1, <3>5 DEF Together
      <3> QED
        BY <3>3, <3>6
    <2> QED
      BY <2>1
  <1>9. Mixed(A, B) \subseteq Together(t)
    <2>1. \A s \in B : O[s] = a
      BY <1>0, <1>1
    <2> QED
      BY <2>1 DEF Mixed, Together
  <1>10. PICK n \in Nat, m \in Nat : n = Cardinality(Together(t)) /\ m = Cardinality(Together(u))
    BY TogetherBounded
  <1>11. PICK d \in Nat, e \in Nat : d = x * y /\ e = x * z /\ d > e
    BY <1>5, <1>6, MoreOfMore
  <1>12. PICK M, D : M = Mixed(A, C) /\ D = Together(t) \ Mixed(A, B)
    OBVIOUS
  <1>13. m <= n - 2 * d + 2 * e
    <2> HIDE DEF A, B, C
    <2>1. IsFiniteSet(Together(t)) /\ Together(t) \cap Mixed(A, B) = Mixed(A, B)
      BY <1>9, TogetherBounded
    <2>2. IsFiniteSet(D) /\ Cardinality(D) = Cardinality(Together(t)) - Cardinality(Together(t) \cap Mixed(A, B))
      BY <2>1, <1>12, FS_Difference, Zenon
    <2>3. Cardinality(D) = n - 2 * d
      BY <2>1, <2>2, <1>7, <1>10, <1>11
    <2>4. IsFiniteSet(M) /\ Cardinality(M) = 2 * e
      BY <1>7, <1>11, <1>12
    <2>5. IsFiniteSet(D \cup M) /\ Cardinality(D \cup M) = Cardinality(D) + Cardinality(M) - Cardinality(D \cap M)
      BY <2>2, <2>4, FS_Union, Zenon
    <2>6. IsFiniteSet(D \cap M)
      BY <2>2, FS_Intersection, Zenon
    <2>7. Cardinality(D \cap M) \in Nat
      BY <2>6, FS_CardinalityType, Zenon
    <2>8. m <= Cardinality(D \cup M)
      <3>1. Together(u) \in SUBSET (D \cup M)
        BY <1>8, <1>12
      <3> QED
        BY <3>1, <2>5, <1>10, FS_Subset
    <2> QED
      BY <2>3, <2>4, <2>5, <2>7, <2>8
  <1>14. m < n
    BY <1>11, <1>13
  <1> QED
    BY <1>10, <1>14

-----------------------------------------------------------------------------
(* The loop.                                                                 *)

(* f[k] is the lists after k turns, or when the loop has ended before.       *)
LoopOf(ct, gs, n, f) ==
    f = [k \in 0..n |-> IF k = 0 THEN ct
                        ELSE LET t == f[k - 1] IN IF Uneven(t, gs) THEN MoveShards(t, gs) ELSE t]

LEMMA RebalancedChosen ==
    ASSUME NEW ct, NEW gs, NEW n, NEW f, LoopOf(ct, gs, n, f)
    PROVE  \E h : Rebalanced(ct, gs, n) = h[n] /\ LoopOf(ct, gs, n, h)
  BY Zenon DEF Rebalanced, LoopOf

LEMMA TurnOnce ==
    ASSUME NEW t, EachOnce(t), NEW gs \in SUBSET GID
    PROVE  EachOnce(IF Uneven(t, gs) THEN MoveShards(t, gs) ELSE t)
  <1>1. CASE Uneven(t, gs)
    <2>1. PICK a, b, c : Turned(t, MoveShards(t, gs), gs, a, b, c)
      BY <1>1, TurnIs
    <2>2. EachOnce(MoveShards(t, gs))
      BY <2>1, TurnKeeps
    <2> QED
      BY <1>1, <2>2
  <1>2. CASE ~ Uneven(t, gs)
    BY <1>2
  <1> QED
    BY <1>1, <1>2

LEMMA RebalancedUnfolds ==
    ASSUME NEW ct, EachOnce(ct), NEW gs \in SUBSET GID, NEW n \in Nat
    PROVE  \E f : Rebalanced(ct, gs, n) = f[n] /\ LoopOf(ct, gs, n, f)
  <1> DEFINE S == {t \in Lists : EachOnce(t)}
             Step(t) == IF Uneven(t, gs) THEN MoveShards(t, gs) ELSE t
  <1>1. ct \in S /\ \A t \in S : Step(t) \in S
    <2>1. \A t \in S : EachOnce(Step(t))
      BY TurnOnce
    <2> HIDE DEF Step
    <2>2. \A t \in S : Step(t) \in S
      BY <2>1 DEF EachOnce
    <2> QED
      BY <2>2 DEF EachOnce
  <1>2. PICK step \in [Nat -> [S -> S]] : step = [k \in Nat |-> [t \in S |-> Step(t)]]
    <2> HIDE DEF S, Step
    <2> QED
      BY <1>1
  <1>3. PICK f : Iterates(f, S, ct, step, n)
    <2> HIDE DEF S, Step
    <2> QED
      BY <1>1, IterationExists
  <1>4. f \in [0..n -> S] /\ f[0] = ct /\ \A k \in 1..n : f[k] = Step(f[k - 1])
    <2> HIDE DEF S, Step
    <2>1. f \in [0..n -> S] /\ f[0] = ct /\ \A k \in 1..n : f[k] = step[k][f[k - 1]]
      BY <1>3 DEF Iterates
    <2>2. ASSUME NEW k \in 1..n PROVE f[k] = Step(f[k - 1])
      <3>1. k \in Nat /\ k - 1 \in 0..n
        OBVIOUS
      <3>2. f[k - 1] \in S
        BY <3>1, <2>1
      <3>3. step[k][f[k - 1]] = Step(f[k - 1])
        BY <3>1, <3>2, <1>2
      <3> QED
        BY <3>3, <2>1
    <2> QED
      BY <2>1, <2>2
  <1>5. f = [k \in 0..n |-> IF k = 0 THEN ct ELSE Step(f[k - 1])]
    <2> HIDE DEF S, Step
    <2>1. \A k \in 0..n : k = 0 \/ k \in 1..n
      OBVIOUS
    <2> QED
      BY <1>4, <2>1
  <1>6. LoopOf(ct, gs, n, f)
    BY <1>5, Zenon DEF LoopOf
  <1> QED
    BY <1>6, RebalancedChosen

LEMMA LoopStep ==
    ASSUME NEW ct, NEW gs, NEW n \in Nat, NEW f, LoopOf(ct, gs, n, f)
    PROVE  /\ f[0] = ct
           /\ \A k \in Nat : k + 1 <= n => f[k + 1] = IF Uneven(f[k], gs) THEN MoveShards(f[k], gs) ELSE f[k]
  <1>1. 0 \in 0..n
    OBVIOUS
  <1>2. f[0] = ct
    BY <1>1, Zenon DEF LoopOf
  <1>3. ASSUME NEW k \in Nat, k + 1 <= n
        PROVE  f[k + 1] = IF Uneven(f[k], gs) THEN MoveShards(f[k], gs) ELSE f[k]
    <2>1. k + 1 \in 0..n /\ k + 1 # 0 /\ (k + 1) - 1 = k
      BY <1>3
    <2>2. f[k + 1] = IF Uneven(f[(k + 1) - 1], gs) THEN MoveShards(f[(k + 1) - 1], gs) ELSE f[(k + 1) - 1]
      BY <2>1 DEF LoopOf
    <2> QED
      BY <2>1, <2>2
  <1> QED
    BY <1>2, <1>3

(* A shard goes to one of the groups or stays where it is.                   *)
Kept(ct, t, gs) ==
    EachOnce(t) /\ \A s \in Shard : ShardsOf(t)[s] \in gs \/ ShardsOf(t)[s] = ShardsOf(ct)[s]

LEMMA TurnKept ==
    ASSUME NEW ct, NEW gs \in SUBSET GID, NEW t, Kept(ct, t, gs)
    PROVE  Kept(ct, IF Uneven(t, gs) THEN MoveShards(t, gs) ELSE t, gs)
  <1>1. CASE Uneven(t, gs)
    <2>0. EachOnce(t)
      BY DEF Kept
    <2>1. PICK u, a, b, c : u = MoveShards(t, gs) /\ Turned(t, u, gs, a, b, c)
      BY <1>1, <2>0, TurnIs
    <2>2. EachOnce(u)
      BY <2>0, <2>1, TurnKeeps
    <2>3. b \in gs
      BY <2>1 DEF Turned
    <2>4. \A s \in Shard : ShardsOf(u)[s] = ShardsOf(t)[s] \/ ShardsOf(u)[s] = b
      BY <2>0, <2>1, TurnOwners
    <2>5. Kept(ct, u, gs)
      BY <2>2, <2>3, <2>4 DEF Kept
    <2> QED
      BY <1>1, <2>1, <2>5
  <1>2. CASE ~ Uneven(t, gs)
    BY <1>2
  <1> QED
    BY <1>1, <1>2

LEMMA LoopKept ==
    ASSUME NEW ct, EachOnce(ct), NEW gs \in SUBSET GID, NEW n \in Nat, NEW f, LoopOf(ct, gs, n, f)
    PROVE  \A k \in 0..n : Kept(ct, f[k], gs)
  <1> DEFINE G == {k \in Nat : k <= n => Kept(ct, f[k], gs)}
  <1>1. 0 \in G
    <2>1. Kept(ct, ct, gs) /\ f[0] = ct
      BY LoopStep DEF Kept
    <2> QED
      BY <2>1
  <1>2. ASSUME NEW k \in Nat, k \in G PROVE k + 1 \in G
    <2> SUFFICES ASSUME k + 1 <= n PROVE Kept(ct, f[k + 1], gs)
      OBVIOUS
    <2>1. Kept(ct, f[k], gs)
      BY <1>2
    <2>2. f[k + 1] = IF Uneven(f[k], gs) THEN MoveShards(f[k], gs) ELSE f[k]
      BY LoopStep
    <2> QED
      BY <2>1, <2>2, TurnKept
  <1>3. Nat \subseteq G
    <2> HIDE DEF G
    <2> QED
      BY <1>1, <1>2, AllNat
  <1> QED
    BY <1>3

(* With no group the loop does nothing.                                      *)
LEMMA LoopIdle ==
    ASSUME NEW ct, NEW n \in Nat, NEW f, LoopOf(ct, {}, n, f)
    PROVE  f[n] = ct
  <1> DEFINE G == {k \in Nat : k <= n => f[k] = ct}
  <1>1. 0 \in G
    BY LoopStep
  <1>2. ASSUME NEW k \in Nat, k \in G PROVE k + 1 \in G
    <2> SUFFICES ASSUME k + 1 <= n PROVE f[k + 1] = ct
      OBVIOUS
    <2>1. f[k] = ct /\ ~ Uneven(f[k], {})
      BY <1>2 DEF Uneven
    <2>2. f[k + 1] = IF Uneven(f[k], {}) THEN MoveShards(f[k], {}) ELSE f[k]
      BY LoopStep
    <2> QED
      BY <2>1, <2>2
  <1>3. Nat \subseteq G
    <2> HIDE DEF G
    <2> QED
      BY <1>1, <1>2, AllNat
  <1> QED
    BY <1>3

(* After k turns the loop has ended, or no shard is without a group and at   *)
(* least k - 1 pairs are apart that were together.                           *)
Progress(t, gs, k) ==
    \/ ~ Uneven(t, gs)
    \/ k = 0
    \/ Len(t[0]) = 0 /\ Cardinality(Together(t)) + k <= NShards * NShards + 1

LEMMA TurnProgress ==
    ASSUME NEW t, EachOnce(t), NEW gs \in SUBSET GID, NEW k \in Nat, Progress(t, gs, k), Uneven(t, gs)
    PROVE  Progress(MoveShards(t, gs), gs, k + 1)
  <1>1. PICK u, a, b, c : u = MoveShards(t, gs) /\ Turned(t, u, gs, a, b, c)
    BY TurnIs
  <1>2. EachOnce(u) /\ Places(t, u, a, b, c)
    BY <1>1, TurnKeeps, TurnPlaces
  <1>3. PICK m \in Nat, n \in Nat, q \in Nat :
          m = Cardinality(Together(t)) /\ n = Cardinality(Together(u)) /\ q = NShards * NShards
          /\ n <= q /\ n > 0
    <2>1. NShards * NShards \in Nat
      <3>1. NShards \in Nat
        BY ShardingAssumption
      <3> QED
        BY <3>1
    <2> QED
      BY <2>1, TogetherBounded
  <1>4. 0 \in Key /\ b # 0
    BY <1>1, ShardingAssumption DEF Key, Turned
  <1>5. CASE a = 0
    <2>1. Len(u[0]) = 0
      <3>1. Len(u[0]) = Len(t[0]) - c /\ c \in Nat /\ c > 0 /\ c <= Len(t[0])
        BY <1>2, <1>5 DEF Places
      <3>2. c = Len(t[0]) \/ Len(t[0]) = 0
        BY <1>1, Zenon DEF Turned
      <3> QED
        BY <3>1, <3>2
    <2>2. k = 0
      <3>1. Len(t[0]) # 0
        BY <1>1, <1>5 DEF Turned
      <3> QED
        BY <3>1 DEF Progress
    <2>3. n + (k + 1) <= q + 1
      BY <2>2, <1>3
    <2> QED
      BY <2>1, <2>3, <1>1, <1>3 DEF Progress
  <1>6. CASE a # 0
    <2>1. n < m
      BY <1>1, <1>3, <1>6, TurnSeparates
    <2>2. Len(t[0]) = 0 /\ Len(u[0]) = 0
      <3>1. Len(t[0]) = 0
        BY <1>1, <1>6 DEF Turned
      <3>2. u[0] = t[0]
        BY <1>2, <1>4, <1>6 DEF Places
      <3> QED
        BY <3>1, <3>2
    <2>3. m + k <= q + 1 \/ k = 0
      BY <1>3 DEF Progress
    <2>4. n + (k + 1) <= q + 1
      BY <2>1, <2>3, <1>3
    <2> QED
      BY <2>2, <2>4, <1>1, <1>3 DEF Progress
  <1> QED
    BY <1>5, <1>6

(* EnoughTurns is enough.                                                    *)
LEMMA LoopEnds ==
    ASSUME NEW ct, EachOnce(ct), NEW gs \in SUBSET GID, NEW f, LoopOf(ct, gs, EnoughTurns, f)
    PROVE  ~ Uneven(f[EnoughTurns], gs)
  <1>0. PICK q \in Nat : q = NShards * NShards /\ EnoughTurns = q + 1
    <2>1. NShards \in Nat
      BY ShardingAssumption
    <2>2. NShards * NShards \in Nat
      BY <2>1
    <2> QED
      BY <2>2 DEF EnoughTurns
  <1>1. PICK n \in Nat : n = EnoughTurns /\ n = q + 1
    BY <1>0
  <1> DEFINE G == {k \in Nat : k <= n => Progress(f[k], gs, k)}
  <1>2. 0 \in G
    BY DEF Progress
  <1>3. ASSUME NEW k \in Nat, k \in G PROVE k + 1 \in G
    <2> SUFFICES ASSUME k + 1 <= n PROVE Progress(f[k + 1], gs, k + 1)
      OBVIOUS
    <2>0. LoopOf(ct, gs, n, f)
      BY <1>1
    <2>1. Progress(f[k], gs, k) /\ EachOnce(f[k])
      BY <2>0, <1>3, LoopKept DEF Kept
    <2>2. f[k + 1] = IF Uneven(f[k], gs) THEN MoveShards(f[k], gs) ELSE f[k]
      BY <2>0, LoopStep
    <2>3. CASE Uneven(f[k], gs)
      BY <2>1, <2>2, <2>3, TurnProgress
    <2>4. CASE ~ Uneven(f[k], gs)
      BY <2>2, <2>4 DEF Progress
    <2> QED
      BY <2>3, <2>4
  <1>4. Progress(f[n], gs, n)
    <2>1. Nat \subseteq G
      <3> HIDE DEF G
      <3> QED
        BY <1>2, <1>3, AllNat
    <2> QED
      BY <2>1
  <1>5. PICK m \in Nat : m = Cardinality(Together(f[n])) /\ m > 0
    BY TogetherBounded
  <1>6. ~ (m + n <= q + 1) /\ n # 0
    BY <1>1, <1>5
  <1> QED
    BY <1>0, <1>1, <1>4, <1>5, <1>6 DEF Progress

(* What rebalance makes of conf.Shards.                                      *)
Rebalances(gs, old, new) ==
    /\ new \in [Shard -> Key]
    /\ \A s \in Shard : new[s] \in gs \/ new[s] = old[s]
    /\ gs = {} => new = old
    /\ gs # {} =>
         /\ \A g, h \in gs : Cardinality({s \in Shard : new[s] = g}) <= Cardinality({s \in Shard : new[s] = h}) + 1
         /\ Cardinality({s \in Shard : new[s] = 0}) = 0
         /\ \A s \in Shard : new[s] # 0

LEMMA LoopRebalances ==
    ASSUME NEW conf, conf.shards \in [Shard -> Key], NEW gs \in SUBSET GID
    PROVE  Rebalances(gs, conf.shards, ShardsOf(Rebalanced(ShardsByGroup(conf), gs, EnoughTurns)))
  <1>1. PICK ct : ct = ShardsByGroup(conf)
    OBVIOUS
  <1>2. EachOnce(ct) /\ ShardsOf(ct) = conf.shards
    BY <1>1, ByGroupOnce, OwnersByGroup
  <1>3. EnoughTurns \in Nat
    <2>1. NShards \in Nat
      BY ShardingAssumption
    <2> QED
      BY <2>1 DEF EnoughTurns
  <1>4. PICK f : Rebalanced(ct, gs, EnoughTurns) = f[EnoughTurns] /\ LoopOf(ct, gs, EnoughTurns, f)
    BY <1>2, <1>3, RebalancedUnfolds
  <1>5. PICK t : t = f[EnoughTurns]
    OBVIOUS
  <1>6. Kept(ct, t, gs)
    BY <1>2, <1>3, <1>4, <1>5, LoopKept
  <1>7. EachOnce(t) /\ ShardsOf(t) \in [Shard -> Key] /\ \A s \in Shard : ShardsOf(t)[s] \in gs \/ ShardsOf(t)[s] = conf.shards[s]
    BY <1>2, <1>6, OwnerHas DEF Kept
  <1>8. ASSUME gs = {} PROVE ShardsOf(t) = conf.shards
    BY <1>2, <1>3, <1>4, <1>5, <1>8, LoopIdle
  <1>9. ASSUME gs # {}
        PROVE  /\ \A g, h \in gs : Cardinality({s \in Shard : ShardsOf(t)[s] = g}) <= Cardinality({s \in Shard : ShardsOf(t)[s] = h}) + 1
               /\ Cardinality({s \in Shard : ShardsOf(t)[s] = 0}) = 0
               /\ \A s \in Shard : ShardsOf(t)[s] # 0
    <2>1. ~ Uneven(t, gs)
      BY <1>2, <1>4, <1>5, LoopEnds
    <2>2. Len(t[0]) = 0 /\ \A g, h \in gs : Len(t[g]) <= Len(t[h]) + 1
      BY <2>1, <1>7, <1>9, EndsEvenly
    <2>3. 0 \in Key /\ gs \subseteq Key
      BY DEF Key
    <2>4. \A g \in Key : Cardinality({s \in Shard : ShardsOf(t)[s] = g}) = Len(t[g]) /\ IsFiniteSet({s \in Shard : ShardsOf(t)[s] = g})
      BY <1>7, OwnedCount
    <2>5. {s \in Shard : ShardsOf(t)[s] = 0} = {}
      BY <2>2, <2>3, <2>4, FS_EmptySet
    <2>6. \A g, h \in gs : Cardinality({s \in Shard : ShardsOf(t)[s] = g}) <= Cardinality({s \in Shard : ShardsOf(t)[s] = h}) + 1
      BY <2>2, <2>3, <2>4
    <2>7. \A s \in Shard : ShardsOf(t)[s] # 0
      BY <2>5
    <2> QED
      BY <2>2, <2>3, <2>4, <2>6, <2>7
  <1>10. Rebalances(gs, conf.shards, ShardsOf(t))
    BY <1>7, <1>8, <1>9 DEF Rebalances
  <1> QED
    BY <1>1, <1>4, <1>5, <1>10

(* The loop of rebalance has ended when its turns are counted out.           *)
LEMMA LoopStops ==
    ASSUME NEW conf, conf.shards \in [Shard -> Key], NEW gs \in SUBSET GID
    PROVE  ~ Uneven(Rebalanced(ShardsByGroup(conf), gs, EnoughTurns), gs)
  <1>1. PICK ct : ct = ShardsByGroup(conf)
    OBVIOUS
  <1>2. EachOnce(ct)
    BY <1>1, ByGroupOnce
  <1>3. EnoughTurns \in Nat
    <2>1. NShards \in Nat
      BY ShardingAssumption
    <2> QED
      BY <2>1 DEF EnoughTurns
  <1>4. PICK f : Rebalanced(ct, gs, EnoughTurns) = f[EnoughTurns] /\ LoopOf(ct, gs, EnoughTurns, f)
    BY <1>2, <1>3, RebalancedUnfolds
  <1> QED
    BY <1>1, <1>2, <1>4, LoopEnds

(* rebalance changes only the shards, ends, leaves no group with two shards  *)
(* more than another and no shard without a group, and touches no shard of a *)
(* group that is not in the configuration.                                   *)
THEOREM RebalanceCorrect ==
    ASSUME NEW conf \in Config
    PROVE  /\ rebalance(conf) \in Config
           /\ rebalance(conf).num = conf.num /\ rebalance(conf).groups = conf.groups
           /\ ~ Uneven(Rebalanced(ShardsByGroup(conf), conf.groups, EnoughTurns), conf.groups)
           /\ Even(rebalance(conf))
           /\ Rebalances(conf.groups, conf.shards, rebalance(conf).shards)
  <1>1. conf.shards \in [Shard -> Key] /\ conf.groups \in SUBSET GID /\ conf.num \in Nat
    BY DEF Config, Key
  <1>2. PICK new : new = ShardsOf(Rebalanced(ShardsByGroup(conf), conf.groups, EnoughTurns))
    OBVIOUS
  <1>3. Rebalances(conf.groups, conf.shards, new)
    BY <1>1, <1>2, LoopRebalances
  <1>4. rebalance(conf) = [conf EXCEPT !.shards = new]
    BY <1>2, Zenon DEF rebalance
  <1>5. PICK r : r = rebalance(conf)
    OBVIOUS
  <1>6. r \in Config /\ r.num = conf.num /\ r.groups = conf.groups /\ r.shards = new
    BY <1>1, <1>3, <1>4, <1>5 DEF Config, Key, Rebalances
  <1>7. Even(r)
    BY <1>3, <1>6 DEF Even, Rebalances, Count
  <1>8. ~ Uneven(Rebalanced(ShardsByGroup(conf), conf.groups, EnoughTurns), conf.groups)
    BY <1>1, LoopStops
  <1> QED
    BY <1>3, <1>5, <1>6, <1>7, <1>8
=============================================================================
