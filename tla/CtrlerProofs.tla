---------------------------- MODULE CtrlerProofs ----------------------------
(* Theorems of module ShardCtrler, for any replicas, clerks, commands and    *)
(* bounds: every replica holds the configurations of the commands it was     *)
(* given, each counted once.                                                 *)
EXTENDS ShardCtrler, ShardingLemmas

-----------------------------------------------------------------------------
(* What a command makes of a configuration.                                  *)

(* A shard is where rebalance puts shards.                                   *)
Placed(c, s) == c.shards[s] \in c.groups \/ (c.groups = {} /\ c.shards[s] = 0)

LEMMA OperationKinds ==
    ASSUME NEW o \in Operation, o.op # "Query"
    PROVE  \/ o.op = "Join" /\ o.gids \in SUBSET GID
           \/ o.op = "Leave" /\ o.gids \in SUBSET GID
           \/ o.op = "Move" /\ o.to \in [shard : Shard, gid : GID]
  <1>1. CASE o \in [op : {"Join"}, gids : Joins]
    <2>1. o.op = "Join" /\ o.gids \in Joins
      BY <1>1
    <2> QED
      BY <2>1, CtrlerAssumption
  <1>2. CASE o \in [op : {"Leave"}, gids : Leaves]
    <2>1. o.op = "Leave" /\ o.gids \in Leaves
      BY <1>2
    <2> QED
      BY <2>1, CtrlerAssumption
  <1>3. CASE o \in [op : {"Move"}, to : Moves]
    <2>1. o.op = "Move" /\ o.to \in Moves
      BY <1>3
    <2> QED
      BY <2>1, CtrlerAssumption
  <1>4. CASE o \in [op : {"Query"}]
    BY <1>4
  <1> QED
    BY <1>1, <1>2, <1>3, <1>4 DEF Operation

(* A configuration again; a shard is where rebalance puts it, or stays where *)
(* it was already out of place, unless a Leave takes it from there, or the   *)
(* command moves it.                                                         *)
MakesOf(c, o, d) ==
    /\ d \in Config
    /\ \A s \in Shard :
         \/ Placed(d, s)
         \/ /\ d.shards[s] = c.shards[s] /\ ~ Placed(c, s)
            /\ o.op = "Leave" => c.shards[s] \notin o.gids
         \/ o.op = "Move" /\ o.to = [shard |-> s, gid |-> d.shards[s]]

LEMMA JoinMakes ==
    ASSUME NEW c \in Config, NEW gids \in SUBSET GID, NEW o, o.op = "Join",
           NEW d, d = rebalance([c EXCEPT !.groups = c.groups \cup gids])
    PROVE  MakesOf(c, o, d)
  <1>1. PICK e : e = [c EXCEPT !.groups = c.groups \cup gids]
    OBVIOUS
  <1>2. e \in Config /\ e.shards = c.shards /\ e.groups = c.groups \cup gids
    BY <1>1 DEF Config
  <1>3. d \in Config /\ d.groups = e.groups /\ Rebalances(e.groups, e.shards, d.shards)
    BY <1>1, <1>2, RebalanceCorrect
  <1>4. ASSUME NEW s \in Shard PROVE Placed(d, s) \/ (d.shards[s] = c.shards[s] /\ ~ Placed(c, s))
    BY <1>2, <1>3 DEF Rebalances, Placed
  <1> QED
    BY <1>3, <1>4 DEF MakesOf

LEMMA LeaveMakes ==
    ASSUME NEW c \in Config, NEW gids \in SUBSET GID, NEW o, o.op = "Leave", o.gids = gids, NEW shards,
           shards = [s \in Shard |-> IF c.shards[s] \in gids THEN 0 ELSE c.shards[s]],
           NEW d, d = rebalance([c EXCEPT !.groups = c.groups \ gids, !.shards = shards])
    PROVE  MakesOf(c, o, d)
  <1>1. PICK e : e = [c EXCEPT !.groups = c.groups \ gids, !.shards = shards]
    OBVIOUS
  <1>2. e \in Config /\ e.shards = shards /\ e.groups = c.groups \ gids
    BY <1>1 DEF Config
  <1>3. d \in Config /\ d.groups = e.groups /\ Rebalances(e.groups, e.shards, d.shards)
    BY <1>1, <1>2, RebalanceCorrect
  <1>4. ASSUME NEW s \in Shard PROVE Placed(d, s) \/ (d.shards[s] = c.shards[s] /\ ~ Placed(c, s) /\ c.shards[s] \notin gids)
    <2>1. shards[s] = IF c.shards[s] \in gids THEN 0 ELSE c.shards[s]
      OBVIOUS
    <2> QED
      BY <2>1, <1>2, <1>3 DEF Rebalances, Placed
  <1> QED
    BY <1>3, <1>4 DEF MakesOf

LEMMA MoveMakes ==
    ASSUME NEW c \in Config, NEW o, o.op = "Move", o.to \in [shard : Shard, gid : GID],
           NEW d, d = [c EXCEPT !.shards[o.to.shard] = o.to.gid]
    PROVE  MakesOf(c, o, d)
  <1>1. PICK x \in Shard, g \in GID : o.to = [shard |-> x, gid |-> g]
    OBVIOUS
  <1>2. d = [c EXCEPT !.shards = [c.shards EXCEPT ![x] = g]]
    BY <1>1
  <1>3. d \in Config /\ d.groups = c.groups /\ d.shards = [c.shards EXCEPT ![x] = g]
    BY <1>2 DEF Config
  <1>4. ASSUME NEW s \in Shard
        PROVE  Placed(d, s) \/ (d.shards[s] = c.shards[s] /\ ~ Placed(c, s)) \/ o.to = [shard |-> s, gid |-> d.shards[s]]
    <2>1. CASE s = x
      <3>1. d.shards[s] = g
        BY <2>1, <1>3 DEF Config
      <3> QED
        BY <3>1, <2>1, <1>1
    <2>2. CASE s # x
      <3>1. d.shards[s] = c.shards[s]
        BY <2>2, <1>3 DEF Config
      <3> QED
        BY <3>1, <1>3 DEF Placed
    <2> QED
      BY <2>1, <2>2
  <1> QED
    BY <1>3, <1>4 DEF MakesOf

LEMMA ChangedMakes ==
    ASSUME NEW c \in Config, NEW o \in Operation, o.op # "Query"
    PROVE  MakesOf(c, o, Changed(c, o))
  <1>1. CASE o.op = "Join" /\ o.gids \in SUBSET GID
    <2>1. Changed(c, o) = rebalance([c EXCEPT !.groups = c.groups \cup o.gids])
      BY <1>1 DEF Changed
    <2> QED
      BY <2>1, <1>1, JoinMakes
  <1>2. CASE o.op = "Leave" /\ o.gids \in SUBSET GID
    <2>1. PICK shards : shards = [s \in Shard |-> IF c.shards[s] \in o.gids THEN 0 ELSE c.shards[s]]
      OBVIOUS
    <2>2. Changed(c, o) = rebalance([c EXCEPT !.groups = c.groups \ o.gids, !.shards = shards])
      BY <2>1, <1>2 DEF Changed, Config
    <2> QED
      BY <2>1, <2>2, <1>2, LeaveMakes
  <1>3. CASE o.op = "Move" /\ o.to \in [shard : Shard, gid : GID]
    <2>1. Changed(c, o) = [c EXCEPT !.shards[o.to.shard] = o.to.gid]
      BY <1>3 DEF Changed
    <2> QED
      BY <2>1, <1>3, MoveMakes
  <1> QED
    BY <1>1, <1>2, <1>3, OperationKinds

(* The lists of configurations a replica can have.                           *)
Configs == {cs \in Seq(Config) : cs # << >>}

LEMMA ConfIs ==
    ASSUME NEW cs \in Configs
    PROVE  /\ Last(cs) \in Config /\ conf(cs) \in Config
           /\ conf(cs).shards = Last(cs).shards /\ conf(cs).groups = Last(cs).groups
  <1>1. cs \in Seq(Config) /\ Len(cs) \in Nat /\ Len(cs) # 0
    BY DEF Configs
  <1>2. Last(cs) \in Config
    BY <1>1 DEF Last
  <1> QED
    BY <1>2 DEF conf, Config

LEMMA ExtendedIs ==
    ASSUME NEW cs \in Configs, NEW d \in Config
    PROVE  Append(cs, d) \in Configs /\ Last(Append(cs, d)) = d /\ IsPrefix(cs, Append(cs, d))
  <1>1. cs \in Seq(Config) /\ Len(cs) \in Nat
    BY DEF Configs
  <1>2. /\ Append(cs, d) \in Seq(Config) /\ Len(Append(cs, d)) = Len(cs) + 1
        /\ Append(cs, d)[Len(cs) + 1] = d /\ \A k \in 1..Len(cs) : Append(cs, d)[k] = cs[k]
    BY <1>1
  <1>3. Append(cs, d) # << >>
    BY <1>1, <1>2
  <1>4. Last(Append(cs, d)) = d
    BY <1>2 DEF Last
  <1>5. IsPrefix(cs, Append(cs, d))
    BY <1>1, <1>2 DEF IsPrefix
  <1> QED
    BY <1>2, <1>3, <1>4, <1>5 DEF Configs

LEMMA PrefixIs ==
    ASSUME NEW S, NEW s \in Seq(S), NEW t \in Seq(S)
    PROVE  IsPrefix(s, t) <=> Len(s) <= Len(t) /\ \A k \in 1..Len(s) : s[k] = t[k]
  <1>0. Len(s) \in Nat /\ Len(t) \in Nat /\ s \in [1..Len(s) -> S] /\ t \in [1..Len(t) -> S]
    OBVIOUS
  <1>1. SubSeq(s, 1, Len(s)) = [k \in 1..Len(s) |-> s[k]]
    BY <1>0
  <1>2. ASSUME Len(s) <= Len(t) PROVE SubSeq(t, 1, Len(s)) = [k \in 1..Len(s) |-> t[k]]
    BY <1>0, <1>2
  <1> QED
    BY <1>0, <1>1, <1>2 DEF IsPrefix

LEMMA PrefixTrans ==
    ASSUME NEW S, NEW s \in Seq(S), NEW t \in Seq(S), NEW u \in Seq(S), IsPrefix(s, t), IsPrefix(t, u)
    PROVE  IsPrefix(s, u)
  <1>1. Len(s) \in Nat /\ Len(t) \in Nat /\ Len(u) \in Nat
    OBVIOUS
  <1>2. /\ Len(s) <= Len(t) /\ \A k \in 1..Len(s) : s[k] = t[k]
        /\ Len(t) <= Len(u) /\ \A k \in 1..Len(t) : t[k] = u[k]
    BY PrefixIs
  <1>3. Len(s) <= Len(u) /\ \A k \in 1..Len(s) : s[k] = u[k]
    BY <1>1, <1>2
  <1> QED
    BY <1>3, PrefixIs

-----------------------------------------------------------------------------
(* The history of a log.                                                     *)

(* Command n of l, given the configurations cs of those before it.           *)
Counted(l, n, cs) == IF First(l, n) THEN Append(cs, Changed(conf(cs), l[n].args)) ELSE cs

HistoryOf(l, h) ==
    h = [n \in 0..Len(l) |->
          IF n = 0 THEN StartConfigs
          ELSE IF First(l, n) THEN Append(h[n - 1], Changed(conf(h[n - 1]), l[n].args))
          ELSE h[n - 1]]

LEMMA HistoryChosen ==
    ASSUME NEW l, NEW h, HistoryOf(l, h)
    PROVE  HistoryOf(l, History(l))
  BY Zenon DEF HistoryOf, History

LEMMA StartIs == StartConfigs \in Configs /\ Last(StartConfigs) = EmptyConfig /\ EmptyConfig \in Config
  <1>1. EmptyConfig \in Config
    BY DEF EmptyConfig, Config
  <1>2. StartConfigs \in Seq(Config) /\ Len(StartConfigs) = 1 /\ StartConfigs[1] = EmptyConfig
    BY <1>1 DEF StartConfigs
  <1>3. StartConfigs # << >>
    BY DEF StartConfigs
  <1> QED
    BY <1>1, <1>2, <1>3 DEF Configs, Last

LEMMA CountedIs ==
    ASSUME NEW l \in Seq(Request), NEW n \in 1..Len(l), NEW cs \in Configs
    PROVE  /\ Counted(l, n, cs) \in Configs
           /\ IsPrefix(cs, Counted(l, n, cs))
  <1>0. l[n] \in Request
    OBVIOUS
  <1>1. l[n].args \in Operation
    BY <1>0 DEF Request
  <1>2. CASE First(l, n)
    <2>1. l[n].args.op # "Query"
      BY <1>2 DEF First
    <2>2. Changed(conf(cs), l[n].args) \in Config
      BY <1>1, <2>1, ConfIs, ChangedMakes DEF MakesOf
    <2>3. Counted(l, n, cs) = Append(cs, Changed(conf(cs), l[n].args))
      BY <1>2 DEF Counted
    <2> QED
      BY <2>2, <2>3, ExtendedIs
  <1>3. CASE ~ First(l, n)
    <2>1. Counted(l, n, cs) = cs
      BY <1>3 DEF Counted
    <2>2. IsPrefix(cs, cs)
      BY DEF IsPrefix, Configs
    <2> QED
      BY <2>1, <2>2
  <1> QED
    BY <1>2, <1>3

(* The history grows by one command at a time.                               *)
LEMMA HistoryIs ==
    ASSUME NEW l \in Seq(Request)
    PROVE  /\ History(l)[0] = StartConfigs
           /\ \A n \in 0..Len(l) : History(l)[n] \in Configs
           /\ \A n \in Nat : n + 1 <= Len(l) => History(l)[n + 1] = Counted(l, n + 1, History(l)[n])
  <1>0. Len(l) \in Nat
    OBVIOUS
  <1>1. PICK step \in [Nat -> [Configs -> Configs]] :
          step = [k \in Nat |-> [cs \in Configs |-> IF k \in 1..Len(l) THEN Counted(l, k, cs) ELSE cs]]
    BY CountedIs
  <1>2. PICK f : Iterates(f, Configs, StartConfigs, step, Len(l))
    BY <1>0, StartIs, IterationExists
  <1>3. ASSUME NEW k \in 1..Len(l) PROVE f[k] = Counted(l, k, f[k - 1])
    <2>1. k - 1 \in 0..Len(l) /\ f[k - 1] \in Configs /\ k \in Nat
      <3>1. k - 1 \in 0..Len(l) /\ k \in Nat
        BY <1>0
      <3> QED
        BY <3>1, <1>2 DEF Iterates
    <2>2. step[k][f[k - 1]] = Counted(l, k, f[k - 1])
      BY <2>1, <1>1
    <2> QED
      BY <2>2, <1>2 DEF Iterates
  <1>4. f = [n \in 0..Len(l) |-> IF n = 0 THEN StartConfigs ELSE Counted(l, n, f[n - 1])]
    <2>1. \A k \in 0..Len(l) : k = 0 \/ k \in 1..Len(l)
      BY <1>0
    <2> QED
      BY <2>1, <1>2, <1>3 DEF Iterates
  <1>5. HistoryOf(l, f)
    BY <1>4, Zenon DEF HistoryOf, Counted
  <1>6. PICK h : h = History(l) /\ HistoryOf(l, h)
    BY <1>5, HistoryChosen
  <1>7. h = [n \in 0..Len(l) |-> IF n = 0 THEN StartConfigs ELSE Counted(l, n, h[n - 1])]
    BY <1>6, Zenon DEF HistoryOf, Counted
  <1>8. h[0] = StartConfigs
    <2>1. 0 \in 0..Len(l)
      BY <1>0
    <2> QED
      BY <2>1, <1>7
  <1>9. ASSUME NEW n \in Nat, n + 1 <= Len(l) PROVE h[n + 1] = Counted(l, n + 1, h[n])
    <2>1. n + 1 \in 0..Len(l) /\ n + 1 # 0 /\ (n + 1) - 1 = n
      BY <1>0, <1>9
    <2> QED
      BY <2>1, <1>7
  <1> DEFINE G == {n \in Nat : n <= Len(l) => h[n] \in Configs}
  <1>10. 0 \in G
    BY <1>8, StartIs
  <1>11. ASSUME NEW n \in Nat, n \in G PROVE n + 1 \in G
    <2> SUFFICES ASSUME n + 1 <= Len(l) PROVE h[n + 1] \in Configs
      OBVIOUS
    <2>1. h[n] \in Configs /\ n + 1 \in 1..Len(l)
      BY <1>0, <1>11
    <2> QED
      BY <2>1, <1>9, CountedIs
  <1>12. Nat \subseteq G
    <2> HIDE DEF G
    <2> QED
      BY <1>10, <1>11, AllNat
  <1>13. \A n \in 0..Len(l) : h[n] \in Configs
    BY <1>0, <1>12
  <1> QED
    BY <1>6, <1>8, <1>9, <1>13

(* It is never rewritten: a longer part of the log has a longer history.     *)
LEMMA HistoryGrows ==
    ASSUME NEW l \in Seq(Request), NEW m \in 0..Len(l), NEW n \in 0..Len(l), m <= n
    PROVE  IsPrefix(History(l)[m], History(l)[n])
  <1>0. Len(l) \in Nat /\ m \in Nat /\ n \in Nat
    OBVIOUS
  <1>1. PICK h : h = History(l) /\ \A k \in 0..Len(l) : h[k] \in Configs
    BY HistoryIs
  <1> DEFINE G == {k \in Nat : m + k <= Len(l) => IsPrefix(h[m], h[m + k])}
  <1>2. 0 \in G
    <2>1. h[m] \in Seq(Config) /\ m + 0 = m
      BY <1>0, <1>1 DEF Configs
    <2>2. IsPrefix(h[m], h[m + 0])
      BY <2>1 DEF IsPrefix
    <2> QED
      BY <2>2
  <1>3. ASSUME NEW k \in Nat, k \in G PROVE k + 1 \in G
    <2> SUFFICES ASSUME m + (k + 1) <= Len(l) PROVE IsPrefix(h[m], h[m + (k + 1)])
      OBVIOUS
    <2>1. PICK x \in Nat : x = m + k /\ x + 1 = m + (k + 1) /\ x + 1 <= Len(l) /\ x \in 0..Len(l) /\ x + 1 \in 1..Len(l) /\ m + k <= Len(l) /\ x + 1 \in 0..Len(l)
      BY <1>0
    <2>2. IsPrefix(h[m], h[x])
      BY <2>1, <1>3
    <2>3. h[x + 1] = Counted(l, x + 1, h[x])
      BY <2>1, <1>1, HistoryIs
    <2>4. IsPrefix(h[x], h[x + 1])
      BY <2>1, <2>3, <1>1, CountedIs
    <2>5. h[m] \in Seq(Config) /\ h[x] \in Seq(Config) /\ h[x + 1] \in Seq(Config)
      BY <2>1, <1>1 DEF Configs
    <2>6. IsPrefix(h[m], h[x + 1])
      BY <2>2, <2>4, <2>5, PrefixTrans
    <2> QED
      BY <2>1, <2>6
  <1>4. n - m \in G /\ m + (n - m) = n
    <2>1. n - m \in Nat /\ m + (n - m) = n
      BY <1>0
    <2>2. Nat \subseteq G
      <3> HIDE DEF G
      <3> QED
        BY <1>2, <1>3, AllNat
    <2> QED
      BY <2>1, <2>2
  <1> QED
    BY <1>0, <1>1, <1>4

(* Nor does a command added to the log change it.                            *)
LEMMA HistoryStands ==
    ASSUME NEW l \in Seq(Request), NEW r \in Request, NEW n \in 0..Len(l)
    PROVE  History(Append(l, r))[n] = History(l)[n]
  <1>0. Len(l) \in Nat /\ n \in Nat
    OBVIOUS
  <1>1. PICK k : k = Append(l, r)
    OBVIOUS
  <1>2. k \in Seq(Request) /\ Len(k) = Len(l) + 1 /\ \A x \in 1..Len(l) : k[x] = l[x]
    BY <1>1
  <1> DEFINE G == {x \in Nat : x <= Len(l) => History(k)[x] = History(l)[x]}
  <1>3. 0 \in G
    BY <1>2, HistoryIs
  <1>4. ASSUME NEW x \in Nat, x \in G PROVE x + 1 \in G
    <2> SUFFICES ASSUME x + 1 <= Len(l) PROVE History(k)[x + 1] = History(l)[x + 1]
      OBVIOUS
    <2>1. x + 1 <= Len(k) /\ x <= Len(l) /\ x + 1 \in 1..Len(l) /\ \A j \in 1..((x + 1) - 1) : j \in 1..Len(l)
      BY <1>0, <1>2
    <2>2. /\ History(k)[x + 1] = Counted(k, x + 1, History(k)[x])
          /\ History(l)[x + 1] = Counted(l, x + 1, History(l)[x])
      BY <2>1, <1>2, HistoryIs
    <2>3. First(k, x + 1) <=> First(l, x + 1)
      BY <2>1, <1>2 DEF First
    <2>4. k[x + 1] = l[x + 1] /\ History(k)[x] = History(l)[x]
      BY <2>1, <1>2, <1>4
    <2> QED
      BY <2>2, <2>3, <2>4 DEF Counted
  <1>5. Nat \subseteq G
    <2> HIDE DEF G
    <2> QED
      BY <1>3, <1>4, AllNat
  <1> QED
    BY <1>0, <1>1, <1>5

-----------------------------------------------------------------------------
(* Types.                                                                    *)

Dedup == [Client -> {Nil} \cup Request]

(* What apply makes of command x at server i: nothing of a duplicate, only   *)
(* lastApplied of a Query, and a configuration of any other.                 *)
AppliesTo(i, x, a) ==
    \/ /\ Duplicate(dedup[i], log[x])
       /\ a = [configs |-> configs[i], dedup |-> dedup[i], lastApplied |-> lastApplied[i]]
    \/ /\ log[x].args.op = "Query"
       /\ a = [configs |-> configs[i], dedup |-> dedup[i], lastApplied |-> x]
    \/ /\ log[x].args.op # "Query" /\ ~ Duplicate(dedup[i], log[x])
       /\ a = [configs |-> Append(configs[i], Changed(conf(configs[i]), log[x].args)),
               dedup |-> [dedup[i] EXCEPT ![log[x].client] = log[x]], lastApplied |-> x]

Delivers(i, x, a) ==
    /\ x \in Nat /\ x = next[i] + 1 /\ x <= Len(log) /\ x \in 1..Len(log) /\ log[x] \in Request
    /\ AppliesTo(i, x, a)
    /\ a \in [configs : Configs, dedup : Dedup, lastApplied : Nat] /\ a.lastApplied <= x
    /\ next' = [next EXCEPT ![i] = x]
    /\ configs' = [configs EXCEPT ![i] = a.configs]
    /\ dedup' = [dedup EXCEPT ![i] = a.dedup]
    /\ lastApplied' = [lastApplied EXCEPT ![i] = a.lastApplied]
    /\ \/ persister' = persister
       \/ /\ a.lastApplied = x
          /\ persister' = [persister EXCEPT ![i] = [index |-> x, configs |-> a.configs, dedup |-> a.dedup, from |-> from[i]]]
    /\ UNCHANGED <<clerkVars, log, restarts, from>>

LEMMA ServerTyped ==
    ASSUME TypeOK, NEW i \in Server
    PROVE  /\ configs[i] \in Configs /\ dedup[i] \in Dedup
           /\ lastApplied[i] \in Nat /\ next[i] \in Nat /\ Len(log) \in Nat
           /\ lastApplied[i] <= next[i] /\ next[i] <= Len(log)
           /\ persister[i] \in [index : Nat, configs : Seq(Config), dedup : Dedup, from : Nat]
           /\ persister[i].index \in Nat /\ persister[i].index <= next[i] /\ persister[i].dedup \in Dedup
           /\ persister[i].index > 0 => persister[i].configs \in Configs
           /\ from[i] \in Nat /\ from[i] <= next[i] /\ persister[i].from \in Nat /\ persister[i].from <= persister[i].index
           /\ persister[i].index <= Len(log) /\ from[i] <= Len(log)
           /\ log \in Seq(Request)
  <1>1. /\ configs[i] \in Configs /\ dedup[i] \in Dedup
        /\ lastApplied[i] \in Nat /\ next[i] \in Nat /\ log \in Seq(Request)
        /\ lastApplied[i] <= next[i] /\ next[i] <= Len(log) /\ persister[i].index <= next[i]
        /\ persister[i] \in [index : Nat, configs : Seq(Config), dedup : Dedup, from : Nat]
        /\ from[i] \in Nat /\ from[i] <= next[i] /\ persister[i].from <= persister[i].index
        /\ persister[i].index > 0 => persister[i].configs # << >>
    BY DEF TypeOK, Configs, Dedup
  <1>2. /\ persister[i].index \in Nat /\ persister[i].configs \in Seq(Config)
        /\ persister[i].dedup \in Dedup /\ persister[i].from \in Nat
    BY <1>1
  <1>3. Len(log) \in Nat /\ persister[i].index <= Len(log) /\ from[i] <= Len(log)
    BY <1>1, <1>2
  <1> QED
    BY <1>1, <1>2, <1>3 DEF Configs

LEMMA AppliedIs ==
    ASSUME TypeOK, NEW i \in Server, NEW x, x = next[i] + 1, x <= Len(log), NEW a, a = Applied(i, x)
    PROVE  /\ AppliesTo(i, x, a) /\ x \in 1..Len(log) /\ log[x] \in Request
           /\ a \in [configs : Configs, dedup : Dedup, lastApplied : Nat] /\ a.lastApplied <= x
  <1>1. /\ configs[i] \in Configs /\ dedup[i] \in Dedup /\ lastApplied[i] \in Nat /\ next[i] \in Nat
        /\ Len(log) \in Nat /\ lastApplied[i] <= next[i] /\ log \in Seq(Request)
    BY ServerTyped
  <1>2. x \in Nat /\ x \in 1..Len(log) /\ ~ (x <= lastApplied[i]) /\ lastApplied[i] <= x
    BY <1>1
  <1>3. PICK m \in Request : m = log[x]
    BY <1>1, <1>2
  <1>4. m.client \in Client /\ m.args \in Operation
    BY <1>3 DEF Request
  <1>5. CASE Duplicate(dedup[i], m)
    <2>1. a = [configs |-> configs[i], dedup |-> dedup[i], lastApplied |-> lastApplied[i]]
      BY <1>3, <1>5 DEF Applied
    <2>2. AppliesTo(i, x, a)
      BY <2>1, <1>3, <1>5 DEF AppliesTo
    <2> QED
      BY <2>1, <2>2, <1>1, <1>2, <1>3
  <1>6. CASE ~ Duplicate(dedup[i], m) /\ m.args.op = "Query"
    <2>1. a = [configs |-> configs[i], dedup |-> dedup[i], lastApplied |-> x]
      BY <1>2, <1>3, <1>6 DEF Applied
    <2>2. AppliesTo(i, x, a)
      BY <2>1, <1>3, <1>6 DEF AppliesTo
    <2> QED
      BY <2>1, <2>2, <1>1, <1>2, <1>3
  <1>7. CASE ~ Duplicate(dedup[i], m) /\ m.args.op # "Query"
    <2>1. PICK d : d = Changed(conf(configs[i]), m.args)
      OBVIOUS
    <2>2. d \in Config
      BY <2>1, <1>1, <1>4, <1>7, ConfIs, ChangedMakes DEF MakesOf
    <2>3. a = [configs |-> Append(configs[i], d), dedup |-> [dedup[i] EXCEPT ![m.client] = m], lastApplied |-> x]
      BY <2>1, <1>2, <1>3, <1>7 DEF Applied
    <2>4. Append(configs[i], d) \in Configs /\ [dedup[i] EXCEPT ![m.client] = m] \in Dedup
      BY <2>2, <1>1, <1>4, ExtendedIs DEF Dedup
    <2>5. AppliesTo(i, x, a)
      BY <2>1, <2>3, <1>3, <1>7 DEF AppliesTo
    <2>6. a \in [configs : Configs, dedup : Dedup, lastApplied : Nat] /\ a.lastApplied = x
      <3>1. PICK cs \in Configs, e \in Dedup : cs = Append(configs[i], d) /\ e = [dedup[i] EXCEPT ![m.client] = m]
        BY <2>4
      <3>2. a = [configs |-> cs, dedup |-> e, lastApplied |-> x]
        BY <2>3, <3>1
      <3> QED
        BY <3>2, <1>2
    <2> QED
      BY <2>5, <2>6, <1>2, <1>3
  <1> QED
    BY <1>5, <1>6, <1>7

LEMMA DoApplyDelivers ==
    ASSUME TypeOK, NEW i \in Server, DoApply(i)
    PROVE  \E x, a : Delivers(i, x, a)
  <1>1. PICK x, a : x = next[i] + 1 /\ a = Applied(i, x)
    OBVIOUS
  <1>2. /\ x <= Len(log)
        /\ next' = [next EXCEPT ![i] = x]
        /\ configs' = [configs EXCEPT ![i] = a.configs]
        /\ dedup' = [dedup EXCEPT ![i] = a.dedup]
        /\ lastApplied' = [lastApplied EXCEPT ![i] = a.lastApplied]
        /\ \E tail \in x..Len(log) :
             persister' = IF a.lastApplied = x /\ tail - persister[i].index + 1 >= maxraftstate
                          THEN [persister EXCEPT ![i] = Snapshot(i, x, a)]
                          ELSE persister
        /\ UNCHANGED <<clerkVars, log, restarts, from>>
    BY <1>1, Zenon DEF DoApply
  <1>3. /\ AppliesTo(i, x, a) /\ x \in 1..Len(log) /\ log[x] \in Request
        /\ a \in [configs : Configs, dedup : Dedup, lastApplied : Nat] /\ a.lastApplied <= x
    BY <1>1, <1>2, AppliedIs
  <1>4. \/ persister' = persister
        \/ /\ a.lastApplied = x
           /\ persister' = [persister EXCEPT ![i] = [index |-> x, configs |-> a.configs, dedup |-> a.dedup, from |-> from[i]]]
    <2>1. \/ persister' = persister
          \/ a.lastApplied = x /\ persister' = [persister EXCEPT ![i] = Snapshot(i, x, a)]
      BY <1>2, Zenon
    <2> QED
      BY <2>1, Zenon DEF Snapshot
  <1>5. x \in Nat
    BY <1>1, ServerTyped
  <1>6. Delivers(i, x, a)
    BY <1>1, <1>2, <1>3, <1>4, <1>5, Zenon DEF Delivers
  <1> QED
    BY <1>6

LEMMA TypeInit == Init => TypeOK
  <1> SUFFICES ASSUME Init PROVE TypeOK
    OBVIOUS
  <1>1. StartConfigs \in Seq(Config) /\ StartConfigs # << >>
    BY StartIs DEF Configs
  <1>2. NoDedup \in [Client -> {Nil} \cup Request]
    BY DEF NoDedup
  <1>3. log \in Seq(Request) /\ Len(log) = 0
    BY DEF Init
  <1>4. persister \in [Server -> [index : Nat, configs : Seq(Config), dedup : [Client -> {Nil} \cup Request], from : Nat]]
    <2>1. << >> \in Seq(Config)
      OBVIOUS
    <2>2. [index |-> 0, configs |-> << >>, dedup |-> NoDedup, from |-> 0] \in [index : Nat, configs : Seq(Config), dedup : [Client -> {Nil} \cup Request], from : Nat]
      BY <1>2, <2>1
    <2> QED
      BY <2>2 DEF Init
  <1>5. \A i \in Server : persister[i].index = 0 /\ persister[i].from = 0
    BY DEF Init
  <1>6. /\ configs \in [Server -> Seq(Config)] /\ dedup \in [Server -> [Client -> {Nil} \cup Request]]
        /\ \A i \in Server : configs[i] # << >>
    BY <1>1, <1>2 DEF Init
  <1>7. /\ lastApplied \in [Server -> Nat] /\ next \in [Server -> Nat]
        /\ from \in [Server -> Nat] /\ \A i \in Server : lastApplied[i] = 0 /\ next[i] = 0 /\ from[i] = 0
    BY DEF Init
  <1>8. restarts \in 0..MaxRestarts
    BY CtrlerAssumption DEF Init
  <1>9. current \in [Client -> {Nil} \cup Request] /\ requests \in [Client -> Nat]
    BY DEF Init
  <1> QED
    BY <1>3, <1>4, <1>5, <1>6, <1>7, <1>8, <1>9 DEF TypeOK

(* A clerk's steps leave the replicas alone, and the log only grows.         *)
LEMMA CallType ==
    ASSUME TypeOK, NEW c \in Client, NEW o \in Operation, Call(c, o)
    PROVE  TypeOK'
  <1>1. requests' = [requests EXCEPT ![c] = requests[c] + 1] /\ requests' \in [Client -> Nat] /\ requests'[c] \in Nat
    BY DEF TypeOK, Call
  <1>2. [client |-> c, id |-> requests'[c], args |-> o] \in Request
    BY <1>1 DEF Request
  <1>3. current' \in [Client -> {Nil} \cup Request]
    BY <1>2 DEF TypeOK, Call
  <1> QED
    BY <1>1, <1>3 DEF TypeOK, Call, stateVars

LEMMA CommandType ==
    ASSUME TypeOK, NEW c \in Client, Command(c)
    PROVE  TypeOK' /\ log' = Append(log, current[c]) /\ current[c] \in Request
  <1>1. log \in Seq(Request) /\ current[c] \in Request /\ log' = Append(log, current[c])
    BY DEF TypeOK, Command
  <1>2. log' \in Seq(Request) /\ Len(log') = Len(log) + 1 /\ Len(log) \in Nat
    BY <1>1
  <1>3. \A i \in Server : next[i] \in Nat /\ next[i] <= Len(log')
    BY <1>2 DEF TypeOK
  <1> QED
    BY <1>1, <1>2, <1>3 DEF TypeOK, Command, clerkVars, stateVars

LEMMA ReturnType ==
    ASSUME TypeOK, NEW c \in Client, Return(c)
    PROVE  TypeOK'
  <1>1. current' \in [Client -> {Nil} \cup Request]
    BY DEF TypeOK, Return
  <1> QED
    BY <1>1 DEF TypeOK, Return, stateVars

LEMMA DoApplyType ==
    ASSUME TypeOK, NEW i \in Server, DoApply(i)
    PROVE  TypeOK'
  <1>1. PICK x, a : Delivers(i, x, a)
    BY DoApplyDelivers
  <1>2. PICK cs \in Configs, d \in Dedup, y \in Nat : a = [configs |-> cs, dedup |-> d, lastApplied |-> y]
    BY <1>1 DEF Delivers
  <1>3. /\ x \in Nat /\ x = next[i] + 1 /\ x <= Len(log) /\ y <= x
        /\ next' = [next EXCEPT ![i] = x] /\ configs' = [configs EXCEPT ![i] = cs]
        /\ dedup' = [dedup EXCEPT ![i] = d] /\ lastApplied' = [lastApplied EXCEPT ![i] = y]
        /\ \/ persister' = persister
           \/ persister' = [persister EXCEPT ![i] = [index |-> x, configs |-> cs, dedup |-> d, from |-> from[i]]]
        /\ log' = log /\ current' = current /\ requests' = requests /\ restarts' = restarts /\ from' = from
    BY <1>1, <1>2 DEF Delivers, clerkVars
  <1>4. cs \in Seq(Config) /\ cs # << >> /\ d \in [Client -> {Nil} \cup Request]
    BY DEF Configs, Dedup
  <1>5. /\ configs' \in [Server -> Seq(Config)] /\ dedup' \in [Server -> [Client -> {Nil} \cup Request]]
        /\ lastApplied' \in [Server -> Nat] /\ next' \in [Server -> Nat]
    BY <1>3, <1>4 DEF TypeOK
  <1>6. PICK r : r = [index |-> x, configs |-> cs, dedup |-> d, from |-> from[i]]
    OBVIOUS
  <1>7. r \in [index : Nat, configs : Seq(Config), dedup : [Client -> {Nil} \cup Request], from : Nat] /\ r.index = x /\ r.configs = cs /\ r.from = from[i]
    BY <1>3, <1>4, <1>6, ServerTyped
  <1>8. persister' \in [Server -> [index : Nat, configs : Seq(Config), dedup : [Client -> {Nil} \cup Request], from : Nat]]
    BY <1>3, <1>6, <1>7 DEF TypeOK
  <1>9. ASSUME NEW j \in Server
        PROVE  /\ configs'[j] # << >>
               /\ lastApplied'[j] <= next'[j] /\ next'[j] <= Len(log')
               /\ persister'[j].index <= next'[j]
               /\ persister'[j].index > 0 => persister'[j].configs # << >>
               /\ from'[j] <= next'[j] /\ persister'[j].from <= persister'[j].index
    <2>1. CASE j = i
      <3>1. configs'[j] = cs /\ lastApplied'[j] = y /\ next'[j] = x /\ (persister'[j] = persister[j] \/ persister'[j] = r)
        BY <2>1, <1>3, <1>6 DEF TypeOK
      <3>2. /\ persister[i].index \in Nat /\ persister[i].index <= x /\ from'[j] = from[i] /\ from[i] <= x
            /\ persister[i].from <= persister[i].index
        BY <2>1, <1>3, ServerTyped
      <3> QED
        BY <3>1, <3>2, <2>1, <1>3, <1>4, <1>7 DEF TypeOK
    <2>2. CASE j # i
      <3>1. configs'[j] = configs[j] /\ lastApplied'[j] = lastApplied[j] /\ next'[j] = next[j] /\ persister'[j] = persister[j]
        BY <2>2, <1>3, <1>6 DEF TypeOK
      <3> QED
        BY <3>1, <1>3 DEF TypeOK
    <2> QED
      BY <2>1, <2>2
  <1> QED
    BY <1>3, <1>5, <1>8, <1>9 DEF TypeOK

LEMMA InstallType ==
    ASSUME TypeOK, NEW i \in Server, NEW j \in Server, InstallSnapshot(i, j)
    PROVE  TypeOK'
  <1>1. PICK s : s = persister[j]
    OBVIOUS
  <1>2. /\ s.index > 0 /\ next' = [next EXCEPT ![i] = s.index] /\ lastApplied' = [lastApplied EXCEPT ![i] = s.index]
        /\ configs' = [configs EXCEPT ![i] = s.configs] /\ dedup' = [dedup EXCEPT ![i] = s.dedup]
        /\ persister' = [persister EXCEPT ![i] = s]
        /\ log' = log /\ current' = current /\ requests' = requests /\ restarts' = restarts
        /\ from' = [from EXCEPT ![i] = s.from]
    BY <1>1 DEF InstallSnapshot, readSnapshot, clerkVars
  <1>3. /\ s \in [index : Nat, configs : Seq(Config), dedup : [Client -> {Nil} \cup Request], from : Nat]
        /\ s.index \in Nat /\ s.from \in Nat /\ s.configs \in Seq(Config) /\ s.dedup \in [Client -> {Nil} \cup Request]
    BY <1>1 DEF TypeOK
  <1>4. s.configs # << >> /\ s.index <= Len(log) /\ s.from <= s.index
    <2>1. s.configs # << >>
      BY <1>1, <1>2 DEF TypeOK
    <2>2. s.index <= Len(log) /\ s.from <= s.index
      BY <1>1, ServerTyped
    <2> QED
      BY <2>1, <2>2
  <1>5. /\ configs' \in [Server -> Seq(Config)] /\ dedup' \in [Server -> [Client -> {Nil} \cup Request]]
        /\ lastApplied' \in [Server -> Nat] /\ next' \in [Server -> Nat] /\ from' \in [Server -> Nat]
        /\ persister' \in [Server -> [index : Nat, configs : Seq(Config), dedup : [Client -> {Nil} \cup Request], from : Nat]]
    BY <1>2, <1>3 DEF TypeOK
  <1>6. ASSUME NEW k \in Server
        PROVE  /\ configs'[k] # << >>
               /\ lastApplied'[k] <= next'[k] /\ next'[k] <= Len(log')
               /\ persister'[k].index <= next'[k]
               /\ persister'[k].index > 0 => persister'[k].configs # << >>
               /\ from'[k] <= next'[k] /\ persister'[k].from <= persister'[k].index
    <2>1. CASE k = i
      <3>1. configs'[k] = s.configs /\ lastApplied'[k] = s.index /\ next'[k] = s.index /\ persister'[k] = s /\ from'[k] = s.from
        BY <2>1, <1>2 DEF TypeOK
      <3> QED
        BY <3>1, <1>2, <1>3, <1>4
    <2>2. CASE k # i
      <3>1. configs'[k] = configs[k] /\ lastApplied'[k] = lastApplied[k] /\ next'[k] = next[k] /\ persister'[k] = persister[k] /\ from'[k] = from[k]
        BY <2>2, <1>2 DEF TypeOK
      <3> QED
        BY <3>1, <1>2 DEF TypeOK
    <2> QED
      BY <2>1, <2>2
  <1> QED
    BY <1>2, <1>5, <1>6 DEF TypeOK

LEMMA StartType ==
    ASSUME TypeOK, NEW i \in Server, StartServer(i)
    PROVE  TypeOK'
  <1>1. /\ restarts < MaxRestarts /\ restarts' = restarts + 1 /\ from' = [from EXCEPT ![i] = persister[i].index]
        /\ configs' = [configs EXCEPT ![i] = StartConfigs] /\ dedup' = [dedup EXCEPT ![i] = NoDedup]
        /\ lastApplied' = [lastApplied EXCEPT ![i] = 0] /\ next' = [next EXCEPT ![i] = persister[i].index]
        /\ log' = log /\ current' = current /\ requests' = requests /\ persister' = persister
    BY DEF StartServer, ResumeIndex, clerkVars
  <1>2. StartConfigs \in Seq(Config) /\ StartConfigs # << >> /\ NoDedup \in [Client -> {Nil} \cup Request]
    BY StartIs DEF Configs, NoDedup
  <1>3. persister[i].index \in Nat /\ persister[i].index <= Len(log)
    BY ServerTyped
  <1>4. /\ configs' \in [Server -> Seq(Config)] /\ dedup' \in [Server -> [Client -> {Nil} \cup Request]]
        /\ lastApplied' \in [Server -> Nat] /\ next' \in [Server -> Nat] /\ from' \in [Server -> Nat]
    BY <1>1, <1>2, <1>3 DEF TypeOK
  <1>5. ASSUME NEW k \in Server
        PROVE  /\ configs'[k] # << >>
               /\ lastApplied'[k] <= next'[k] /\ next'[k] <= Len(log')
               /\ persister'[k].index <= next'[k]
               /\ persister'[k].index > 0 => persister'[k].configs # << >>
               /\ from'[k] <= next'[k] /\ persister'[k].from <= persister'[k].index
    <2>1. CASE k = i
      <3>1. configs'[k] = StartConfigs /\ lastApplied'[k] = 0 /\ next'[k] = persister[i].index /\ persister'[k] = persister[i] /\ from'[k] = persister[i].index
        BY <2>1, <1>1 DEF TypeOK
      <3> QED
        BY <3>1, <1>1, <1>2, <1>3 DEF TypeOK
    <2>2. CASE k # i
      <3>1. configs'[k] = configs[k] /\ lastApplied'[k] = lastApplied[k] /\ next'[k] = next[k] /\ persister'[k] = persister[k] /\ from'[k] = from[k]
        BY <2>2, <1>1 DEF TypeOK
      <3> QED
        BY <3>1, <1>1 DEF TypeOK
    <2> QED
      BY <2>1, <2>2
  <1>6. restarts' \in 0..MaxRestarts
    BY <1>1, CtrlerAssumption DEF TypeOK
  <1> QED
    BY <1>1, <1>4, <1>5, <1>6 DEF TypeOK

LEMMA TypeStep == TypeOK /\ [Next]_vars => TypeOK'
  <1> SUFFICES ASSUME TypeOK, [Next]_vars PROVE TypeOK'
    OBVIOUS
  <1>1. ASSUME NEW c \in Client, NEW o \in Operation, Call(c, o) PROVE TypeOK'
    BY <1>1, CallType
  <1>2. ASSUME NEW c \in Client, Command(c) \/ Return(c) PROVE TypeOK'
    BY <1>2, CommandType, ReturnType
  <1>3. ASSUME NEW i \in Server, DoApply(i) \/ StartServer(i) PROVE TypeOK'
    BY <1>3, DoApplyType, StartType
  <1>4. ASSUME NEW i \in Server, NEW j \in Server, InstallSnapshot(i, j) PROVE TypeOK'
    BY <1>4, InstallType
  <1>5. CASE UNCHANGED vars
    BY <1>5 DEF TypeOK, vars, clerkVars, stateVars
  <1> QED
    BY <1>1, <1>2, <1>3, <1>4, <1>5 DEF Next

(* The controller's state has its types, and no replica is ahead of the log. *)
THEOREM CtrlerTypeCorrect == Spec => []TypeOK
  BY TypeInit, TypeStep, PTL DEF Spec

-----------------------------------------------------------------------------
(* Each request counts once.                                                 *)

(* The commands of a client are in the log in the order of their numbers,    *)
(* and one number is one command.                                            *)
Ordered(l) ==
    \A j, k \in 1..Len(l) :
        j < k /\ l[j].client = l[k].client => l[j].id <= l[k].id /\ (l[j].id = l[k].id => l[j] = l[k])

(* A clerk has one request at a time, the last it numbered.                  *)
Numbered ==
    /\ \A c \in Client : current[c] # Nil => current[c].client = c /\ current[c].id = requests[c]
    /\ \A k \in 1..Len(log) :
         /\ log[k].id <= requests[log[k].client]
         /\ current[log[k].client] # Nil /\ log[k].id = requests[log[k].client] => log[k] = current[log[k].client]
    /\ Ordered(log)

(* Command j of l is one of client c and is remembered in sc.dedup.          *)
Remembered(l, j, c) == l[j].client = c /\ l[j].args.op # "Query"

(* d is sc.dedup after n commands of l.                                      *)
DedupAt(d, l, n) ==
    \A c \in Client :
        \/ d[c] = Nil /\ \A j \in 1..n : ~ Remembered(l, j, c)
        \/ /\ \E k \in 1..n : l[k] = d[c] /\ Remembered(l, k, c)
           /\ \A j \in 1..n : Remembered(l, j, c) => l[j].id <= d[c].id

LEMMA NumberedInit == Init => Numbered
  <1> SUFFICES ASSUME Init PROVE Numbered
    OBVIOUS
  <1>1. Len(log) = 0 /\ \A c \in Client : current[c] = Nil
    BY DEF Init
  <1>2. 1..Len(log) = {}
    BY <1>1
  <1> QED
    BY <1>1, <1>2 DEF Numbered, Ordered

LEMMA LogTyped ==
    ASSUME TypeOK, NEW k \in 1..Len(log)
    PROVE  log[k] \in Request /\ log[k].client \in Client /\ log[k].id \in Nat /\ log[k] # Nil /\ requests[log[k].client] \in Nat
  <1>1. log[k] \in Request
    BY DEF TypeOK
  <1>2. log[k].client \in Client /\ log[k].id \in Nat
    BY <1>1 DEF Request
  <1> QED
    BY <1>1, <1>2, NilAssumption DEF TypeOK

LEMMA NumberedCall ==
    ASSUME TypeOK, Numbered, NEW c \in Client, NEW o \in Operation, Call(c, o)
    PROVE  Numbered'
  <1>1. PICK n \in Nat : n = requests[c]
    BY DEF TypeOK
  <1>2. /\ requests' = [requests EXCEPT ![c] = n + 1] /\ requests'[c] = n + 1 /\ log' = log
        /\ current' = [current EXCEPT ![c] = [client |-> c, id |-> n + 1, args |-> o]]
    BY <1>1 DEF Call, TypeOK
  <1>3. current'[c].client = c /\ current'[c].id = requests'[c]
    BY <1>2 DEF TypeOK
  <1>4. \A e \in Client : e # c => current'[e] = current[e] /\ requests'[e] = requests[e]
    BY <1>2 DEF TypeOK
  <1>5. \A e \in Client : current'[e] # Nil => current'[e].client = e /\ current'[e].id = requests'[e]
    BY <1>3, <1>4 DEF Numbered
  <1>6. ASSUME NEW k \in 1..Len(log)
        PROVE  /\ log[k].id <= requests'[log[k].client]
               /\ current'[log[k].client] # Nil /\ log[k].id = requests'[log[k].client] => log[k] = current'[log[k].client]
    <2>1. log[k].client \in Client /\ log[k].id \in Nat /\ log[k].id <= requests[log[k].client]
      BY LogTyped DEF Numbered
    <2>2. CASE log[k].client = c
      <3>1. log[k].id <= n
        BY <2>1, <2>2, <1>1
      <3>2. log[k].id < requests'[c]
        BY <3>1, <2>1, <1>1, <1>2
      <3> QED
        BY <3>2, <2>1, <2>2, <1>1, <1>2
    <2>3. CASE log[k].client # c
      BY <2>1, <2>3, <1>4 DEF Numbered
    <2> QED
      BY <2>2, <2>3
  <1> QED
    BY <1>2, <1>5, <1>6 DEF Numbered

LEMMA NumberedCommand ==
    ASSUME TypeOK, Numbered, NEW c \in Client, Command(c)
    PROVE  Numbered'
  <1>1. PICK r \in Request : r = current[c] /\ log' = Append(log, r)
    BY CommandType
  <1>2. current' = current /\ requests' = requests /\ log \in Seq(Request) /\ r # Nil
    BY <1>1 DEF Command, clerkVars, TypeOK
  <1>3. PICK n \in Nat : n = Len(log)
    BY <1>2
  <1>4. log'[n + 1] = r /\ Len(log') = n + 1 /\ \A k \in 1..n : log'[k] = log[k]
    BY <1>1, <1>2, <1>3
  <1>5. r.client = c /\ r.id = requests[c] /\ requests[c] \in Nat
    BY <1>1, <1>2 DEF Numbered, TypeOK
  <1>6. ASSUME NEW k \in 1..(n + 1)
        PROVE  /\ log'[k].id <= requests[log'[k].client]
               /\ current[log'[k].client] # Nil /\ log'[k].id = requests[log'[k].client] => log'[k] = current[log'[k].client]
    <2>1. CASE k = n + 1
      BY <2>1, <1>1, <1>4, <1>5
    <2>2. CASE k # n + 1
      <3>1. k \in 1..Len(log) /\ log'[k] = log[k]
        BY <2>2, <1>3, <1>4
      <3> QED
        BY <3>1 DEF Numbered
    <2> QED
      BY <2>1, <2>2
  <1>7. ASSUME NEW j \in 1..(n + 1), NEW k \in 1..(n + 1), j < k, log'[j].client = log'[k].client
        PROVE  log'[j].id <= log'[k].id /\ (log'[j].id = log'[k].id => log'[j] = log'[k])
    <2>1. j \in 1..Len(log) /\ log'[j] = log[j]
      BY <1>3, <1>4, <1>7
    <2>2. CASE k = n + 1
      <3>1. log'[k] = r /\ log[j].client = c
        BY <2>1, <2>2, <1>4, <1>5, <1>7
      <3>2. log[j].id <= requests[c] /\ (current[c] # Nil /\ log[j].id = requests[c] => log[j] = current[c])
        BY <2>1, <3>1 DEF Numbered
      <3> QED
        BY <2>1, <3>1, <3>2, <1>1, <1>2, <1>5
    <2>3. CASE k # n + 1
      <3>1. k \in 1..Len(log) /\ log'[k] = log[k]
        BY <2>3, <1>3, <1>4
      <3> QED
        BY <2>1, <3>1, <1>7 DEF Numbered, Ordered
    <2> QED
      BY <2>2, <2>3
  <1> QED
    BY <1>2, <1>4, <1>6, <1>7 DEF Numbered, Ordered

LEMMA NumberedStep == TypeOK /\ Numbered /\ [Next]_vars => Numbered'
  <1> SUFFICES ASSUME TypeOK, Numbered, [Next]_vars PROVE Numbered'
    OBVIOUS
  <1>1. CASE UNCHANGED <<clerkVars, log>>
    BY <1>1 DEF Numbered, Ordered, clerkVars
  <1>2. ASSUME NEW c \in Client, NEW o \in Operation, Call(c, o) PROVE Numbered'
    BY <1>2, NumberedCall
  <1>3. ASSUME NEW c \in Client, Command(c) PROVE Numbered'
    BY <1>3, NumberedCommand
  <1>4. ASSUME NEW c \in Client, Return(c) PROVE Numbered'
    <2>1. /\ current' = [current EXCEPT ![c] = Nil] /\ requests' = requests /\ log' = log
      BY <1>4 DEF Return
    <2>2. \A e \in Client : current'[e] = current[e] \/ current'[e] = Nil
      BY <2>1 DEF TypeOK
    <2>3. \A k \in 1..Len(log) : log[k].client \in Client
      BY LogTyped
    <2> QED
      BY <2>1, <2>2, <2>3 DEF Numbered
  <1>5. ASSUME NEW i \in Server, DoApply(i) PROVE Numbered'
    <2>1. PICK x, a : Delivers(i, x, a)
      BY <1>5, DoApplyDelivers
    <2> QED
      BY <2>1, <1>1 DEF Delivers
  <1>6. ASSUME NEW i \in Server, StartServer(i) PROVE Numbered'
    BY <1>6, <1>1 DEF StartServer
  <1>7. ASSUME NEW i \in Server, NEW j \in Server, InstallSnapshot(i, j) PROVE Numbered'
    BY <1>7, <1>1 DEF InstallSnapshot
  <1>8. CASE UNCHANGED vars
    BY <1>8, <1>1 DEF vars
  <1> QED
    BY <1>2, <1>3, <1>4, <1>5, <1>6, <1>7, <1>8 DEF Next

(* So sc.dedup, which keeps one command per client, tells every command that *)
(* was in the log before.                                                    *)
LEMMA DuplicateIs ==
    ASSUME NEW l \in Seq(Request), Ordered(l), NEW x \in 1..Len(l), NEW d, DedupAt(d, l, x - 1), l[x].args.op # "Query"
    PROVE  Duplicate(d, l[x]) <=> ~ First(l, x)
  <1>0. Len(l) \in Nat /\ x \in Nat /\ \A j \in 1..(x - 1) : j \in 1..Len(l) /\ j < x
    OBVIOUS
  <1>1. \A j \in 1..Len(l) : l[j] \in Request
    OBVIOUS
  <1>2. \A j \in 1..Len(l) : l[j].client \in Client /\ l[j].id \in Nat /\ l[j] # Nil
    BY <1>1, NilAssumption DEF Request
  <1>3. PICK c \in Client : c = l[x].client
    BY <1>2
  <1>4. \/ d[c] = Nil /\ \A j \in 1..(x - 1) : ~ Remembered(l, j, c)
        \/ /\ \E k \in 1..(x - 1) : l[k] = d[c] /\ Remembered(l, k, c)
           /\ \A j \in 1..(x - 1) : Remembered(l, j, c) => l[j].id <= d[c].id
    BY DEF DedupAt
  <1>5. ASSUME Duplicate(d, l[x]) PROVE ~ First(l, x)
    <2>1. d[c] = l[x] /\ d[c] # Nil
      BY <1>2, <1>3, <1>5 DEF Duplicate
    <2>2. PICK k \in 1..(x - 1) : l[k] = d[c]
      BY <2>1, <1>4
    <2> QED
      BY <2>1, <2>2 DEF First
  <1>6. ASSUME ~ First(l, x) PROVE Duplicate(d, l[x])
    <2>1. PICK j \in 1..(x - 1) : l[j] = l[x]
      BY <1>6 DEF First
    <2>2. Remembered(l, j, c)
      BY <2>1, <1>3 DEF Remembered
    <2>3. PICK k \in 1..(x - 1) : l[k] = d[c] /\ Remembered(l, k, c) /\ l[j].id <= d[c].id
      BY <2>2, <1>4
    <2>4. l[k].client = l[x].client /\ l[x].id <= l[k].id
      BY <2>1, <2>3, <1>3 DEF Remembered
    <2>5. l[k].id <= l[x].id /\ (l[k].id = l[x].id => l[k] = l[x])
      BY <2>4, <1>0 DEF Ordered
    <2>6. l[k] = l[x]
      BY <2>4, <2>5, <1>0, <1>2
    <2> QED
      BY <2>3, <2>6, <1>3 DEF Duplicate
  <1> QED
    BY <1>5, <1>6

-----------------------------------------------------------------------------
(* The commands after an index.                                              *)

LEMMA AfterIs ==
    ASSUME NEW l \in Seq(Request), NEW f \in Nat, f <= Len(l)
    PROVE  /\ After(l, f) \in Seq(Request) /\ Len(After(l, f)) = Len(l) - f
           /\ \A k \in 1..(Len(l) - f) : After(l, f)[k] = l[k + f]
  <1>1. Len(l) \in Nat /\ f + 1 \in Nat /\ \A k \in (f + 1)..Len(l) : l[k] \in Request
    OBVIOUS
  <1>2. After(l, f) = SubSeq(l, f + 1, Len(l))
    BY DEF After
  <1>3. Len(After(l, f)) = Len(l) - f
    BY <1>1, <1>2
  <1>4. \A k \in 1..(Len(l) - f) : After(l, f)[k] = l[k + f]
    BY <1>1, <1>2
  <1>5. After(l, f) \in Seq(Request)
    BY <1>1, <1>2
  <1> QED
    BY <1>3, <1>4, <1>5

(* u is the part of l after f commands, n of them.                           *)
IsAfter(u, l, f, n) ==
    u \in Seq(Request) /\ Len(u) = n /\ \A k \in 1..n : u[k] = l[k + f] /\ k + f \in 1..Len(l)

LEMMA AfterHas ==
    ASSUME NEW l \in Seq(Request), NEW f \in Nat, NEW n \in Nat, Len(l) = n + f
    PROVE  IsAfter(After(l, f), l, f, n)
  <1>1. f <= Len(l) /\ Len(l) - f = n /\ \A k \in 1..n : k + f \in 1..Len(l)
    OBVIOUS
  <1> QED
    BY <1>1, AfterIs DEF IsAfter

LEMMA AfterLonger ==
    ASSUME NEW l \in Seq(Request), NEW r \in Request, NEW f \in Nat, f <= Len(l)
    PROVE  After(Append(l, r), f) = Append(After(l, f), r)
  <1>1. PICK k, a, b, u : k = Append(l, r) /\ a = After(k, f) /\ b = Append(u, r) /\ u = After(l, f)
    OBVIOUS
  <1>2. PICK n \in Nat : Len(l) = n + f
    <2>1. Len(l) \in Nat /\ Len(l) - f \in Nat /\ Len(l) = (Len(l) - f) + f
      OBVIOUS
    <2> QED
      BY <2>1
  <1>3. k \in Seq(Request) /\ Len(k) = (n + 1) + f /\ k[(n + 1) + f] = r /\ \A x \in 1..Len(l) : k[x] = l[x]
    <2>1. k \in Seq(Request) /\ Len(k) = Len(l) + 1 /\ k[Len(l) + 1] = r /\ \A x \in 1..Len(l) : k[x] = l[x]
      BY <1>1
    <2> QED
      BY <2>1, <1>2
  <1>4. a \in Seq(Request) /\ Len(a) = n + 1 /\ \A x \in 1..(n + 1) : a[x] = k[x + f]
    <2>1. n + 1 \in Nat
      OBVIOUS
    <2>2. IsAfter(After(k, f), k, f, n + 1)
      BY <2>1, <1>3, AfterHas
    <2> QED
      BY <2>2, <1>1 DEF IsAfter
  <1>5. u \in Seq(Request) /\ Len(u) = n /\ \A x \in 1..n : u[x] = l[x + f] /\ x + f \in 1..Len(l)
    <2>1. IsAfter(After(l, f), l, f, n)
      BY <1>2, AfterHas
    <2> QED
      BY <2>1, <1>1 DEF IsAfter
  <1>6. b \in Seq(Request) /\ Len(b) = n + 1 /\ b[n + 1] = r /\ \A x \in 1..n : b[x] = u[x]
    BY <1>1, <1>5
  <1>7. ASSUME NEW x \in 1..(n + 1) PROVE a[x] = b[x]
    <2>1. CASE x = n + 1
      BY <2>1, <1>3, <1>4, <1>6
    <2>2. CASE x # n + 1
      <3>1. x \in 1..n
        BY <2>2
      <3> QED
        BY <3>1, <1>3, <1>4, <1>5, <1>6
    <2> QED
      BY <2>1, <2>2
  <1>8. a = b
    BY <1>4, <1>6, <1>7
  <1> QED
    BY <1>1, <1>8

LEMMA AfterOrdered ==
    ASSUME NEW l \in Seq(Request), NEW f \in Nat, f <= Len(l), Ordered(l)
    PROVE  Ordered(After(l, f))
  <1>1. PICK u : u = After(l, f)
    OBVIOUS
  <1>2. PICK n \in Nat : Len(l) = n + f
    <2>1. Len(l) \in Nat /\ Len(l) - f \in Nat /\ Len(l) = (Len(l) - f) + f
      OBVIOUS
    <2> QED
      BY <2>1
  <1>3. Len(u) = n /\ \A k \in 1..n : u[k] = l[k + f] /\ k + f \in 1..Len(l)
    <2>1. IsAfter(After(l, f), l, f, n)
      BY <1>2, AfterHas
    <2> QED
      BY <2>1, <1>1 DEF IsAfter
  <1>4. ASSUME NEW j \in 1..n, NEW k \in 1..n, j < k, u[j].client = u[k].client
        PROVE  u[j].id <= u[k].id /\ (u[j].id = u[k].id => u[j] = u[k])
    <2>1. PICK x, y \in 1..Len(l) : x = j + f /\ y = k + f /\ u[j] = l[x] /\ u[k] = l[y]
      BY <1>3
    <2>2. x < y
      BY <2>1, <1>4
    <2> QED
      BY <2>1, <2>2, <1>4 DEF Ordered
  <1>5. Ordered(u)
    BY <1>3, <1>4 DEF Ordered
  <1> QED
    BY <1>1, <1>5

-----------------------------------------------------------------------------
(* Every replica has the history.                                            *)

(* cs and d are sc.configs and sc.dedup after n commands of l.               *)
Agrees(cs, d, l, n) == cs = History(l)[n] /\ DedupAt(d, l, n)

(* That is so of every replica and of every snapshot, for the commands       *)
(* since from.                                                               *)
AgreeInv ==
    \A i \in Server :
        /\ Agrees(configs[i], dedup[i], After(log, from[i]), next[i] - from[i])
        /\ persister[i].index > 0 =>
             Agrees(persister[i].configs, persister[i].dedup, After(log, persister[i].from),
                    persister[i].index - persister[i].from)

LEMMA AgreesLonger ==
    ASSUME NEW cs, NEW d, NEW l \in Seq(Request), NEW r \in Request, NEW n \in Nat, n <= Len(l), Agrees(cs, d, l, n)
    PROVE  Agrees(cs, d, Append(l, r), n)
  <1>1. n \in 0..Len(l)
    OBVIOUS
  <1>2. cs = History(Append(l, r))[n]
    BY <1>1, HistoryStands DEF Agrees
  <1>3. \A k \in 1..n : Append(l, r)[k] = l[k]
    <2>1. \A k \in 1..Len(l) : Append(l, r)[k] = l[k]
      OBVIOUS
    <2>2. 1..n \subseteq 1..Len(l)
      OBVIOUS
    <2> QED
      BY <2>1, <2>2
  <1>4. \A k \in 1..n, c \in Client : Remembered(Append(l, r), k, c) <=> Remembered(l, k, c)
    BY <1>3 DEF Remembered
  <1>5. DedupAt(d, Append(l, r), n)
    <2>1. PICK k : k = Append(l, r)
      OBVIOUS
    <2>2. /\ \A j \in 1..n : k[j] = l[j]
          /\ \A j \in 1..n, c \in Client : Remembered(k, j, c) <=> Remembered(l, j, c)
      BY <2>1, <1>3, <1>4
    <2>3. DedupAt(d, k, n)
      BY <2>2 DEF Agrees, DedupAt
    <2> QED
      BY <2>1, <2>3
  <1> QED
    BY <1>2, <1>5 DEF Agrees

LEMMA AgreesStart ==
    ASSUME NEW l \in Seq(Request)
    PROVE  Agrees(StartConfigs, NoDedup, l, 0)
  <1>1. History(l)[0] = StartConfigs
    BY HistoryIs
  <1>2. \A c \in Client : NoDedup[c] = Nil
    BY DEF NoDedup
  <1>3. DedupAt(NoDedup, l, 0)
    BY <1>2 DEF DedupAt
  <1> QED
    BY <1>1, <1>3 DEF Agrees

(* A command that is not remembered, or was before, leaves sc.dedup right.   *)
LEMMA DedupKept ==
    ASSUME NEW l \in Seq(Request), NEW x \in 1..Len(l), NEW d, DedupAt(d, l, x - 1),
           l[x].args.op = "Query" \/ d[l[x].client] = l[x]
    PROVE  DedupAt(d, l, x)
  <1>0. x \in Nat /\ \A j \in 1..x : j = x \/ j \in 1..(x - 1)
    OBVIOUS
  <1>1. \A j \in 1..(x - 1) : j \in 1..x
    BY <1>0
  <1>2. l[x] \in Request
    OBVIOUS
  <1>3. l[x] # Nil /\ l[x].id \in Nat
    BY <1>2, NilAssumption DEF Request
  <1>4. ASSUME NEW c \in Client
        PROVE  \/ d[c] = Nil /\ \A j \in 1..x : ~ Remembered(l, j, c)
               \/ /\ \E k \in 1..x : l[k] = d[c] /\ Remembered(l, k, c)
                  /\ \A j \in 1..x : Remembered(l, j, c) => l[j].id <= d[c].id
    <2>1. CASE d[c] = Nil /\ \A j \in 1..(x - 1) : ~ Remembered(l, j, c)
      <3>1. ~ Remembered(l, x, c)
        BY <2>1, <1>3 DEF Remembered
      <3> QED
        BY <2>1, <3>1, <1>0
    <2>2. CASE /\ \E k \in 1..(x - 1) : l[k] = d[c] /\ Remembered(l, k, c)
               /\ \A j \in 1..(x - 1) : Remembered(l, j, c) => l[j].id <= d[c].id
      <3>1. Remembered(l, x, c) => l[x].id <= d[c].id
        <4>1. Remembered(l, x, c) => l[x].id = d[c].id
          BY DEF Remembered
        <4> QED
          BY <4>1, <1>3
      <3>2. \A j \in 1..x : Remembered(l, j, c) => l[j].id <= d[c].id
        BY <2>2, <3>1, <1>0
      <3>3. \E k \in 1..x : l[k] = d[c] /\ Remembered(l, k, c)
        BY <2>2, <1>1
      <3> QED
        BY <3>2, <3>3
    <2> QED
      BY <2>1, <2>2 DEF DedupAt
  <1> QED
    BY <1>4 DEF DedupAt

LEMMA DedupNext ==
    ASSUME NEW l \in Seq(Request), Ordered(l), NEW x \in 1..Len(l), NEW d \in Dedup, DedupAt(d, l, x - 1),
           l[x].args.op # "Query", NEW e, e = [d EXCEPT ![l[x].client] = l[x]]
    PROVE  DedupAt(e, l, x)
  <1>0. Len(l) \in Nat /\ x \in Nat /\ x \in 1..x /\ \A j \in 1..x : j \in 1..Len(l) /\ (j = x \/ (j \in 1..(x - 1) /\ j < x))
    OBVIOUS
  <1>1. l[x] \in Request
    OBVIOUS
  <1>2. l[x].client \in Client /\ l[x].id \in Nat
    BY <1>1 DEF Request
  <1>3. ASSUME NEW c \in Client
        PROVE  \/ e[c] = Nil /\ \A j \in 1..x : ~ Remembered(l, j, c)
               \/ /\ \E k \in 1..x : l[k] = e[c] /\ Remembered(l, k, c)
                  /\ \A j \in 1..x : Remembered(l, j, c) => l[j].id <= e[c].id
    <2>1. CASE c = l[x].client
      <3>1. e[c] = l[x] /\ Remembered(l, x, c)
        BY <2>1, <1>2 DEF Dedup, Remembered
      <3>2. \A j \in 1..x : Remembered(l, j, c) => l[j].id <= l[x].id
        BY <2>1, <1>0, <1>2 DEF Ordered, Remembered
      <3> QED
        BY <3>1, <3>2, <1>0
    <2>2. CASE c # l[x].client
      <3>1. e[c] = d[c] /\ ~ Remembered(l, x, c)
        BY <2>2 DEF Dedup, Remembered
      <3>2. \/ d[c] = Nil /\ \A j \in 1..(x - 1) : ~ Remembered(l, j, c)
            \/ /\ \E k \in 1..(x - 1) : l[k] = d[c] /\ Remembered(l, k, c)
               /\ \A j \in 1..(x - 1) : Remembered(l, j, c) => l[j].id <= d[c].id
        BY DEF DedupAt
      <3>3. \A k \in 1..(x - 1) : k \in 1..x
        BY <1>0
      <3> QED
        BY <3>1, <3>2, <3>3, <1>0
    <2> QED
      BY <2>1, <2>2
  <1> QED
    BY <1>3 DEF DedupAt

LEMMA AgreesApplied ==
    ASSUME TypeOK, Numbered, AgreeInv, NEW i \in Server, NEW x, NEW a, Delivers(i, x, a)
    PROVE  /\ Agrees(a.configs, a.dedup, After(log, from[i]), x - from[i])
           /\ IsPrefix(configs[i], a.configs)
           /\ Duplicate(dedup[i], log[x]) => ~ First(log, x)
  <1> DEFINE n == next[i] - from[i]
             y == x - from[i]
  <1>0. PICK l : l = After(log, from[i])
    OBVIOUS
  <1>1. /\ l \in Seq(Request) /\ Ordered(l) /\ configs[i] \in Configs /\ dedup[i] \in Dedup /\ n \in Nat
        /\ Len(l) \in Nat
    <2>1. /\ log \in Seq(Request) /\ Len(log) \in Nat /\ from[i] \in Nat /\ next[i] \in Nat
          /\ from[i] <= next[i] /\ next[i] <= Len(log) /\ configs[i] \in Configs /\ dedup[i] \in Dedup
      BY ServerTyped
    <2>2. Ordered(log)
      BY DEF Numbered
    <2>3. from[i] <= Len(log) /\ n \in Nat
      BY <2>1
    <2>4. l \in Seq(Request) /\ Ordered(l)
      BY <1>0, <2>1, <2>2, <2>3, AfterIs, AfterOrdered
    <2> QED
      BY <2>1, <2>3, <2>4
  <1>2. y \in 1..Len(l) /\ y = n + 1 /\ y - 1 = n /\ y <= Len(l) /\ l[y] = log[x]
    <2>1. /\ log \in Seq(Request) /\ Len(log) \in Nat /\ from[i] \in Nat /\ next[i] \in Nat
          /\ from[i] <= next[i] /\ next[i] <= Len(log) /\ x = next[i] + 1 /\ x <= Len(log)
      BY ServerTyped DEF Delivers
    <2>2. from[i] <= Len(log) /\ y = n + 1 /\ y - 1 = n /\ y \in 1..(Len(log) - from[i]) /\ y + from[i] = x
      BY <2>1
    <2>3. Len(l) = Len(log) - from[i] /\ \A k \in 1..(Len(log) - from[i]) : l[k] = log[k + from[i]]
      BY <1>0, <2>1, <2>2, AfterIs
    <2>4. l[y] = log[x]
      <3>1. l[y] = log[y + from[i]]
        BY <2>2, <2>3
      <3> QED
        BY <3>1, <2>2
    <2>5. y \in 1..Len(l) /\ y <= Len(l)
      <3>1. y \in 1..Len(l) /\ Len(l) \in Nat
        BY <1>1, <2>2, <2>3
      <3> HIDE DEF y
      <3> QED
        BY <3>1
    <2> QED
      BY <2>2, <2>4, <2>5
  <1>3. DedupAt(dedup[i], l, y - 1) /\ configs[i] = History(l)[n]
    BY <1>0, <1>2 DEF Agrees, AgreeInv
  <1>8. ~ First(l, y) => (log[x].args.op = "Query" \/ ~ First(log, x))
    <2>1. SUFFICES ASSUME NEW k \in 1..(y - 1), l[k] = l[y] PROVE ~ First(log, x)
      BY <1>2 DEF First
    <2>2. /\ log \in Seq(Request) /\ Len(log) \in Nat /\ from[i] \in Nat /\ x \in Nat /\ x <= Len(log) /\ from[i] <= Len(log)
      BY ServerTyped DEF Delivers
    <2>3. k \in 1..(Len(log) - from[i]) /\ k + from[i] \in 1..(x - 1)
      BY <2>2
    <2>4. l[k] = log[k + from[i]]
      BY <1>0, <2>2, <2>3, AfterIs
    <2> QED
      BY <2>1, <2>3, <2>4, <1>2 DEF First
  <1> HIDE DEF n, y
  <1>4. History(l)[y] = Counted(l, y, configs[i]) /\ IsPrefix(configs[i], Counted(l, y, configs[i]))
    BY <1>1, <1>2, <1>3, HistoryIs, CountedIs
  <1>5. ASSUME Duplicate(dedup[i], l[y]) /\ a = [configs |-> configs[i], dedup |-> dedup[i], lastApplied |-> lastApplied[i]]
        PROVE  Agrees(a.configs, a.dedup, l, y) /\ IsPrefix(configs[i], a.configs)
    <2>1. l[y].args.op # "Query" /\ dedup[i][l[y].client] = l[y]
      BY <1>5 DEF Duplicate
    <2>2. ~ First(l, y)
      BY <2>1, <1>1, <1>2, <1>3, <1>5, DuplicateIs
    <2>3. History(l)[y] = configs[i] /\ a.configs = configs[i] /\ a.dedup = dedup[i]
      BY <2>2, <1>4, <1>5 DEF Counted
    <2>4. DedupAt(dedup[i], l, y)
      BY <2>1, <1>1, <1>2, <1>3, DedupKept
    <2> QED
      BY <2>2, <2>3, <2>4, <1>4 DEF Agrees, Counted
  <1>6. ASSUME l[y].args.op = "Query" /\ a = [configs |-> configs[i], dedup |-> dedup[i], lastApplied |-> x]
        PROVE  Agrees(a.configs, a.dedup, l, y) /\ IsPrefix(configs[i], a.configs)
    <2>1. ~ First(l, y)
      BY <1>6 DEF First
    <2>2. History(l)[y] = configs[i] /\ a.configs = configs[i] /\ a.dedup = dedup[i]
      BY <2>1, <1>4, <1>6 DEF Counted
    <2>3. DedupAt(dedup[i], l, y)
      BY <1>1, <1>2, <1>3, <1>6, DedupKept
    <2> QED
      BY <2>1, <2>2, <2>3, <1>4 DEF Agrees, Counted
  <1>7. ASSUME /\ l[y].args.op # "Query" /\ ~ Duplicate(dedup[i], l[y])
               /\ a = [configs |-> Append(configs[i], Changed(conf(configs[i]), l[y].args)),
                       dedup |-> [dedup[i] EXCEPT ![l[y].client] = l[y]], lastApplied |-> x]
        PROVE  Agrees(a.configs, a.dedup, l, y) /\ IsPrefix(configs[i], a.configs)
    <2>1. First(l, y)
      BY <1>1, <1>2, <1>3, <1>7, DuplicateIs
    <2>2. /\ a.configs = Append(configs[i], Changed(conf(configs[i]), l[y].args))
          /\ a.dedup = [dedup[i] EXCEPT ![l[y].client] = l[y]]
      BY <1>7
    <2>3. a.configs = Counted(l, y, configs[i])
      BY <2>1, <2>2 DEF Counted
    <2>4. DedupAt(a.dedup, l, y)
      BY <2>2, <1>1, <1>2, <1>3, <1>7, DedupNext
    <2> QED
      BY <2>3, <2>4, <1>4 DEF Agrees
  <1>9. Agrees(a.configs, a.dedup, l, y) /\ IsPrefix(configs[i], a.configs)
    BY <1>2, <1>5, <1>6, <1>7 DEF Delivers, AppliesTo
  <1>10. ASSUME Duplicate(dedup[i], log[x]) PROVE ~ First(log, x)
    <2>1. l[y].args.op # "Query" /\ Duplicate(dedup[i], l[y])
      BY <1>2, <1>10 DEF Duplicate
    <2>2. ~ First(l, y)
      BY <2>1, <1>1, <1>2, <1>3, DuplicateIs
    <2> QED
      BY <2>1, <2>2, <1>2, <1>8
  <1> QED
    BY <1>0, <1>9, <1>10 DEF y

(* The state and the snapshot of a server are of the history.                *)
AgreesAt(cs, d, n, f, s) ==
    /\ Agrees(cs, d, After(log, f), n - f)
    /\ s.index > 0 => Agrees(s.configs, s.dedup, After(log, s.from), s.index - s.from)

LEMMA AgreeInit == Init => AgreeInv
  <1> SUFFICES ASSUME Init, NEW i \in Server PROVE AgreesAt(configs[i], dedup[i], next[i], from[i], persister[i])
    BY DEF AgreeInv, AgreesAt
  <1>1. /\ configs[i] = StartConfigs /\ dedup[i] = NoDedup /\ next[i] = 0 /\ persister[i].index = 0
        /\ from[i] = 0 /\ log \in Seq(Request)
    BY DEF Init
  <1>2. After(log, 0) \in Seq(Request) /\ 0 - 0 = 0
    BY <1>1, AfterIs
  <1>3. Agrees(StartConfigs, NoDedup, After(log, 0), 0)
    BY <1>2, AgreesStart
  <1>4. Agrees(configs[i], dedup[i], After(log, from[i]), next[i] - from[i])
    BY <1>1, <1>2, <1>3
  <1> QED
    BY <1>1, <1>4 DEF AgreesAt

(* A step that leaves one server changed, with a state and a snapshot that   *)
(* are of the history.                                                       *)
LEMMA AgreeOne ==
    ASSUME TypeOK, AgreeInv, NEW i \in Server, NEW cs, NEW d, NEW n, NEW f, NEW s, log' = log,
           configs' = [configs EXCEPT ![i] = cs], dedup' = [dedup EXCEPT ![i] = d], next' = [next EXCEPT ![i] = n],
           from' = [from EXCEPT ![i] = f], persister' = [persister EXCEPT ![i] = s], AgreesAt(cs, d, n, f, s)
    PROVE  AgreeInv'
  <1> SUFFICES ASSUME NEW j \in Server PROVE AgreesAt(configs'[j], dedup'[j], next'[j], from'[j], persister'[j])
    BY DEF AgreeInv, AgreesAt
  <1>1. CASE j = i
    <2>1. configs'[j] = cs /\ dedup'[j] = d /\ next'[j] = n /\ from'[j] = f /\ persister'[j] = s
      BY <1>1 DEF TypeOK
    <2> QED
      BY <2>1
  <1>2. CASE j # i
    <2>1. /\ configs'[j] = configs[j] /\ dedup'[j] = dedup[j] /\ next'[j] = next[j] /\ from'[j] = from[j]
          /\ persister'[j] = persister[j]
      BY <1>2 DEF TypeOK
    <2> QED
      BY <2>1 DEF AgreeInv, AgreesAt
  <1> QED
    BY <1>1, <1>2

(* A longer log leaves what a server holds of the history.                   *)
LEMMA AgreesAfter ==
    ASSUME NEW cs, NEW d, NEW l \in Seq(Request), NEW r \in Request, NEW n \in Nat, NEW f \in Nat, f <= n, n <= Len(l),
           Agrees(cs, d, After(l, f), n - f)
    PROVE  Agrees(cs, d, After(Append(l, r), f), n - f)
  <1>1. Len(l) \in Nat /\ f <= Len(l) /\ n - f \in Nat /\ n - f <= Len(l) - f
    OBVIOUS
  <1>2. After(l, f) \in Seq(Request) /\ Len(After(l, f)) = Len(l) - f
    BY <1>1, AfterIs
  <1>3. n - f <= Len(After(l, f))
    BY <1>1, <1>2
  <1>4. Agrees(cs, d, Append(After(l, f), r), n - f)
    BY <1>1, <1>2, <1>3, AgreesLonger
  <1> QED
    BY <1>1, <1>4, AfterLonger

LEMMA AgreeStep == TypeOK /\ Numbered /\ AgreeInv /\ [Next]_vars => AgreeInv'
  <1> SUFFICES ASSUME TypeOK, Numbered, AgreeInv, [Next]_vars PROVE AgreeInv'
    OBVIOUS
  <1>1. CASE UNCHANGED <<log, stateVars, next, persister, from>>
    BY <1>1 DEF AgreeInv, stateVars
  <1>2. ASSUME NEW c \in Client, NEW o \in Operation, Call(c, o) PROVE AgreeInv'
    BY <1>2, <1>1 DEF Call
  <1>3. ASSUME NEW c \in Client, Return(c) PROVE AgreeInv'
    BY <1>3, <1>1 DEF Return
  <1>4. ASSUME NEW c \in Client, Command(c) PROVE AgreeInv'
    <2>1. log' = Append(log, current[c]) /\ current[c] \in Request
      BY <1>4, CommandType
    <2>2. configs' = configs /\ dedup' = dedup /\ next' = next /\ persister' = persister /\ from' = from
      BY <1>4 DEF Command, stateVars
    <2>3. ASSUME NEW i \in Server
          PROVE  /\ Agrees(configs[i], dedup[i], After(log', from[i]), next[i] - from[i])
                 /\ persister[i].index > 0 =>
                      Agrees(persister[i].configs, persister[i].dedup, After(log', persister[i].from),
                             persister[i].index - persister[i].from)
      <3>1. /\ next[i] \in Nat /\ next[i] <= Len(log) /\ log \in Seq(Request) /\ persister[i].index \in Nat
            /\ persister[i].index <= Len(log) /\ from[i] \in Nat /\ from[i] <= next[i]
            /\ persister[i].from \in Nat /\ persister[i].from <= persister[i].index
        BY ServerTyped
      <3>2. Agrees(configs[i], dedup[i], After(log', from[i]), next[i] - from[i])
        BY <2>1, <3>1, AgreesAfter DEF AgreeInv
      <3>3. ASSUME persister[i].index > 0
            PROVE  Agrees(persister[i].configs, persister[i].dedup, After(log', persister[i].from),
                          persister[i].index - persister[i].from)
        BY <2>1, <3>1, <3>3, AgreesAfter DEF AgreeInv
      <3> QED
        BY <3>2, <3>3
    <2> QED
      BY <2>2, <2>3 DEF AgreeInv
  <1>5. ASSUME NEW i \in Server, DoApply(i) PROVE AgreeInv'
    <2>1. PICK x, a : Delivers(i, x, a)
      BY <1>5, DoApplyDelivers
    <2>2. PICK s : /\ persister' = [persister EXCEPT ![i] = s]
                   /\ s = persister[i] \/ s = [index |-> x, configs |-> a.configs, dedup |-> a.dedup, from |-> from[i]]
      <3>1. persister = [persister EXCEPT ![i] = persister[i]]
        BY DEF TypeOK
      <3> QED
        BY <2>1, <3>1 DEF Delivers
    <2>3. /\ log' = log /\ from' = [from EXCEPT ![i] = from[i]] /\ configs' = [configs EXCEPT ![i] = a.configs]
          /\ dedup' = [dedup EXCEPT ![i] = a.dedup] /\ next' = [next EXCEPT ![i] = x]
      BY <2>1 DEF Delivers, TypeOK
    <2>4. AgreesAt(a.configs, a.dedup, x, from[i], s)
      <3>1. Agrees(a.configs, a.dedup, After(log, from[i]), x - from[i])
        BY <2>1, AgreesApplied
      <3>2. CASE s = persister[i]
        BY <3>1, <3>2 DEF AgreeInv, AgreesAt
      <3>3. CASE s = [index |-> x, configs |-> a.configs, dedup |-> a.dedup, from |-> from[i]]
        BY <3>1, <3>3 DEF AgreesAt
      <3> QED
        BY <3>2, <3>3, <2>2
    <2> QED
      BY <2>2, <2>3, <2>4, AgreeOne
  <1>6. ASSUME NEW i \in Server, StartServer(i) PROVE AgreeInv'
    <2>1. PICK n : n = persister[i].index
      OBVIOUS
    <2>2. /\ configs' = [configs EXCEPT ![i] = StartConfigs] /\ dedup' = [dedup EXCEPT ![i] = NoDedup]
          /\ next' = [next EXCEPT ![i] = n] /\ log' = log
          /\ from' = [from EXCEPT ![i] = n] /\ persister' = [persister EXCEPT ![i] = persister[i]]
      BY <1>6, <2>1 DEF StartServer, ResumeIndex, TypeOK
    <2>3. n \in Nat /\ n <= Len(log) /\ log \in Seq(Request) /\ n - n = 0
      BY <2>1, ServerTyped
    <2>4. Agrees(StartConfigs, NoDedup, After(log, n), n - n)
      BY <2>3, AfterIs, AgreesStart
    <2>5. AgreesAt(StartConfigs, NoDedup, n, n, persister[i])
      BY <2>4 DEF AgreeInv, AgreesAt
    <2> QED
      BY <2>2, <2>5, AgreeOne
  <1>7. ASSUME NEW i \in Server, NEW j \in Server, InstallSnapshot(i, j) PROVE AgreeInv'
    <2>1. PICK s : s = persister[j]
      OBVIOUS
    <2>2. /\ s.index > 0 /\ next' = [next EXCEPT ![i] = s.index] /\ configs' = [configs EXCEPT ![i] = s.configs]
          /\ dedup' = [dedup EXCEPT ![i] = s.dedup] /\ persister' = [persister EXCEPT ![i] = s] /\ log' = log
          /\ from' = [from EXCEPT ![i] = s.from]
      BY <1>7, <2>1 DEF InstallSnapshot, readSnapshot
    <2>3. AgreesAt(s.configs, s.dedup, s.index, s.from, s)
      BY <2>1, <2>2 DEF AgreeInv, AgreesAt
    <2> QED
      BY <2>2, <2>3, AgreeOne
  <1>8. CASE UNCHANGED vars
    BY <1>8, <1>1 DEF vars
  <1> QED
    BY <1>2, <1>3, <1>4, <1>5, <1>6, <1>7, <1>8 DEF Next

CtrlerInv == TypeOK /\ Numbered /\ AgreeInv

LEMMA CtrlerInductive == (Init => CtrlerInv) /\ (CtrlerInv /\ [Next]_vars => CtrlerInv')
  <1>1. Init => CtrlerInv
    BY TypeInit, NumberedInit, AgreeInit DEF CtrlerInv
  <1>2. CtrlerInv /\ [Next]_vars => CtrlerInv'
    BY TypeStep, NumberedStep, AgreeStep DEF CtrlerInv
  <1> QED
    BY <1>1, <1>2

(* Every replica holds the configurations of the commands it was given since *)
(* from, each request counted once, however often it is in the log, whether  *)
(* the replica applied it or installed a snapshot: all of them where from is *)
(* 0, those after the snapshot once a server has restarted past one.         *)
THEOREM CtrlersAgree == Spec => []ReplicasAgree
  <1>1. CtrlerInv => ReplicasAgree
    BY DEF CtrlerInv, AgreeInv, Agrees, ReplicasAgree
  <1> QED
    BY <1>1, CtrlerInductive, PTL DEF Spec

(* The configurations a replica answered with stay what they were, except    *)
(* when that replica restarts or installs a snapshot whose configurations    *)
(* begin after another index than its own.                                   *)
THEOREM AnswersStay == Spec => AnswersStand
  <1> DEFINE Exempt(i) == StartServer(i) \/ \E j \in Server : InstallSnapshot(i, j) /\ persister[j].from # from[i]
             A == \A i \in Server : IsPrefix(configs[i], configs'[i]) \/ Exempt(i)
  <1>1. CtrlerInv /\ [Next]_vars => [A]_vars
    <2> SUFFICES ASSUME CtrlerInv, Next, NEW i \in Server, ~ Exempt(i)
                 PROVE  IsPrefix(configs[i], configs'[i])
      OBVIOUS
    <2>0. TypeOK /\ Numbered /\ AgreeInv
      BY DEF CtrlerInv
    <2>1. /\ configs[i] \in Configs /\ next[i] \in Nat /\ next[i] <= Len(log) /\ log \in Seq(Request) /\ Len(log) \in Nat
          /\ from[i] \in Nat /\ from[i] <= next[i]
      BY <2>0, ServerTyped
    <2>2. CASE configs'[i] = configs[i]
      BY <2>1, <2>2 DEF IsPrefix, Configs
    <2>3. ASSUME NEW j \in Server, DoApply(j) PROVE IsPrefix(configs[i], configs'[i])
      <3>1. PICK x, a : Delivers(j, x, a)
        BY <2>0, <2>3, DoApplyDelivers
      <3>2. configs' = [configs EXCEPT ![j] = a.configs]
        BY <3>1 DEF Delivers
      <3>3. CASE i = j
        <4>1. IsPrefix(configs[i], a.configs)
          BY <2>0, <3>1, <3>3, AgreesApplied
        <4> QED
          BY <4>1, <3>2, <3>3, <2>0 DEF TypeOK
      <3>4. CASE i # j
        BY <3>2, <3>4, <2>0, <2>2 DEF TypeOK
      <3> QED
        BY <3>3, <3>4
    <2>4. ASSUME NEW k \in Server, NEW j \in Server, InstallSnapshot(k, j) PROVE IsPrefix(configs[i], configs'[i])
      <3>1. PICK s : s = persister[j]
        OBVIOUS
      <3>2. /\ s.index > 0 /\ ~ (s.index < next[k]) /\ configs' = [configs EXCEPT ![k] = s.configs]
        BY <2>4, <3>1 DEF InstallSnapshot, readSnapshot, Outdated
      <3>3. CASE i = k
        <4>1. s.from = from[i]
          BY <2>4, <3>1, <3>3
        <4>2. PICK f, l : f = from[i] /\ f \in Nat /\ l = After(log, f)
          BY <2>1
        <4>3. configs[i] = History(l)[next[i] - f] /\ s.configs = History(l)[s.index - f]
          BY <4>1, <4>2, <2>0, <3>1, <3>2 DEF AgreeInv, Agrees
        <4>4. s.index \in Nat /\ s.index <= Len(log)
          BY <2>0, <3>1, ServerTyped
        <4>5. f <= Len(log) /\ f <= next[i] /\ f \in Nat
          BY <4>2, <2>1
        <4>6. l \in Seq(Request) /\ Len(l) = Len(log) - f
          BY <4>2, <4>5, <2>1, AfterIs
        <4>7. next[i] - f \in 0..Len(l) /\ s.index - f \in 0..Len(l) /\ next[i] - f <= s.index - f
          BY <4>4, <4>5, <4>6, <3>2, <3>3, <2>1
        <4>8. IsPrefix(History(l)[next[i] - f], History(l)[s.index - f])
          BY <4>6, <4>7, HistoryGrows
        <4> QED
          BY <4>3, <4>8, <3>2, <3>3, <2>0 DEF TypeOK
      <3>4. CASE i # k
        BY <3>2, <3>4, <2>0, <2>2 DEF TypeOK
      <3> QED
        BY <3>3, <3>4
    <2>5. ASSUME NEW j \in Server, StartServer(j) PROVE IsPrefix(configs[i], configs'[i])
      <3>1. i # j
        BY <2>5
      <3>2. configs' = [configs EXCEPT ![j] = StartConfigs]
        BY <2>5 DEF StartServer
      <3> QED
        BY <3>1, <3>2, <2>0, <2>2 DEF TypeOK
    <2>6. ASSUME NEW c \in Client, NEW o \in Operation, Call(c, o) PROVE IsPrefix(configs[i], configs'[i])
      BY <2>6, <2>2 DEF Call, stateVars
    <2>7. ASSUME NEW c \in Client, Command(c) \/ Return(c) PROVE IsPrefix(configs[i], configs'[i])
      BY <2>7, <2>2 DEF Command, Return, stateVars
    <2> QED
      BY <2>3, <2>4, <2>5, <2>6, <2>7 DEF Next
  <1>2. ASSUME [A]_vars
        PROVE  [\A i \in Server :
                  \/ IsPrefix(configs[i], configs'[i])
                  \/ StartServer(i)
                  \/ \E j \in Server : InstallSnapshot(i, j) /\ persister[j].from # from[i]]_vars
    BY <1>2
  <1> HIDE DEF A
  <1>3. Spec => [][A]_vars
    BY <1>1, CtrlerInductive, PTL DEF Spec
  <1> QED
    BY <1>2, <1>3, PTL DEF AnswersStand

-----------------------------------------------------------------------------
(* Where the shards are.                                                     *)

(* Command k of l moves shard s to group g, and none up to n that counts     *)
(* removes the group.                                                        *)
MovesTo(l, k, n, s, g) ==
    /\ l[k].args.op = "Move" /\ l[k].args.to = [shard |-> s, gid |-> g]
    /\ \A j \in (k + 1)..n : First(l, j) /\ l[j].args.op = "Leave" => g \notin l[j].args.gids

(* Shards of c out of place were moved there by one of n commands of l.      *)
Owned(c, l, n) == \A s \in Shard : Placed(c, s) \/ \E k \in 1..n : MovesTo(l, k, n, s, c.shards[s])

(* That holds of every replica and of every snapshot, which a replica may    *)
(* have to live with.                                                        *)
OwnedInv ==
    \A i \in Server :
        /\ Owned(Last(configs[i]), log, next[i])
        /\ persister[i].index > 0 => Owned(Last(persister[i].configs), log, persister[i].index)

(* A Move still stands after a command that is no first Leave of its group.  *)
LEMMA MovesLater ==
    ASSUME NEW l, NEW x \in Nat, NEW n \in Nat, x = n + 1, NEW k \in 1..n, NEW s, NEW g, MovesTo(l, k, n, s, g),
           First(l, x) /\ l[x].args.op = "Leave" => g \notin l[x].args.gids
    PROVE  k \in 1..x /\ MovesTo(l, k, x, s, g)
  <1>1. k \in 1..x /\ \A j \in (k + 1)..x : j = x \/ j \in (k + 1)..n
    OBVIOUS
  <1>2. \A j \in (k + 1)..x : First(l, j) /\ l[j].args.op = "Leave" => g \notin l[j].args.gids
    BY <1>1 DEF MovesTo
  <1> QED
    BY <1>1, <1>2 DEF MovesTo

LEMMA OwnedLater ==
    ASSUME NEW c, NEW l, NEW n \in Nat, NEW x \in Nat, x = n + 1, Owned(c, l, n),
           ~ (First(l, x) /\ l[x].args.op = "Leave")
    PROVE  Owned(c, l, x)
  <1> SUFFICES ASSUME NEW s \in Shard, ~ Placed(c, s) PROVE \E k \in 1..x : MovesTo(l, k, x, s, c.shards[s])
    BY DEF Owned
  <1>1. PICK k \in 1..n : MovesTo(l, k, n, s, c.shards[s])
    BY DEF Owned
  <1>2. k \in 1..x /\ MovesTo(l, k, x, s, c.shards[s])
    BY <1>1, MovesLater
  <1> QED
    BY <1>2

LEMMA OwnedLonger ==
    ASSUME NEW c, NEW l \in Seq(Request), NEW r \in Request, NEW n \in Nat, n <= Len(l), Owned(c, l, n)
    PROVE  Owned(c, Append(l, r), n)
  <1>1. PICK m : m = Append(l, r)
    OBVIOUS
  <1>2. \A k \in 1..n : m[k] = l[k]
    <2>1. \A k \in 1..Len(l) : m[k] = l[k]
      BY <1>1
    <2>2. 1..n \subseteq 1..Len(l)
      OBVIOUS
    <2> QED
      BY <2>1, <2>2
  <1>3. ASSUME NEW j \in 1..n PROVE First(m, j) <=> First(l, j)
    <2>1. \A k \in 1..(j - 1) : k \in 1..n
      OBVIOUS
    <2> QED
      BY <2>1, <1>2 DEF First
  <1>4. ASSUME NEW k \in 1..n, NEW s, NEW g, MovesTo(l, k, n, s, g) PROVE MovesTo(m, k, n, s, g)
    <2>1. \A j \in (k + 1)..n : j \in 1..n
      OBVIOUS
    <2> QED
      BY <2>1, <1>2, <1>3, <1>4 DEF MovesTo
  <1>5. Owned(c, m, n)
    BY <1>4 DEF Owned
  <1> QED
    BY <1>1, <1>5

LEMMA OwnedStart ==
    ASSUME NEW l, NEW n
    PROVE  Owned(Last(StartConfigs), l, n)
  <1>1. Last(StartConfigs) = EmptyConfig
    BY StartIs
  <1>2. \A s \in Shard : Placed(EmptyConfig, s)
    BY DEF Placed, EmptyConfig
  <1> QED
    BY <1>1, <1>2 DEF Owned

LEMMA OwnedApplied ==
    ASSUME CtrlerInv, OwnedInv, NEW i \in Server, NEW x, NEW a, Delivers(i, x, a)
    PROVE  Owned(Last(a.configs), log, x)
  <1>1. configs[i] \in Configs /\ next[i] \in Nat /\ x \in Nat /\ next[i] <= x /\ x = next[i] + 1 /\ x \in 1..x
    BY ServerTyped DEF Delivers, CtrlerInv
  <1>2. Owned(Last(configs[i]), log, next[i])
    BY DEF OwnedInv
  <1>3. Duplicate(dedup[i], log[x]) => ~ First(log, x)
    BY AgreesApplied DEF CtrlerInv
  <1>4. CASE a.configs = configs[i] /\ (Duplicate(dedup[i], log[x]) \/ log[x].args.op = "Query")
    <2>1. ~ (First(log, x) /\ log[x].args.op = "Leave")
      BY <1>3, <1>4
    <2> QED
      BY <2>1, <1>1, <1>2, <1>4, OwnedLater
  <1>5. CASE /\ log[x].args.op # "Query"
             /\ a.configs = Append(configs[i], Changed(conf(configs[i]), log[x].args))
    <2>1. PICK c, d, o : c = conf(configs[i]) /\ o = log[x].args /\ d = Changed(c, o)
      OBVIOUS
    <2>2. c \in Config /\ o \in Operation /\ c.shards = Last(configs[i]).shards /\ c.groups = Last(configs[i]).groups
      <3>1. log[x] \in Request
        BY DEF Delivers
      <3>2. o \in Operation
        BY <2>1, <3>1 DEF Request
      <3> QED
        BY <2>1, <3>2, <1>1, ConfIs
    <2>3. MakesOf(c, o, d)
      BY <2>1, <2>2, <1>5, ChangedMakes
    <2>4. Last(a.configs) = d
      BY <2>1, <2>3, <1>1, <1>5, ExtendedIs DEF MakesOf
    <2>5. ASSUME NEW s \in Shard
          PROVE  Placed(d, s) \/ \E k \in 1..x : MovesTo(log, k, x, s, d.shards[s])
      <3>1. CASE Placed(d, s)
        BY <3>1
      <3>2. CASE d.shards[s] = c.shards[s] /\ ~ Placed(c, s) /\ (o.op = "Leave" => c.shards[s] \notin o.gids)
        <4>1. ~ Placed(Last(configs[i]), s) /\ d.shards[s] = Last(configs[i]).shards[s]
          BY <2>2, <3>2 DEF Placed
        <4>2. PICK k \in 1..next[i] : MovesTo(log, k, next[i], s, d.shards[s])
          BY <4>1, <1>2 DEF Owned
        <4>3. log[x].args.op = "Leave" => d.shards[s] \notin log[x].args.gids
          BY <3>2, <2>1
        <4>4. k \in 1..x /\ MovesTo(log, k, x, s, d.shards[s])
          BY <4>2, <4>3, <1>1, MovesLater
        <4> QED
          BY <4>4
      <3>3. CASE o.op = "Move" /\ o.to = [shard |-> s, gid |-> d.shards[s]]
        <4>1. (x + 1)..x = {}
          BY <1>1
        <4>2. MovesTo(log, x, x, s, d.shards[s])
          BY <4>1, <3>3, <2>1 DEF MovesTo
        <4> QED
          BY <4>2, <1>1
      <3> QED
        BY <3>1, <3>2, <3>3, <2>3 DEF MakesOf
    <2>6. Owned(d, log, x)
      BY <2>5 DEF Owned
    <2> QED
      BY <2>4, <2>6
  <1>6. \/ a.configs = configs[i] /\ (Duplicate(dedup[i], log[x]) \/ log[x].args.op = "Query")
        \/ /\ log[x].args.op # "Query"
           /\ a.configs = Append(configs[i], Changed(conf(configs[i]), log[x].args))
    BY DEF Delivers, AppliesTo
  <1> QED
    BY <1>4, <1>5, <1>6

LEMMA OwnedInit == Init => OwnedInv
  <1> SUFFICES ASSUME Init, NEW i \in Server
               PROVE  /\ Owned(Last(configs[i]), log, next[i])
                      /\ persister[i].index > 0 => Owned(Last(persister[i].configs), log, persister[i].index)
    BY DEF OwnedInv
  <1>1. configs[i] = StartConfigs /\ persister[i].index = 0
    BY DEF Init
  <1> QED
    BY <1>1, OwnedStart

LEMMA OwnedStep == CtrlerInv /\ OwnedInv /\ [Next]_vars => OwnedInv'
  <1> SUFFICES ASSUME CtrlerInv, TypeOK, OwnedInv, [Next]_vars PROVE OwnedInv'
    BY DEF CtrlerInv
  <1>1. CASE UNCHANGED <<log, configs, next, persister>>
    BY <1>1 DEF OwnedInv
  <1>2. ASSUME NEW c \in Client, Command(c) PROVE OwnedInv'
    <2>1. log' = Append(log, current[c]) /\ current[c] \in Request
      BY <1>2, CommandType
    <2>2. configs' = configs /\ next' = next /\ persister' = persister
      BY <1>2 DEF Command, stateVars
    <2>3. ASSUME NEW i \in Server
          PROVE  /\ Owned(Last(configs[i]), log', next[i])
                 /\ persister[i].index > 0 => Owned(Last(persister[i].configs), log', persister[i].index)
      <3>1. /\ next[i] \in Nat /\ next[i] <= Len(log) /\ log \in Seq(Request) /\ persister[i].index \in Nat
            /\ persister[i].index <= Len(log)
        BY ServerTyped
      <3>2. Owned(Last(configs[i]), log', next[i])
        BY <2>1, <3>1, OwnedLonger DEF OwnedInv
      <3>3. ASSUME persister[i].index > 0 PROVE Owned(Last(persister[i].configs), log', persister[i].index)
        BY <2>1, <3>1, <3>3, OwnedLonger DEF OwnedInv
      <3> QED
        BY <3>2, <3>3
    <2> QED
      BY <2>2, <2>3 DEF OwnedInv
  <1>3. ASSUME NEW i \in Server, DoApply(i) PROVE OwnedInv'
    <2>1. PICK x, a : Delivers(i, x, a)
      BY <1>3, DoApplyDelivers
    <2>2. Owned(Last(a.configs), log, x)
      BY <2>1, OwnedApplied
    <2>3. /\ next' = [next EXCEPT ![i] = x] /\ configs' = [configs EXCEPT ![i] = a.configs] /\ log' = log
          /\ \/ persister' = persister
             \/ persister' = [persister EXCEPT ![i] = [index |-> x, configs |-> a.configs, dedup |-> a.dedup, from |-> from[i]]]
      BY <2>1 DEF Delivers
    <2>4. ASSUME NEW j \in Server
          PROVE  /\ Owned(Last(configs'[j]), log, next'[j])
                 /\ persister'[j].index > 0 => Owned(Last(persister'[j].configs), log, persister'[j].index)
      <3>1. CASE j = i
        <4>1. configs'[j] = a.configs /\ next'[j] = x
          BY <3>1, <2>3 DEF TypeOK
        <4>2. persister'[j] = persister[j] \/ (persister'[j].index = x /\ persister'[j].configs = a.configs)
          BY <3>1, <2>3 DEF TypeOK
        <4> QED
          BY <4>1, <4>2, <2>2 DEF OwnedInv
      <3>2. CASE j # i
        <4>1. configs'[j] = configs[j] /\ next'[j] = next[j] /\ persister'[j] = persister[j]
          BY <3>2, <2>3 DEF TypeOK
        <4> QED
          BY <4>1 DEF OwnedInv
      <3> QED
        BY <3>1, <3>2
    <2> QED
      BY <2>3, <2>4 DEF OwnedInv
  <1>4. ASSUME NEW i \in Server, StartServer(i) PROVE OwnedInv'
    <2>1. configs' = [configs EXCEPT ![i] = StartConfigs] /\ next' = [next EXCEPT ![i] = persister[i].index] /\ log' = log /\ persister' = persister
      BY <1>4 DEF StartServer, ResumeIndex
    <2>2. ASSUME NEW j \in Server PROVE Owned(Last(configs'[j]), log, next'[j])
      <3>1. CASE j = i
        <4>1. configs'[j] = StartConfigs
          BY <3>1, <2>1 DEF TypeOK
        <4> QED
          BY <4>1, OwnedStart
      <3>2. CASE j # i
        <4>1. configs'[j] = configs[j] /\ next'[j] = next[j]
          BY <3>2, <2>1 DEF TypeOK
        <4> QED
          BY <4>1 DEF OwnedInv
      <3> QED
        BY <3>1, <3>2
    <2> QED
      BY <2>1, <2>2 DEF OwnedInv
  <1>5. ASSUME NEW i \in Server, NEW j \in Server, InstallSnapshot(i, j) PROVE OwnedInv'
    <2>1. PICK s : s = persister[j]
      OBVIOUS
    <2>2. /\ s.index > 0 /\ next' = [next EXCEPT ![i] = s.index] /\ configs' = [configs EXCEPT ![i] = s.configs]
          /\ persister' = [persister EXCEPT ![i] = s] /\ log' = log
      BY <1>5, <2>1 DEF InstallSnapshot, readSnapshot
    <2>3. Owned(Last(s.configs), log, s.index)
      BY <2>1, <2>2 DEF OwnedInv
    <2>4. ASSUME NEW k \in Server
          PROVE  /\ Owned(Last(configs'[k]), log, next'[k])
                 /\ persister'[k].index > 0 => Owned(Last(persister'[k].configs), log, persister'[k].index)
      <3>1. CASE k = i
        <4>1. configs'[k] = s.configs /\ next'[k] = s.index /\ persister'[k] = s
          BY <3>1, <2>2 DEF TypeOK
        <4> QED
          BY <4>1, <2>3
      <3>2. CASE k # i
        <4>1. configs'[k] = configs[k] /\ next'[k] = next[k] /\ persister'[k] = persister[k]
          BY <3>2, <2>2 DEF TypeOK
        <4> QED
          BY <4>1 DEF OwnedInv
      <3> QED
        BY <3>1, <3>2
    <2> QED
      BY <2>2, <2>4 DEF OwnedInv
  <1>6. ASSUME NEW c \in Client, NEW o \in Operation, Call(c, o) PROVE OwnedInv'
    <2>1. UNCHANGED <<log, configs, next, persister>>
      BY <1>6 DEF Call, stateVars
    <2> QED
      BY <2>1, <1>1
  <1>7. ASSUME NEW c \in Client, Return(c) PROVE OwnedInv'
    <2>1. UNCHANGED <<log, configs, next, persister>>
      BY <1>7 DEF Return, stateVars
    <2> QED
      BY <2>1, <1>1
  <1>8. CASE UNCHANGED vars
    <2>1. UNCHANGED <<log, configs, next, persister>>
      BY <1>8 DEF vars, stateVars
    <2> QED
      BY <2>1, <1>1
  <1> QED
    BY <1>2, <1>3, <1>4, <1>5, <1>6, <1>7, <1>8 DEF Next

(* No Join, Leave, snapshot or restart leaves a shard on a group that is not *)
(* in the configuration: only a Move has put it there, and no Leave that     *)
(* names the group has been given to the replica since.                      *)
THEOREM ShardsHaveOwners == Spec => []ShardsOwned
  <1>1. Init => CtrlerInv /\ OwnedInv
    BY CtrlerInductive, OwnedInit
  <1>2. (CtrlerInv /\ OwnedInv) /\ [Next]_vars => (CtrlerInv /\ OwnedInv)'
    BY CtrlerInductive, OwnedStep
  <1>3. OwnedInv => ShardsOwned
    BY DEF OwnedInv, Owned, MovesTo, ShardsOwned, Placed, MovedTo
  <1> QED
    BY <1>1, <1>2, <1>3, PTL DEF Spec
=============================================================================
