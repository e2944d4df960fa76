----------------------------- MODULE RaftProofs -----------------------------
(* The types of Raft's state, the contiguity of its logs and the safety of   *)
(* its elections, for any number of servers and any bounds: facts about the  *)
(* operators on logs, then one lemma per action, then the theorems.  Last,   *)
(* the facts about logs and histories that SafetyProofs builds on.           *)
EXTENDS SafetyInv, FiniteSetTheorems, SequenceTheorems, WellFoundedInduction, TLAPS

(* The minimum of a nonempty set of naturals is in it and below all of it.   *)
LEMMA NatMin ==
    ASSUME NEW S \in SUBSET Nat, S # {}
    PROVE  Min(S) \in S /\ \A y \in S : Min(S) <= y
  <1>1. PICK x \in S : \A y \in S : ~ (<<y, x>> \in OpToRel(<, Nat))
    BY WFMin, NatLessThanWellFounded
  <1>2. ASSUME NEW y \in S, y < x PROVE FALSE
    <2>1. <<y, x>> \in Nat \X Nat
      OBVIOUS
    <2>2. <<y, x>> \in OpToRel(<, Nat)
      BY <2>1, <1>2 DEF OpToRel
    <2> QED
      BY <2>2, <1>1
  <1>3. \A y \in S : x <= y
    BY <1>2
  <1> QED
    BY <1>3 DEF Min

(* The maximum of a nonempty bounded set of naturals is in it and above      *)
(* all of it.                                                                *)
LEMMA NatMax ==
    ASSUME NEW b \in Nat, NEW S \in SUBSET (0..b), S # {}
    PROVE  Max(S) \in S /\ \A y \in S : Max(S) >= y
  <1> DEFINE T == {b - x : x \in S}
  <1>0. \A x \in S : x \in 0..b
    OBVIOUS
  <1>a. T \in SUBSET Nat
    BY <1>0
  <1>b. T # {}
    OBVIOUS
  <1>1. T \in SUBSET Nat /\ T # {}
    BY <1>a, <1>b
  <1>2. PICK m \in T : \A y \in T : m <= y
    BY <1>1, NatMin
  <1>3. PICK x \in S : m = b - x
    BY <1>2
  <1>4. \A y \in S : x >= y
    <2> SUFFICES ASSUME NEW y \in S PROVE x >= y
      OBVIOUS
    <2>1. b - y \in T
      OBVIOUS
    <2> QED
      BY <2>1, <1>2, <1>3
  <1> QED
    BY <1>4 DEF Max
-----------------------------------------------------------------------------
(* What the helpers on logs return.                                          *)

Log == Seq(Entry) \ {<< >>}

(* A log is never empty: its base and its tail are entries of it.            *)
LEMMA LogFacts ==
    ASSUME NEW l \in Log
    PROVE  /\ Len(l) \in Nat \ {0}
           /\ DOMAIN l = 1..Len(l)
           /\ \A k \in 1..Len(l) : l[k] \in Entry /\ l[k].term \in Nat /\ l[k].index \in Nat
           /\ Base(l) \in Nat
           /\ LogTail(l) \in Entry /\ LogTail(l).term \in Nat /\ LogTail(l).index \in Nat
  <1>1. Len(l) \in Nat \ {0} /\ DOMAIN l = 1..Len(l)
    BY EmptySeq, LenProperties DEF Log
  <1>2. \A k \in 1..Len(l) : l[k] \in Entry
    BY ElementOfSeq DEF Log
  <1>3. \A k \in 1..Len(l) : l[k] \in Entry /\ l[k].term \in Nat /\ l[k].index \in Nat
    BY <1>2 DEF Entry
  <1>4. 1 \in 1..Len(l) /\ Len(l) \in 1..Len(l)
    BY <1>1
  <1> QED
    BY <1>1, <1>3, <1>4 DEF Base, LogTail

(* GetLogAtIndex returns an entry of the log, and in a contiguous log the    *)
(* one with the index asked for.                                             *)
LEMMA HasIndexFacts ==
    ASSUME NEW l \in Log, NEW x \in Nat, HasIndex(l, x)
    PROVE  /\ LogIndexToSubscript(l, x) \in 1..Len(l)
           /\ GetLogAtIndex(l, x) \in Entry
           /\ GetLogAtIndex(l, x).term \in Nat /\ GetLogAtIndex(l, x).index \in Nat
           /\ Contiguous(l) => GetLogAtIndex(l, x).index = x
  <1>1. LogIndexToSubscript(l, x) \in 1..Len(l)
    BY LogFacts DEF HasIndex, LogIndexToSubscript
  <1>2. Contiguous(l) => l[LogIndexToSubscript(l, x)].index = Base(l) + LogIndexToSubscript(l, x) - 1
    BY <1>1, LogFacts DEF Contiguous
  <1> QED
    BY <1>1, <1>2, LogFacts DEF GetLogAtIndex, LogIndexToSubscript

(* In a contiguous log the index of the tail is the base plus the length.    *)
LEMMA ContiguousTail ==
    ASSUME NEW l \in Log, Contiguous(l)
    PROVE  LogTail(l).index = Base(l) + Len(l) - 1
  BY LogFacts DEF Contiguous, LogTail

(* What a slice of a log holds; the slice may be empty.                      *)
LEMMA SubSeqOfLog ==
    ASSUME NEW l \in Seq(Entry), NEW m \in Int, NEW n \in Int, m >= 1, n <= Len(l)
    PROVE  /\ SubSeq(l, m, n) \in Seq(Entry)
           /\ Len(SubSeq(l, m, n)) = IF m <= n THEN n - m + 1 ELSE 0
           /\ \A k \in 1..(n - m + 1) : SubSeq(l, m, n)[k] = l[m + k - 1]
  <1>1. \A k \in m..n : l[k] \in Entry
    BY ElementOfSeq, LenProperties
  <1> QED
    BY <1>1, SubSeqProperties

(* Both outcomes of Merge: the log, or a prefix of it followed by the        *)
(* entries from some point on.                                               *)
LEMMA MergeCases ==
    ASSUME NEW l \in Log, NEW es \in Seq(Entry)
    PROVE  \/ Merge(l, es) = l
           \/ \E k \in 1..Len(es) : \E n \in 0..(Len(l) - 1) :
                /\ HasIndex(l, es[k].index)
                /\ n = LogIndexToSubscript(l, es[k].index) - 1
                /\ Merge(l, es) = SubSeq(l, 1, n) \o SubSeq(es, k, Len(es))
           \/ /\ es # << >> /\ LogTail(es).index >= Base(l)
              /\ \A k \in 1..Len(es) : ~ HasIndex(l, es[k].index)
              /\ Merge(l, es) = l \o SubSeq(es, 1, Len(es))
           \/ \E k \in 1..Len(es) :
                /\ HasIndex(l, es[k].index)
                /\ \A j \in 1..Len(es) : j > k => ~ HasIndex(l, es[j].index)
                /\ Merge(l, es) = l \o SubSeq(es, k + 1, Len(es))
  <1> DEFINE present == {k \in DOMAIN es : HasIndex(l, es[k].index)}
             conflict == {k \in present : GetLogAtIndex(l, es[k].index).term # es[k].term}
  <1>1. DOMAIN es = 1..Len(es) /\ Len(es) \in Nat
    BY LenProperties
  <1>0. \A k \in 1..Len(es) : es[k] \in Entry
    BY ElementOfSeq
  <1>2. \A k \in 1..Len(es) : es[k].index \in Nat
    BY <1>0, SMTT(20) DEF Entry
  <1>3. CASE es = << >> \/ LogTail(es).index < Base(l)
    BY <1>3, Zenon DEF Merge
  <1>4. CASE ~ (es = << >> \/ LogTail(es).index < Base(l)) /\ conflict # {}
    <2>1. conflict \in SUBSET Nat
      BY <1>1
    <2>2. Min(conflict) \in conflict
      BY <2>1, <1>4, NatMin, Zenon
    <2>3. Min(conflict) \in 1..Len(es) /\ HasIndex(l, es[Min(conflict)].index)
      BY <2>2, <1>1
    <2>4. LogIndexToSubscript(l, es[Min(conflict)].index) - 1 \in 0..(Len(l) - 1)
      BY <2>3, <1>2, HasIndexFacts, LogFacts, SMTT(20)
    <2>5. Merge(l, es) = SubSeq(l, 1, LogIndexToSubscript(l, es[Min(conflict)].index) - 1)
                         \o SubSeq(es, Min(conflict), Len(es))
      BY <1>4, Zenon DEF Merge
    <2> QED
      BY <2>3, <2>4, <2>5
  <1>5. CASE ~ (es = << >> \/ LogTail(es).index < Base(l)) /\ conflict = {} /\ present = {}
    <2>1. Merge(l, es) = l \o SubSeq(es, 1, Len(es))
      BY <1>5 DEF Merge
    <2>2. \A k \in 1..Len(es) : ~ HasIndex(l, es[k].index)
      BY <1>5, <1>1
    <2>3. LogTail(es).index >= Base(l)
      <3>1. es \in Log
        BY <1>5 DEF Log
      <3> QED
        BY <3>1, <1>5, LogFacts
    <2> QED
      BY <2>1, <2>2, <2>3, <1>5
  <1>6. CASE ~ (es = << >> \/ LogTail(es).index < Base(l)) /\ conflict = {} /\ present # {}
    <2>1. present \in SUBSET (0..Len(es))
      BY <1>1
    <2>2. Max(present) \in present /\ \A y \in present : Max(present) >= y
      BY <2>1, <1>1, <1>6, NatMax
    <2>3. Merge(l, es) = l \o SubSeq(es, Max(present) + 1, Len(es))
      BY <1>6 DEF Merge
    <2>4. Max(present) \in 1..Len(es) /\ HasIndex(l, es[Max(present)].index)
      BY <2>2, <1>1
    <2>5. ASSUME NEW j \in 1..Len(es), j > Max(present), HasIndex(l, es[j].index)
          PROVE  FALSE
      <3>1. j \in present
        BY <2>5, <1>1
      <3> HIDE DEF present
      <3>2. Max(present) >= j
        BY <2>2, <3>1
      <3> QED
        BY <3>2, <2>4, <2>5
    <2> QED
      BY <2>3, <2>4, <2>5
  <1> QED
    BY <1>3, <1>4, <1>5, <1>6
-----------------------------------------------------------------------------
(* AppendEntries never merges a log into an empty one.                       *)
LEMMA MergeType ==
    ASSUME NEW l \in Log, NEW es \in Seq(Entry)
    PROVE  Merge(l, es) \in Log
  <1>1. l \in Seq(Entry) /\ l # << >>
    BY DEF Log
  <1>2. Len(l) \in Nat \ {0} /\ Len(es) \in Nat
    BY LogFacts, LenProperties
  <1>3. ASSUME NEW s \in Seq(Entry), NEW t \in Seq(Entry), s # << >> \/ t # << >>
        PROVE  s \o t \in Log
    BY <1>3, ConcatProperties, ConcatEqualIffEmpty DEF Log
  <1>4. ASSUME NEW k \in 1..Len(es), NEW n \in 0..(Len(l) - 1)
        PROVE  SubSeq(l, 1, n) \o SubSeq(es, k, Len(es)) \in Log
    <2>1. SubSeq(l, 1, n) \in Seq(Entry)
      BY <1>1, <1>2, SubSeqOfLog
    <2>2. SubSeq(es, k, Len(es)) \in Seq(Entry) /\ Len(SubSeq(es, k, Len(es))) = Len(es) - k + 1
      BY <1>2, SubSeqOfLog
    <2>3. SubSeq(es, k, Len(es)) # << >>
      <3>1. Len(SubSeq(es, k, Len(es))) # 0
        BY <2>2, <1>2
      <3> HIDE <2>2
      <3> QED
        BY <3>1, EmptySeq
    <2> QED
      BY <2>1, <2>2, <2>3, <1>3
  <1>5. ASSUME NEW k \in 1..(Len(es) + 1)
        PROVE  l \o SubSeq(es, k, Len(es)) \in Log
    <2>1. SubSeq(es, k, Len(es)) \in Seq(Entry)
      BY <1>2, SubSeqOfLog
    <2> QED
      BY <2>1, <1>1, <1>3
  <1>6. \A k \in 1..Len(es) : k + 1 \in 1..(Len(es) + 1)
    BY <1>2
  <1>7. 1 \in 1..(Len(es) + 1)
    BY <1>2
  <1> QED
    BY MergeCases, <1>4, <1>5, <1>6, <1>7

(* The entries es follow the index prev without a gap.                       *)
Follows(es, prev) == \A k \in DOMAIN es : es[k].index = prev + k

(* AppendEntries keeps a log contiguous when the request is and its check    *)
(* passes: either the merged entries overlap the log, or they start right    *)
(* after its tail.                                                           *)
LEMMA MergeContiguous ==
    ASSUME NEW l \in Log, NEW m \in AppendReq, Contiguous(l),
           Follows(m.entries, m.prevIndex), ~ PrevConflict(m, l)
    PROVE  Contiguous(Merge(l, m.entries))
  <1> DEFINE es == m.entries
  <1>1. es \in Seq(Entry) /\ m.prevIndex \in Nat
    BY DEF AppendReq
  <1>2. l \in Seq(Entry) /\ Len(l) \in Nat \ {0} /\ DOMAIN l = 1..Len(l) /\ Base(l) \in Nat
    BY LogFacts DEF Log
  <1>3. Len(es) \in Nat /\ DOMAIN es = 1..Len(es)
    BY <1>1, LenProperties
  <1>4. \A k \in 1..Len(l) : l[k].index = Base(l) + k - 1
    BY <1>2 DEF Contiguous
  <1>5. \A k \in 1..Len(es) : es[k].index = m.prevIndex + k
    BY <1>3 DEF Follows
  <1> HIDE DEF es
  \* A prefix of l followed by es from k on is contiguous if es[k] comes next.
  <1>6. ASSUME NEW n \in 0..Len(l), NEW k \in 1..(Len(es) + 1),
               k <= Len(es) => m.prevIndex + k = Base(l) + n,
               n > 0 \/ k <= Len(es)
        PROVE  Contiguous(SubSeq(l, 1, n) \o SubSeq(es, k, Len(es)))
    <2> DEFINE s == SubSeq(l, 1, n)
               t == SubSeq(es, k, Len(es))
    <2>1. s \in Seq(Entry) /\ Len(s) = n /\ \A j \in 1..n : s[j] = l[j]
      BY <1>2, SubSeqOfLog
    <2>2. t \in Seq(Entry) /\ Len(t) = Len(es) - k + 1
          /\ \A j \in 1..(Len(es) - k + 1) : t[j] = es[k + j - 1]
      BY <1>1, <1>3, SubSeqOfLog DEF es
    <2> HIDE DEF s, t
    <2>3. Len(s \o t) = Len(s) + Len(t) /\ s \o t \in Seq(Entry)
          /\ \A j \in 1..(Len(s) + Len(t)) :
               (s \o t)[j] = IF j <= Len(s) THEN s[j] ELSE t[j - Len(s)]
      BY <2>1, <2>2, ConcatProperties
    <2>4. DOMAIN (s \o t) = 1..(n + Len(es) - k + 1)
      BY <2>1, <2>2, <2>3, LenProperties
    <2>5. \A j \in 1..(n + Len(es) - k + 1) : (s \o t)[j].index = Base(l) + j - 1
      <3> SUFFICES ASSUME NEW j \in 1..(n + Len(es) - k + 1)
                   PROVE  (s \o t)[j].index = Base(l) + j - 1
        OBVIOUS
      <3>1. CASE j <= n
        <4>1. (s \o t)[j] = l[j] /\ j \in 1..Len(l)
          BY <3>1, <2>1, <2>2, <2>3
        <4> QED
          BY <4>1, <1>4
      <3>2. CASE j > n
        <4>1. (s \o t)[j] = t[j - n]
          BY <3>2, <2>1, <2>2, <2>3
        <4>2. j - n \in 1..(Len(es) - k + 1) /\ k <= Len(es)
          BY <3>2, <1>3
        <4>3. t[j - n] = es[k + (j - n) - 1] /\ k + (j - n) - 1 \in 1..Len(es)
          BY <4>2, <2>2, <1>3, SMTT(20)
        <4>4. es[k + (j - n) - 1].index = m.prevIndex + (k + (j - n) - 1)
          BY <4>3, <1>5
        <4>5. m.prevIndex + (k + (j - n) - 1) = Base(l) + j - 1
          <5>1. n \in Int /\ j \in Int /\ k \in Int /\ m.prevIndex \in Int /\ Base(l) \in Int
            BY <1>1, <1>2, <1>3
          <5>2. m.prevIndex + k = Base(l) + n
            BY <4>2, <1>6
          <5> QED
            BY <5>1, <5>2
        <4> QED
          BY <4>1, <4>3, <4>4, <4>5
      <3>3. n \in Int /\ j \in Int
        BY <1>2, <1>3
      <3>4. j <= n \/ j > n
        BY <3>3
      <3> QED
        BY <3>1, <3>2, <3>4, Zenon
    <2>6. 1 \in 1..(n + Len(es) - k + 1)
      BY <1>6, <1>3
    <2>7. Base(s \o t) = Base(l)
      <3>1. (s \o t)[1].index = Base(l) + 1 - 1
        BY <2>5, <2>6
      <3> QED
        BY <3>1, <1>2 DEF Base
    <2>8. Contiguous(s \o t)
      BY <2>4, <2>5, <2>7 DEF Contiguous
    <2> QED
      BY <2>8 DEF s, t
  <1>7. SubSeq(l, 1, Len(l)) = l
    BY <1>2, SubSeqFull
  <1>8. ASSUME NEW k \in 1..Len(es), HasIndex(l, es[k].index)
        PROVE  LogIndexToSubscript(l, es[k].index) - 1 = m.prevIndex + k - Base(l)
    BY <1>8, <1>5, <1>1, <1>2 DEF LogIndexToSubscript
  <1>9. \A x \in Nat : HasIndex(l, x) <=> x >= Base(l) /\ x <= Base(l) + Len(l) - 1
    BY <1>2 DEF HasIndex, LogIndexToSubscript
  <1>10. CASE Merge(l, es) = l
    BY <1>10 DEF es
  <1>11. ASSUME NEW k \in 1..Len(es), NEW n \in 0..(Len(l) - 1),
                HasIndex(l, es[k].index), n = LogIndexToSubscript(l, es[k].index) - 1,
                Merge(l, es) = SubSeq(l, 1, n) \o SubSeq(es, k, Len(es))
         PROVE  Contiguous(Merge(l, es))
    <2>1. m.prevIndex + k = Base(l) + n /\ n \in 0..Len(l) /\ k \in 1..(Len(es) + 1)
      BY <1>11, <1>8, <1>1, <1>2, <1>3, SMTT(20)
    <2> QED
      BY <2>1, <1>6, <1>11
  <1>12. ASSUME es # << >>, LogTail(es).index >= Base(l),
                \A k \in 1..Len(es) : ~ HasIndex(l, es[k].index),
                Merge(l, es) = l \o SubSeq(es, 1, Len(es))
         PROVE  Contiguous(Merge(l, es))
    <2>1. Len(es) \in 1..Len(es) /\ 1 \in 1..Len(es)
      BY <1>12, <1>1, <1>3, EmptySeq DEF es
    <2>2. m.prevIndex + Len(es) >= Base(l)
      BY <2>1, <1>12, <1>5 DEF LogTail
    <2>3. \A k \in 1..Len(es) : m.prevIndex + k < Base(l) \/ m.prevIndex + k > Base(l) + Len(l) - 1
      <3> SUFFICES ASSUME NEW k \in 1..Len(es)
                   PROVE  m.prevIndex + k < Base(l) \/ m.prevIndex + k > Base(l) + Len(l) - 1
        OBVIOUS
      <3>1. m.prevIndex + k \in Nat /\ ~ HasIndex(l, m.prevIndex + k)
        BY <1>12, <1>5, <1>1, <1>3
      <3> QED
        BY <3>1, <1>9, <1>2
    <2>4. m.prevIndex + 1 > Base(l) + Len(l) - 1
      <3>1. CASE m.prevIndex + 1 >= Base(l)
        BY <3>1, <2>1, <2>3, <1>1, <1>2
      <3>2. CASE m.prevIndex + 1 < Base(l)
        <4>1. Base(l) - m.prevIndex \in 1..Len(es)
          BY <3>2, <2>2, <1>1, <1>2, <1>3
        <4>2. m.prevIndex + (Base(l) - m.prevIndex) = Base(l)
          BY <1>1, <1>2
        <4> QED
          BY <4>1, <4>2, <2>3, <1>2
      <3> QED
        BY <3>1, <3>2, <1>1, <1>2
    <2>5. m.prevIndex + 1 = Base(l) + Len(l)
      <3>1. CASE m.prevIndex = 0
        BY <3>1, <2>4, <1>2
      <3>2. CASE m.prevIndex > 0
        <4>1. m.prevIndex >= Base(l)
          BY <2>4, <1>1, <1>2
        <4>2. HasIndex(l, m.prevIndex)
          BY <4>1, <3>2 DEF PrevConflict
        <4> QED
          BY <4>2, <2>4, <1>9, <1>1, <1>2
      <3> QED
        BY <3>1, <3>2, <1>1
    <2>6. Len(l) \in 0..Len(l) /\ 1 \in 1..(Len(es) + 1) /\ Len(l) > 0
      BY <1>2, <1>3
    <2>7. Contiguous(SubSeq(l, 1, Len(l)) \o SubSeq(es, 1, Len(es)))
      BY <2>5, <2>6, <1>6
    <2> QED
      BY <2>7, <1>7, <1>12
  <1>13. ASSUME NEW k \in 1..Len(es), HasIndex(l, es[k].index),
                \A j \in 1..Len(es) : j > k => ~ HasIndex(l, es[j].index),
                Merge(l, es) = l \o SubSeq(es, k + 1, Len(es))
         PROVE  Contiguous(Merge(l, es))
    <2>1. m.prevIndex + k >= Base(l) /\ m.prevIndex + k <= Base(l) + Len(l) - 1
      BY <1>13, <1>5, <1>9, <1>1
    <2>2. k + 1 <= Len(es) => m.prevIndex + (k + 1) = Base(l) + Len(l)
      <3> SUFFICES ASSUME k + 1 <= Len(es) PROVE m.prevIndex + (k + 1) = Base(l) + Len(l)
        OBVIOUS
      <3>1. k + 1 \in 1..Len(es) /\ k + 1 > k
        BY <1>3
      <3>2. ~ HasIndex(l, es[k + 1].index) /\ es[k + 1].index = m.prevIndex + (k + 1)
        BY <3>1, <1>13, <1>5
      <3>3. m.prevIndex + (k + 1) \in Nat /\ ~ HasIndex(l, m.prevIndex + (k + 1))
        BY <3>2, <1>1, <1>3
      <3>4. m.prevIndex + (k + 1) < Base(l) \/ m.prevIndex + (k + 1) > Base(l) + Len(l) - 1
        BY <3>3, <1>9, <1>2
      <3>5. k \in Int /\ m.prevIndex \in Int /\ Base(l) \in Int /\ Len(l) \in Int
        BY <1>1, <1>2, <1>3
      <3> QED
        BY <3>4, <3>5, <2>1
    <2>3. Len(l) \in 0..Len(l) /\ k + 1 \in 1..(Len(es) + 1) /\ Len(l) > 0
      BY <1>2, <1>3
    <2>4. Contiguous(SubSeq(l, 1, Len(l)) \o SubSeq(es, k + 1, Len(es)))
      BY <2>2, <2>3, <1>6
    <2> QED
      BY <2>4, <1>7, <1>13
  <1> QED
    BY <1>10, <1>11, <1>12, <1>13, <1>1, MergeCases DEF es
-----------------------------------------------------------------------------
(* Min and Max of raft/util.go return one of their arguments.                *)
LEMMA PairFacts ==
    ASSUME NEW a \in Nat, NEW b \in Nat
    PROVE  /\ Min({a, b}) \in {a, b} /\ Max({a, b}) \in {a, b}
           /\ Max({a, b}) >= a /\ Max({a, b}) >= b
  <1>1. {a, b} \in SUBSET Nat /\ {a, b} # {}
    OBVIOUS
  <1>2. Min({a, b}) \in {a, b}
    BY <1>1, NatMin
  <1>3. {a, b} \in SUBSET (0..(a + b)) /\ a + b \in Nat
    OBVIOUS
  <1>4. Max({a, b}) \in {a, b} /\ \A y \in {a, b} : Max({a, b}) >= y
    BY <1>1, <1>3, NatMax
  <1> QED
    BY <1>2, <1>4

(* The conflicting term and index of a failed AppendEntries are naturals.    *)
LEMMA ConflictingType ==
    ASSUME NEW l \in Log, NEW m \in AppendReq
    PROVE  Conflicting(m, l) \in [term : Nat, index : Nat]
  <1>1. m.prevIndex \in Nat
    BY DEF AppendReq
  <1>2. CASE HasIndex(l, m.prevIndex)
    <2> DEFINE t == GetLogAtIndex(l, m.prevIndex).term
               same == {k \in DOMAIN l : l[k].term = t}
    <2>1. t \in Nat
      BY <1>1, <1>2, HasIndexFacts
    <2>2. LogIndexToSubscript(l, m.prevIndex) \in same
      BY <1>1, <1>2, HasIndexFacts, LogFacts DEF GetLogAtIndex
    <2>3. same \in SUBSET Nat /\ same # {}
      BY <2>2, LogFacts
    <2>4. Min(same) \in same
      BY <2>3, NatMin
    <2>5. l[Min(same)].index \in Nat
      BY <2>4, LogFacts
    <2>6. Conflicting(m, l) = [term |-> t, index |-> l[Min(same)].index]
      BY <1>2 DEF Conflicting
    <2> HIDE DEF t, same
    <2> QED
      BY <2>1, <2>5, <2>6
  <1>3. CASE ~ HasIndex(l, m.prevIndex)
    BY <1>3, LogFacts DEF Conflicting
  <1> QED
    BY <1>2, <1>3

(* Sync never takes nextIndex below 1, whatever the follower reports.        *)
LEMMA BackOffType ==
    ASSUME NEW l \in Log, NEW m \in AppendRep, NEW next \in Nat \ {0}
    PROVE  BackOff(next, m, l) \in Nat \ {0}
  <1> DEFINE same == {k \in 2..Len(l) : l[k].term = m.conflict.term}
  <1>1. m.conflict \in [term : Nat, index : Nat]
    BY DEF AppendRep
  <1>2. m.conflict.index \in Nat
    BY <1>1
  <1>3. CASE m.conflict.term > 0 /\ same # {}
    <2>1. same \in SUBSET (0..Len(l)) /\ Len(l) \in Nat
      BY LogFacts
    <2>2. Max(same) \in same
      BY <2>1, <1>3, NatMax
    <2>3. l[Max(same)].index + 1 \in Nat \ {0}
      <3>1. Max(same) \in 1..Len(l)
        BY <2>2, LogFacts
      <3> QED
        BY <3>1, LogFacts
    <2>4. Min({next, l[Max(same)].index + 1}) \in {next, l[Max(same)].index + 1}
      BY <2>3, PairFacts
    <2>5. BackOff(next, m, l) = Min({next, l[Max(same)].index + 1})
      BY <1>3 DEF BackOff
    <2> HIDE DEF same
    <2> QED
      BY <2>3, <2>4, <2>5
  <1>4. CASE ~ (m.conflict.term > 0 /\ same # {})
    <2>1. BackOff(next, m, l) = Max({Min({next, m.conflict.index}), 1})
      BY <1>4 DEF BackOff
    <2>2. Min({next, m.conflict.index}) \in Nat
      BY <1>2, PairFacts
    <2>3. Max({Min({next, m.conflict.index}), 1}) \in Nat
          /\ Max({Min({next, m.conflict.index}), 1}) >= 1
      BY <2>2, PairFacts
    <2> QED
      BY <2>1, <2>3
  <1> QED
    BY <1>3, <1>4

(* The commit index Sync computes is an index.                               *)
LEMMA NewCommitType ==
    ASSUME NEW l, NEW match, NEW t, NEW commit \in Nat, NEW last \in Nat
    PROVE  NewCommit(l, commit, match, t, last) \in Nat
  <1> DEFINE S == {x \in commit..last :
                     /\ IsMajority({p \in Server : match[p] >= x})
                     /\ GetLogAtIndex(l, x).term = t} \cup {commit}
  <1>1. S \in SUBSET (0..(commit + last)) /\ S # {} /\ commit + last \in Nat
    OBVIOUS
  <1>2. Max(S) \in S
    <2> HIDE DEF S
    <2> QED
      BY <1>1, NatMax
  <1>3. NewCommit(l, commit, match, t, last) = Max(S)
    BY DEF NewCommit
  <1> QED
    BY <1>1, <1>2, <1>3

(* The commit index AppendEntries computes is an index.                      *)
LEMMA FollowerCommitType ==
    ASSUME NEW l \in Log, NEW leaderCommit \in Nat, NEW commit \in Nat
    PROVE  FollowerCommit(leaderCommit, commit, l) \in Nat
  BY LogFacts, PairFacts DEF FollowerCommit

(* Start appends the next index and leaves a contiguous log.                 *)
LEMMA StartShape ==
    ASSUME NEW l \in Log, NEW e \in Entry, Contiguous(l), e.index = LogTail(l).index + 1
    PROVE  Append(l, e) \in Log /\ Contiguous(Append(l, e))
  <1>1. l \in Seq(Entry) /\ Len(l) \in Nat \ {0} /\ Base(l) \in Nat
    BY LogFacts DEF Log
  <1>2. /\ Append(l, e) \in Seq(Entry) /\ Append(l, e) # << >>
        /\ Len(Append(l, e)) = Len(l) + 1
        /\ \A k \in 1..Len(l) : Append(l, e)[k] = l[k]
        /\ Append(l, e)[Len(l) + 1] = e
    BY <1>1, AppendProperties
  <1>3. DOMAIN Append(l, e) = 1..(Len(l) + 1)
    BY <1>2, LenProperties
  <1>4. Base(Append(l, e)) = Base(l)
    BY <1>1, <1>2 DEF Base
  <1>5. e.index = Base(l) + Len(l)
    BY <1>1, ContiguousTail
  <1>6. \A k \in 1..(Len(l) + 1) : Append(l, e)[k].index = Base(l) + k - 1
    <2> SUFFICES ASSUME NEW k \in 1..(Len(l) + 1)
                 PROVE  Append(l, e)[k].index = Base(l) + k - 1
      OBVIOUS
    <2>1. CASE k \in 1..Len(l)
      <3>1. l[k].index = Base(l) + k - 1
        BY <2>1, LogFacts DEF Contiguous
      <3> QED
        BY <3>1, <2>1, <1>2
    <2>2. CASE k = Len(l) + 1
      BY <2>2, <1>1, <1>2, <1>5
    <2>3. k \in 1..Len(l) \/ k = Len(l) + 1
      BY <1>1
    <2> QED
      BY <2>1, <2>2, <2>3, Zenon
  <1>7. Contiguous(Append(l, e))
    BY <1>3, <1>4, <1>6 DEF Contiguous
  <1> QED
    BY <1>2, <1>7 DEF Log

(* Raft.Snapshot leaves a contiguous log.                                    *)
LEMMA TrimShape ==
    ASSUME NEW l \in Log, NEW x \in Nat, Contiguous(l),
           \E k \in DOMAIN l : l[k].index = x
    PROVE  Trim(l, x) \in Log /\ Contiguous(Trim(l, x))
  <1>1. l \in Seq(Entry) /\ Len(l) \in Nat \ {0} /\ Base(l) \in Nat /\ DOMAIN l = 1..Len(l)
    BY LogFacts DEF Log
  <1>2. PICK k \in 1..Len(l) : l[k].index = x
    BY <1>1
  <1>3. l[k].index = Base(l) + k - 1
    BY <1>1 DEF Contiguous
  <1>4. LogIndexToSubscript(l, x) = k
    BY <1>1, <1>2, <1>3 DEF LogIndexToSubscript
  <1> DEFINE s == SubSeq(l, k, Len(l))
             n == Len(l) - k + 1
  <1>5. n \in Nat \ {0}
    BY <1>1
  <1>6. s \in Seq(Entry) /\ Len(s) = n /\ \A j \in 1..n : s[j] = l[k + j - 1]
    BY <1>1, SubSeqOfLog
  <1> HIDE DEF s
  <1>7. DOMAIN s = 1..n /\ s \in [1..n -> Entry]
    BY <1>6, LenProperties
  <1> HIDE DEF n
  <1>8. 1 \in 1..n
    BY <1>5
  <1> DEFINE t == [s EXCEPT ![1].cmd = Nil]
  <1>9. s[1] \in Entry
    BY <1>7, <1>8
  <1>10. [s[1] EXCEPT !.cmd = Nil] \in Entry /\ [s[1] EXCEPT !.cmd = Nil].index = s[1].index
    BY <1>9 DEF Entry
  <1>11. t \in [1..n -> Entry] /\ \A j \in 1..n : t[j].index = s[j].index
    <2>1. t = [s EXCEPT ![1] = [s[1] EXCEPT !.cmd = Nil]]
      OBVIOUS
    <2> QED
      BY <2>1, <1>7, <1>8, <1>10
  <1> HIDE DEF t
  <1>12. t \in Seq(Entry) /\ Len(t) = n
    BY <1>11, <1>5, SeqDef, LenProperties
  <1>13. t # << >>
    BY <1>12, <1>5, EmptySeq
  <1>14. \A j \in 1..n : t[j].index = x + j - 1
    <2> SUFFICES ASSUME NEW j \in 1..n PROVE t[j].index = x + j - 1
      OBVIOUS
    <2>1. k + j - 1 \in 1..Len(l)
      BY <1>1 DEF n
    <2>2. l[k + j - 1].index = Base(l) + (k + j - 1) - 1
      BY <2>1, <1>1 DEF Contiguous
    <2>3. t[j].index = l[k + j - 1].index
      BY <1>6, <1>11
    <2>4. j \in Int /\ k \in Int /\ Base(l) \in Int /\ x = Base(l) + k - 1
      BY <1>1, <1>2, <1>3, <1>5
    <2> QED
      BY <2>2, <2>3, <2>4
  <1>15. Base(t) = x
    BY <1>14, <1>8 DEF Base
  <1>16. Contiguous(t)
    BY <1>11, <1>14, <1>15 DEF Contiguous
  <1>17. Trim(l, x) = t
    BY <1>4 DEF Trim, s, t
  <1> QED
    BY <1>12, <1>13, <1>16, <1>17 DEF Log

(* CondInstallSnapshot leaves a contiguous log.                              *)
LEMMA InstalledShape ==
    ASSUME NEW l \in Log, NEW s \in SnapMsg, Contiguous(l), s.index >= Base(l)
    PROVE  Installed(l, s) \in Log /\ Contiguous(Installed(l, s))
  <1> DEFINE e == [term |-> s.term, index |-> s.index, cmd |-> Nil]
             m == LogIndexToSubscript(l, s.index) + 1
             rest == IF s.index >= LogTail(l).index THEN << >> ELSE SubSeq(l, m, Len(l))
  <1>1. l \in Seq(Entry) /\ Len(l) \in Nat \ {0} /\ Base(l) \in Nat /\ DOMAIN l = 1..Len(l)
    BY LogFacts DEF Log
  <1>2. s.index \in Nat /\ s.term \in Nat
    BY DEF SnapMsg
  <1>3. e \in Entry /\ e.index = s.index
    BY <1>2 DEF Entry
  <1>4. m = s.index - Base(l) + 2 /\ m \in Nat /\ m >= 2
    BY <1>1, <1>2 DEF LogIndexToSubscript
  <1> HIDE DEF e, m
  <1>5. rest \in Seq(Entry) /\ \A j \in 1..Len(rest) : rest[j].index = s.index + j
    <2>1. CASE s.index >= LogTail(l).index
      BY <2>1, EmptySeq
    <2>2. CASE ~ (s.index >= LogTail(l).index)
      <3>1. rest = SubSeq(l, m, Len(l))
        BY <2>2
      <3>2. s.index < Base(l) + Len(l) - 1
        BY <2>2, <1>1, <1>2, ContiguousTail, LogFacts
      <3>3. m <= Len(l)
        BY <3>2, <1>1, <1>2, <1>4
      <3>4. rest \in Seq(Entry) /\ Len(rest) = Len(l) - m + 1
            /\ \A j \in 1..(Len(l) - m + 1) : rest[j] = l[m + j - 1]
        <4> HIDE DEF rest
        <4>1. Len(l) \in Int /\ m \in Int /\ m >= 1 /\ Len(l) <= Len(l)
          BY <1>1, <1>4
        <4> QED
          BY <3>1, <3>3, <4>1, <1>1, SubSeqOfLog
      <3> HIDE DEF rest
      <3>5. \A j \in 1..(Len(l) - m + 1) : rest[j].index = s.index + j
        <4> SUFFICES ASSUME NEW j \in 1..(Len(l) - m + 1) PROVE rest[j].index = s.index + j
          OBVIOUS
        <4>1. m + j - 1 \in 1..Len(l)
          BY <1>1, <1>4
        <4>2. l[m + j - 1].index = Base(l) + (m + j - 1) - 1
          BY <4>1, <1>1 DEF Contiguous
        <4>3. Base(l) + (m + j - 1) - 1 = s.index + j
          <5>1. j \in Int /\ Base(l) \in Int /\ s.index \in Int /\ m \in Int
            BY <1>1, <1>2, <1>4
          <5>2. m = s.index - Base(l) + 2
            BY <1>4
          <5>3. Base(l) + m = s.index + 2
            BY <5>1, <5>2, SMTT(20)
          <5> QED
            BY <5>1, <5>3
        <4> QED
          BY <4>2, <4>3, <3>4
      <3> QED
        BY <3>4, <3>5
    <2> QED
      BY <2>1, <2>2
  <1>6. Installed(l, s) = <<e>> \o rest
    BY DEF Installed, e, m
  <1> HIDE DEF rest
  <1>7. <<e>> \in Seq(Entry) /\ Len(<<e>>) = 1 /\ <<e>>[1] = e
    BY <1>3
  <1>8. Len(rest) \in Nat
    BY <1>5, LenProperties
  <1> DEFINE r == <<e>> \o rest
  <1>9. r \in Seq(Entry) /\ Len(r) = 1 + Len(rest)
        /\ \A j \in 1..(1 + Len(rest)) : r[j] = IF j <= 1 THEN e ELSE rest[j - 1]
    BY <1>5, <1>7, ConcatProperties
  <1> HIDE DEF r
  <1>10. DOMAIN r = 1..(1 + Len(rest)) /\ r # << >>
    BY <1>8, <1>9, LenProperties, EmptySeq
  <1>11. \A j \in 1..(1 + Len(rest)) : r[j].index = s.index + j - 1
    <2> SUFFICES ASSUME NEW j \in 1..(1 + Len(rest)) PROVE r[j].index = s.index + j - 1
      OBVIOUS
    <2>1. CASE j = 1
      BY <2>1, <1>9, <1>3, <1>2
    <2>2. CASE j > 1
      <3>1. j - 1 \in 1..Len(rest) /\ ~ (j <= 1)
        BY <2>2, <1>8
      <3>2. r[j] = rest[j - 1]
        BY <3>1, <1>9
      <3>3. rest[j - 1].index = s.index + (j - 1)
        BY <3>1, <1>5
      <3> QED
        BY <3>2, <3>3, <1>2, <1>8
    <2> QED
      BY <2>1, <2>2, <1>8
  <1>12. Base(r) = s.index
    <2>1. 1 \in 1..(1 + Len(rest))
      BY <1>8
    <2> QED
      BY <2>1, <1>11, <1>2 DEF Base
  <1>13. Contiguous(r)
    BY <1>10, <1>11, <1>12 DEF Contiguous
  <1> QED
    BY <1>6, <1>9, <1>10, <1>13 DEF Log, r

(* The entries Replicate sends follow the entry before the next one.         *)
LEMMA EntriesShape ==
    ASSUME NEW l \in Log, NEW x \in Nat, Contiguous(l), HasIndex(l, x)
    PROVE  LET es == SubSeq(l, LogIndexToSubscript(l, x + 1), Len(l))
           IN es \in Seq(Entry) /\ Follows(es, GetLogAtIndex(l, x).index)
  <1> DEFINE m == LogIndexToSubscript(l, x + 1)
             es == SubSeq(l, m, Len(l))
  <1>1. l \in Seq(Entry) /\ Len(l) \in Nat \ {0} /\ Base(l) \in Nat /\ DOMAIN l = 1..Len(l)
    BY LogFacts DEF Log
  <1>2. m = x - Base(l) + 2 /\ x >= Base(l) /\ m \in Int /\ m >= 1
    BY <1>1 DEF HasIndex, LogIndexToSubscript
  <1> HIDE DEF m
  <1>3. GetLogAtIndex(l, x).index = x
    BY HasIndexFacts
  <1>4. Len(l) \in Int /\ Len(l) <= Len(l)
    BY <1>1
  <1>5. es \in Seq(Entry) /\ Len(es) = (IF m <= Len(l) THEN Len(l) - m + 1 ELSE 0)
        /\ \A j \in 1..(Len(l) - m + 1) : es[j] = l[m + j - 1]
    <2>1. l \in Seq(Entry) /\ m \in Int /\ Len(l) \in Int /\ m >= 1 /\ Len(l) <= Len(l)
      BY <1>1, <1>2, <1>4
    <2> QED
      BY ONLY <2>1, SubSeqOfLog, Zenon
  <1> HIDE DEF es
  <1>6. DOMAIN es = 1..Len(es)
    BY <1>5, LenProperties
  <1>7. \A j \in 1..Len(es) : es[j].index = x + j
    <2> SUFFICES ASSUME NEW j \in 1..Len(es) PROVE es[j].index = x + j
      OBVIOUS
    <2>1. j \in 1..(Len(l) - m + 1) /\ m + j - 1 \in 1..Len(l)
      BY <1>1, <1>2, <1>5, SMTT(20)
    <2>2. l[m + j - 1].index = Base(l) + (m + j - 1) - 1
      BY <2>1, <1>1 DEF Contiguous
    <2>3. Base(l) + (m + j - 1) - 1 = x + j
      <3>1. j \in Int /\ Base(l) \in Int /\ x \in Int
        BY <2>1, <1>1, <1>2
      <3> QED
        BY <3>1, <1>2, SMTT(20)
    <2> QED
      BY <2>1, <2>2, <2>3, <1>5
  <1> QED
    BY <1>3, <1>5, <1>6, <1>7 DEF Follows, es, m
-----------------------------------------------------------------------------
(* The shape of logs, requests and persisted state.                          *)

PersistedContiguous == \A i \in Server : Contiguous(persister[i].log)

RequestsFollow == \A m \in appendReqs : Follows(m.entries, m.prevIndex)

(* The inductive invariant: a log stays contiguous only because what it is   *)
(* merged with and what it is restored from are.                             *)
ShapeInv == TypeOK /\ LogsContiguous /\ PersistedContiguous /\ RequestsFollow

(* What a step leaves alone keeps its shape.                                 *)
LEMMA Frame ==
    ASSUME ShapeInv
    PROVE  /\ UNCHANGED serverVars => TypeServer'
           /\ UNCHANGED logVars => TypeLog' /\ LogsContiguous'
           /\ UNCHANGED leaderVars => TypeLeader'
           /\ UNCHANGED persister => TypePersister' /\ PersistedContiguous'
           /\ UNCHANGED serviceVars => TypeService'
           /\ UNCHANGED voteNet => TypeVoteNet'
           /\ UNCHANGED logNet => TypeLogNet' /\ RequestsFollow'
           /\ UNCHANGED <<counters, history>> => TypeHistory'
  <1> USE DEF ShapeInv, TypeOK
  <1>1. UNCHANGED serverVars => TypeServer'
    BY DEF serverVars, TypeServer
  <1>2. UNCHANGED logVars => TypeLog' /\ LogsContiguous'
    BY DEF logVars, TypeLog, LogsContiguous
  <1>3. UNCHANGED leaderVars => TypeLeader'
    BY DEF leaderVars, TypeLeader
  <1>4. UNCHANGED persister => TypePersister' /\ PersistedContiguous'
    BY DEF TypePersister, PersistedContiguous
  <1>5. UNCHANGED serviceVars => TypeService'
    BY DEF serviceVars, TypeService
  <1>6. UNCHANGED voteNet => TypeVoteNet'
    BY DEF voteNet, TypeVoteNet
  <1>7. UNCHANGED logNet => TypeLogNet' /\ RequestsFollow'
    BY DEF logNet, TypeLogNet, RequestsFollow
  <1>8. UNCHANGED <<counters, history>> => TypeHistory'
    BY DEF counters, history, TypeHistory
  <1> QED
    BY <1>1, <1>2, <1>3, <1>4, <1>5, <1>6, <1>7, <1>8

(* persist writes what the handler left in memory, which has its shape.      *)
LEMMA PersistShape ==
    ASSUME ShapeInv, NEW i \in Server, Persist(i), TypeServer', TypeLog', LogsContiguous'
    PROVE  TypePersister' /\ PersistedContiguous'
  <1>1. persister \in [Server -> Persisted] /\ \A j \in Server : Contiguous(persister[j].log)
    BY DEF ShapeInv, TypeOK, TypePersister, PersistedContiguous
  <1>2. term'[i] \in Nat /\ votedFor'[i] \in Server \cup {Nil} /\ log'[i] \in Seq(Entry) \ {<< >>}
    BY DEF TypeServer, TypeLog
  <1>3. Contiguous(log'[i])
    BY DEF LogsContiguous
  <1>4. persister[i].snapshot \in Seq(Entry)
    BY <1>1 DEF Persisted
  <1> DEFINE p == [term |-> term'[i], votedFor |-> votedFor'[i], log |-> log'[i],
                   snapshot |-> persister[i].snapshot]
  <1>5. p \in Persisted /\ p.log = log'[i]
    BY <1>2, <1>4 DEF Persisted
  <1>6. persister' = [persister EXCEPT ![i] = p]
    BY DEF Persist
  <1> HIDE DEF p
  <1> QED
    BY <1>1, <1>3, <1>5, <1>6 DEF TypePersister, PersistedContiguous

(* So does SaveStateAndSnapshot.                                             *)
LEMMA SaveShape ==
    ASSUME ShapeInv, NEW i \in Server, NEW data \in Seq(Entry), SaveStateAndSnapshot(i, data),
           TypeServer', TypeLog', LogsContiguous'
    PROVE  TypePersister' /\ PersistedContiguous'
  <1>1. persister \in [Server -> Persisted] /\ \A j \in Server : Contiguous(persister[j].log)
    BY DEF ShapeInv, TypeOK, TypePersister, PersistedContiguous
  <1>2. term'[i] \in Nat /\ votedFor'[i] \in Server \cup {Nil} /\ log'[i] \in Seq(Entry) \ {<< >>}
    BY DEF TypeServer, TypeLog
  <1>3. Contiguous(log'[i])
    BY DEF LogsContiguous
  <1> DEFINE p == [term |-> term'[i], votedFor |-> votedFor'[i], log |-> log'[i],
                   snapshot |-> data]
  <1>4. p \in Persisted /\ p.log = log'[i]
    BY <1>2 DEF Persisted
  <1>5. persister' = [persister EXCEPT ![i] = p]
    BY DEF SaveStateAndSnapshot
  <1> HIDE DEF p
  <1> QED
    BY <1>1, <1>3, <1>4, <1>5 DEF TypePersister, PersistedContiguous

(* A handler that resets its term keeps the types.                           *)
LEMMA StepDownShape ==
    ASSUME ShapeInv, NEW i \in Server, NEW t \in Nat,
           StepDown(i, t) \/ AcceptLeader(i, t)
    PROVE  TypeServer'
  BY DEF ShapeInv, TypeOK, TypeServer, StepDown, BecomeFollower, AcceptLeader, serverVars

(* DoElection keeps the shape.                                               *)
LEMMA DoElectionShape ==
    ASSUME ShapeInv, NEW i \in Server, DoElection(i)
    PROVE  ShapeInv'
  <1>1. TypeServer'
    BY DEF ShapeInv, TypeOK, TypeServer, DoElection
  <1>2. TypeLog' /\ LogsContiguous' /\ TypeLeader' /\ TypeService' /\ TypeLogNet' /\ RequestsFollow'
    BY Frame DEF DoElection
  <1>3. TypePersister' /\ PersistedContiguous'
    BY <1>1, <1>2, PersistShape DEF DoElection
  <1>4. TypeVoteNet'
    <2>1. LogTail(log[i]).index \in Nat /\ LogTail(log[i]).term \in Nat /\ term[i] + 1 \in Nat
      BY LogFacts DEF ShapeInv, TypeOK, TypeServer, TypeLog, Log
    <2>2. voteReqs \subseteq VoteReq /\ voteReplies \subseteq VoteRep
      BY DEF ShapeInv, TypeOK, TypeVoteNet
    <2> QED
      BY <2>1, <2>2 DEF DoElection, TypeVoteNet, VoteReq
  <1>5. TypeHistory'
    BY DEF ShapeInv, TypeOK, TypeHistory, DoElection, history
  <1> QED
    BY <1>1, <1>2, <1>3, <1>4, <1>5 DEF ShapeInv, TypeOK

(* RequestVote keeps the shape, granted, denied or stale.                    *)
LEMMA RequestVoteShape ==
    ASSUME ShapeInv, NEW m \in voteReqs, RequestVote(m)
    PROVE  ShapeInv'
  <1>1. m \in VoteReq /\ m.to \in Server /\ m.from \in Server /\ m.term \in Nat
    BY DEF ShapeInv, TypeOK, TypeVoteNet, VoteReq
  <1>2. PICK granted \in BOOLEAN : ReplyVote(m, granted)
    BY DEF RequestVote, RequestVoteStale, RequestVoteGrant, RequestVoteDeny
  <1>3. TypeVoteNet'
    <2>1. term[m.to] \in Nat
      BY <1>1 DEF ShapeInv, TypeOK, TypeServer
    <2> QED
      BY <1>1, <1>2, <2>1 DEF ShapeInv, TypeOK, TypeVoteNet, ReplyVote, VoteRep
  <1>4. TypeLog' /\ LogsContiguous' /\ TypeLeader' /\ TypeService' /\ TypeLogNet'
        /\ RequestsFollow' /\ TypeHistory'
    BY <1>2, Frame DEF ReplyVote
  <1>5. TypeServer'
    <2>1. CASE RequestVoteStale(m)
      BY <2>1, Frame DEF RequestVoteStale
    <2>2. CASE RequestVoteGrant(m)
      BY <2>2, <1>1 DEF ShapeInv, TypeOK, TypeServer, RequestVoteGrant, BecomeFollower
    <2>3. CASE RequestVoteDeny(m)
      BY <2>3, <1>1, Frame, StepDownShape DEF RequestVoteDeny
    <2> QED
      BY <2>1, <2>2, <2>3 DEF RequestVote
  <1>6. TypePersister' /\ PersistedContiguous'
    <2>1. Persist(m.to) \/ UNCHANGED persister
      BY DEF RequestVote, RequestVoteStale, RequestVoteGrant, RequestVoteDeny
    <2> QED
      BY <2>1, <1>1, <1>4, <1>5, Frame, PersistShape
  <1> QED
    BY <1>3, <1>4, <1>5, <1>6 DEF ShapeInv, TypeOK

(* A snapshot and the entries after it form one sequence of entries.         *)
LEMMA FullLogType ==
    ASSUME ShapeInv, NEW i \in Server
    PROVE  FullLog(i) \in Seq(Entry)
  <1>1. persister[i].snapshot \in Seq(Entry)
    BY DEF ShapeInv, TypeOK, TypePersister, Persisted
  <1>2. log[i] \in Seq(Entry) /\ Len(log[i]) \in Nat
    BY LogFacts DEF ShapeInv, TypeOK, TypeLog, Log
  <1>3. SubSeq(log[i], 2, Len(log[i])) \in Seq(Entry)
    BY <1>2, SubSeqOfLog
  <1> QED
    BY <1>1, <1>3, ConcatProperties DEF FullLog

(* The vote counter keeps the shape; the winner sets nextIndex after its     *)
(* tail, which is at least 1.                                                *)
LEMMA VoteReplyShape ==
    ASSUME ShapeInv, NEW m \in voteReplies, VoteReply(m)
    PROVE  ShapeInv'
  <1>1. m \in VoteRep /\ m.to \in Server /\ m.from \in Server /\ m.term \in Nat /\ m.replyTerm \in Nat
    BY DEF ShapeInv, TypeOK, TypeVoteNet, VoteRep
  <1>2. TypeLog' /\ LogsContiguous'
    BY Frame DEF VoteReply, VoteReplyIgnored, VoteReplyStepDown, VoteReplyCount, VoteReplyWin
  <1>3. TypeService' /\ TypeLogNet' /\ RequestsFollow'
    BY Frame DEF VoteReply
  <1>4. TypeVoteNet'
    BY DEF ShapeInv, TypeOK, TypeVoteNet, VoteReply
  <1>5. TypeServer'
    <2>1. CASE VoteReplyIgnored(m)
      BY <2>1, Frame DEF VoteReplyIgnored
    <2>2. CASE VoteReplyStepDown(m)
      BY <2>2, <1>1, StepDownShape DEF VoteReplyStepDown
    <2>3. CASE VoteReplyCount(m)
      BY <2>3, <1>1 DEF ShapeInv, TypeOK, TypeServer, VoteReplyCount
    <2>4. CASE VoteReplyWin(m)
      BY <2>4, <1>1 DEF ShapeInv, TypeOK, TypeServer, VoteReplyWin
    <2> QED
      BY <2>1, <2>2, <2>3, <2>4 DEF VoteReply
  <1>6. TypeLeader'
    <2>1. CASE UNCHANGED leaderVars
      BY <2>1, Frame
    <2>2. CASE VoteReplyWin(m)
      <3>1. LogTail(log[m.to]).index \in Nat
        BY <1>1, LogFacts DEF ShapeInv, TypeOK, TypeLog, Log
      <3> QED
        BY <3>1, <2>2, <1>1 DEF ShapeInv, TypeOK, TypeLeader, VoteReplyWin
    <2> QED
      BY <2>1, <2>2 DEF VoteReply, VoteReplyIgnored, VoteReplyStepDown, VoteReplyCount
  <1>7. TypePersister' /\ PersistedContiguous'
    <2>1. Persist(m.to) \/ UNCHANGED persister
      BY DEF VoteReply, VoteReplyIgnored, VoteReplyStepDown, VoteReplyCount, VoteReplyWin
    <2> QED
      BY <2>1, <1>1, <1>2, <1>5, Frame, PersistShape
  <1>8. TypeHistory'
    <2>1. CASE UNCHANGED <<elected, leaderLog>>
      BY <2>1, Frame DEF VoteReply, history
    <2>2. CASE VoteReplyWin(m)
      <3>1. votes[m.to] \cup {m.from} \in SUBSET Server
        BY <1>1 DEF ShapeInv, TypeOK, TypeServer
      <3>2. FullLog(m.to) \in Seq(Entry)
        BY <1>1, FullLogType
      <3>3. DOMAIN leaderLog \subseteq Nat /\ leaderLog \in [DOMAIN leaderLog -> Seq(Entry)]
        BY DEF ShapeInv, TypeOK, TypeHistory
      <3>4. leaderLog' = [t \in DOMAIN leaderLog \cup {m.term} |->
                            IF t = m.term THEN FullLog(m.to) ELSE leaderLog[t]]
        BY <2>2 DEF VoteReplyWin
      <3>5. DOMAIN leaderLog' \subseteq Nat /\ leaderLog' \in [DOMAIN leaderLog' -> Seq(Entry)]
        BY <3>2, <3>3, <3>4, <1>1
      <3>6. elected' = elected \cup {[term |-> m.term, leader |-> m.to,
                                     votes |-> votes[m.to] \cup {m.from}]}
        BY <2>2 DEF VoteReplyWin
      <3> QED
        BY <3>1, <3>5, <3>6, <1>1 DEF ShapeInv, TypeOK, TypeHistory, VoteReply, counters
    <2> QED
      BY <2>1, <2>2 DEF VoteReply, VoteReplyIgnored, VoteReplyStepDown, VoteReplyCount
  <1> QED
    BY <1>2, <1>3, <1>4, <1>5, <1>6, <1>7, <1>8 DEF ShapeInv, TypeOK

(* Start keeps the shape.                                                    *)
LEMMA StartActionShape ==
    ASSUME ShapeInv, NEW i \in Server, NEW c \in Command, Start(i, c)
    PROVE  ShapeInv'
  <1> DEFINE e == [term |-> term[i], index |-> LogTail(log[i]).index + 1, cmd |-> c]
  <1>1. log[i] \in Log /\ Contiguous(log[i])
    BY DEF ShapeInv, TypeOK, TypeLog, LogsContiguous, Log
  <1>2. e \in Entry /\ e.index = LogTail(log[i]).index + 1
    BY <1>1, LogFacts DEF ShapeInv, TypeOK, TypeServer, Entry
  <1>3. log' = [log EXCEPT ![i] = Append(log[i], e)]
    BY DEF Start
  <1> HIDE DEF e
  <1>4. Append(log[i], e) \in Log /\ Contiguous(Append(log[i], e))
    BY <1>1, <1>2, StartShape
  <1>5. TypeLog' /\ LogsContiguous'
    BY <1>3, <1>4 DEF ShapeInv, TypeOK, TypeLog, LogsContiguous, Log, Start
  <1>6. TypeServer' /\ TypeService' /\ TypeVoteNet' /\ TypeLogNet' /\ RequestsFollow'
    BY Frame DEF Start
  <1>7. TypeLeader'
    BY DEF ShapeInv, TypeOK, TypeLeader, Start
  <1>9. TypeHistory'
    <2>1. DOMAIN leaderLog \subseteq Nat /\ leaderLog \in [DOMAIN leaderLog -> Seq(Entry)]
      BY DEF ShapeInv, TypeOK, TypeHistory
    <2>2. leaderLog' = [leaderLog EXCEPT ![e.term] = Append(leaderLog[e.term], e)]
          /\ acked' = acked \cup {[server |-> i, term |-> e.term, index |-> e.index]}
      BY DEF Start, e
    <2>3. e.term \in Nat /\ e.index \in Nat
      BY <1>2 DEF Entry
    <2>4. e.term \in DOMAIN leaderLog => Append(leaderLog[e.term], e) \in Seq(Entry)
      BY <2>1, <1>2, AppendProperties
    <2>5. DOMAIN leaderLog' \subseteq Nat /\ leaderLog' \in [DOMAIN leaderLog' -> Seq(Entry)]
      BY <2>1, <2>2, <2>4
    <2>6. acked' \subseteq [server : Server, term : Nat, index : Nat]
      BY <2>2, <2>3 DEF ShapeInv, TypeOK, TypeHistory
    <2> QED
      BY <2>5, <2>6 DEF ShapeInv, TypeOK, TypeHistory, Start, counters
  <1>8. TypePersister' /\ PersistedContiguous'
    BY <1>5, <1>6, PersistShape DEF Start
  <1> QED
    BY <1>5, <1>6, <1>7, <1>8, <1>9 DEF ShapeInv, TypeOK

(* Replicate keeps the shape: what it sends follows the entry it names.      *)
LEMMA ReplicateShape ==
    ASSUME ShapeInv, NEW i \in Server, NEW j \in Server, Replicate(i, j)
    PROVE  ShapeInv'
  <1>1. TypeServer' /\ TypeLog' /\ LogsContiguous' /\ TypeLeader' /\ TypePersister'
        /\ PersistedContiguous' /\ TypeService' /\ TypeVoteNet' /\ TypeHistory'
    BY Frame DEF Replicate, SendEntries, SendSnapshot
  <1>2. log[i] \in Log /\ Contiguous(log[i]) /\ term[i] \in Nat /\ commitIndex[i] \in Nat
        /\ nextIndex[i][j] \in Nat \ {0}
    BY DEF ShapeInv, TypeOK, TypeServer, TypeLog, TypeLeader, LogsContiguous, Log
  <1>3. TypeLogNet' /\ RequestsFollow'
    <2>1. CASE SendEntries(i, j)
      <3> DEFINE x == nextIndex[i][j] - 1
                 prev == GetLogAtIndex(log[i], x)
                 es == SubSeq(log[i], LogIndexToSubscript(log[i], nextIndex[i][j]), Len(log[i]))
                 q == [from |-> i, to |-> j, term |-> term[i],
                       prevIndex |-> prev.index, prevTerm |-> prev.term,
                       entries |-> es, leaderCommit |-> commitIndex[i]]
      <3>1. x \in Nat /\ HasIndex(log[i], x) /\ x + 1 = nextIndex[i][j]
        BY <2>1, <1>2 DEF SendEntries, PrevInLog
      <3>2. prev.index \in Nat /\ prev.term \in Nat
        BY <3>1, <1>2, HasIndexFacts
      <3>3. es \in Seq(Entry) /\ Follows(es, prev.index)
        <4> HIDE DEF x
        <4> QED
          BY <3>1, <1>2, EntriesShape
      <3>4. appendReqs' = appendReqs \cup {q}
        BY <2>1 DEF SendEntries
      <3> HIDE DEF es, prev, x
      <3>5. q \in AppendReq /\ q.entries = es /\ q.prevIndex = prev.index
        BY <3>2, <3>3, <1>2 DEF AppendReq
      <3>6. UNCHANGED <<appendReplies, snapReqs, snapReplies>>
        BY <2>1 DEF SendEntries
      <3> HIDE DEF q
      <3>7. TypeLogNet'
        BY <3>4, <3>5, <3>6 DEF ShapeInv, TypeOK, TypeLogNet
      <3>8. RequestsFollow'
        BY <3>3, <3>4, <3>5 DEF ShapeInv, RequestsFollow
      <3> QED
        BY <3>7, <3>8
    <2>2. CASE SendSnapshot(i, j)
      <3>1. Len(log[i]) \in Nat \ {0} /\ Base(log[i]) \in Nat
            /\ \A k \in 1..Len(log[i]) : log[i][k].term \in Nat
        BY <1>2, LogFacts
      <3>2. 1 \in 1..Len(log[i])
        BY <3>1
      <3>3. persister[i].snapshot \in Seq(Entry)
        BY DEF ShapeInv, TypeOK, TypePersister, Persisted
      <3>4. log[i][1].term \in Nat
        BY <3>1, <3>2
      <3> QED
        BY <3>1, <3>3, <3>4, <2>2, <1>2 DEF ShapeInv, TypeOK, TypeLogNet, RequestsFollow, SendSnapshot, SnapReq
    <2> QED
      BY <2>1, <2>2 DEF Replicate
  <1> QED
    BY <1>1, <1>3 DEF ShapeInv, TypeOK

(* AppendEntries keeps the shape: an accepted request merges a run of        *)
(* entries that follows one the log has, or one before its base.             *)
LEMMA AppendEntriesShape ==
    ASSUME ShapeInv, NEW m \in appendReqs, AppendEntries(m)
    PROVE  ShapeInv'
  <1> DEFINE i == m.to
  <1>1. m \in AppendReq /\ i \in Server /\ m.from \in Server /\ m.term \in Nat
        /\ m.leaderCommit \in Nat /\ m.entries \in Seq(Entry) /\ Follows(m.entries, m.prevIndex)
    BY DEF ShapeInv, TypeOK, TypeLogNet, AppendReq, RequestsFollow
  <1>2. log[i] \in Log /\ Contiguous(log[i]) /\ term[i] \in Nat /\ commitIndex[i] \in Nat
    BY <1>1 DEF ShapeInv, TypeOK, TypeServer, TypeLog, LogsContiguous, Log
  <1>3. PICK success \in BOOLEAN, conflict \in [term : Nat, index : Nat] :
          ReplyAppend(m, success, conflict)
    <2>1. NoConflict \in [term : Nat, index : Nat]
      BY DEF NoConflict
    <2>2. Conflicting(m, log[i]) \in [term : Nat, index : Nat]
      BY <1>1, <1>2, ConflictingType
    <2> QED
      BY <2>1, <2>2 DEF AppendEntries, AppendEntriesStale, AppendEntriesConflict, AppendEntriesAccept
  <1>4. TypeLeader' /\ TypeService' /\ TypeVoteNet'
    BY <1>3, Frame DEF ReplyAppend
  <1>9. TypeHistory'
    <2>1. acked' \subseteq [server : Server, term : Nat, index : Nat]
      <3>1. CASE acked' = acked
        BY <3>1 DEF ShapeInv, TypeOK, TypeHistory
      <3>2. CASE acked' = acked \cup StoredBy(m)
        <4>1. m.entries # << >> => LogTail(m.entries).index \in Nat
          BY <1>1, LogFacts DEF Log
        <4>2. StoredBy(m) \subseteq [server : Server, term : Nat, index : Nat]
          BY <4>1, <1>1 DEF StoredBy
        <4> QED
          BY <4>2, <3>2 DEF ShapeInv, TypeOK, TypeHistory
      <3> QED
        BY <3>1, <3>2 DEF AppendEntries, AppendEntriesStale, AppendEntriesConflict, AppendEntriesAccept
    <2> QED
      BY <2>1, <1>3 DEF ReplyAppend, ShapeInv, TypeOK, TypeHistory, counters
  <1>5. TypeLogNet' /\ RequestsFollow'
    <2> DEFINE last == IF m.entries = << >> THEN 0 ELSE LogTail(m.entries).index
               r == [from |-> m.to, to |-> m.from, term |-> m.term, replyTerm |-> term[m.to],
                     last |-> last, success |-> success, conflict |-> conflict]
    <2>1. last \in Nat
      <3>1. CASE m.entries = << >>
        BY <3>1
      <3>2. CASE m.entries # << >>
        <4>1. m.entries \in Log
          BY <3>2, <1>1 DEF Log
        <4> QED
          BY <4>1, <3>2, LogFacts
      <3> QED
        BY <3>1, <3>2
    <2>2. appendReplies' = appendReplies \cup {r} /\ UNCHANGED <<appendReqs, snapReqs, snapReplies>>
      BY <1>3 DEF ReplyAppend
    <2> HIDE DEF last
    <2>3. r \in AppendRep
      BY <2>1, <1>1, <1>2, <1>3 DEF AppendRep
    <2> HIDE DEF r
    <2> QED
      BY <2>2, <2>3 DEF ShapeInv, TypeOK, TypeLogNet, RequestsFollow
  <1>6. TypeServer'
    <2>1. UNCHANGED serverVars \/ AcceptLeader(i, m.term)
      BY DEF AppendEntries, AppendEntriesStale, AppendEntriesConflict, AppendEntriesAccept
    <2> QED
      BY <2>1, <1>1, Frame, StepDownShape
  <1>7. TypeLog' /\ LogsContiguous'
    <2>1. CASE UNCHANGED <<log, commitIndex>>
      BY <2>1, <1>3, Frame DEF ReplyAppend, logVars
    <2>2. CASE AppendEntriesAccept(m)
      <3> DEFINE l == Merge(log[i], m.entries)
      <3>1. l \in Log /\ Contiguous(l)
        BY <2>2, <1>1, <1>2, MergeType, MergeContiguous DEF AppendEntriesAccept
      <3>2. log' = [log EXCEPT ![i] = l]
        BY <2>2 DEF AppendEntriesAccept
      <3> HIDE DEF l
      <3>3. log'[i] = l
        BY <3>2, <1>1 DEF ShapeInv, TypeOK, TypeLog
      <3>4. FollowerCommit(m.leaderCommit, commitIndex[i], log'[i]) \in Nat
        BY <3>1, <3>3, <1>1, <1>2, FollowerCommitType
      <3>5. commitIndex' = [commitIndex EXCEPT ![i] =
                              FollowerCommit(m.leaderCommit, commitIndex[i], log'[i])]
        BY <2>2 DEF AppendEntriesAccept
      <3>6. UNCHANGED lastApplied
        BY <1>3 DEF ReplyAppend
      <3>7. TypeLog'
        BY <3>1, <3>2, <3>4, <3>5, <3>6 DEF ShapeInv, TypeOK, TypeLog, Log
      <3>8. LogsContiguous'
        BY <3>1, <3>2 DEF ShapeInv, TypeOK, TypeLog, LogsContiguous
      <3> QED
        BY <3>7, <3>8
    <2> QED
      BY <2>1, <2>2 DEF AppendEntries, AppendEntriesStale, AppendEntriesConflict
  <1>8. TypePersister' /\ PersistedContiguous'
    <2>1. Persist(i) \/ UNCHANGED persister
      BY DEF AppendEntries, AppendEntriesStale, AppendEntriesConflict, AppendEntriesAccept
    <2> QED
      BY <2>1, <1>1, <1>6, <1>7, Frame, PersistShape
  <1> QED
    BY <1>4, <1>5, <1>6, <1>7, <1>8, <1>9 DEF ShapeInv, TypeOK

(* A leader that learns of a higher term from a reply steps down.            *)
LEMMA ReplyStepDownShape ==
    ASSUME ShapeInv, NEW m, m.to \in Server, m.replyTerm \in Nat, ReplyStepDown(m)
    PROVE  ShapeInv'
  <1>1. TypeServer'
    BY StepDownShape DEF ReplyStepDown
  <1>2. TypeLog' /\ LogsContiguous' /\ TypeLeader' /\ TypeService' /\ TypeVoteNet'
        /\ TypeLogNet' /\ RequestsFollow' /\ TypeHistory'
    BY Frame DEF ReplyStepDown
  <1>3. TypePersister' /\ PersistedContiguous'
    BY <1>1, <1>2, PersistShape DEF ReplyStepDown
  <1> QED
    BY <1>1, <1>2, <1>3 DEF ShapeInv, TypeOK

(* Sync keeps the shape.                                                     *)
LEMMA SyncShape ==
    ASSUME ShapeInv, NEW m \in appendReplies, Sync(m)
    PROVE  ShapeInv'
  <1> DEFINE i == m.to
  <1>1. m \in AppendRep /\ i \in Server /\ m.from \in Server /\ m.replyTerm \in Nat /\ m.last \in Nat
    BY DEF ShapeInv, TypeOK, TypeLogNet, AppendRep
  <1>2. log[i] \in Log /\ commitIndex[i] \in Nat /\ nextIndex[i][m.from] \in Nat \ {0}
    BY <1>1 DEF ShapeInv, TypeOK, TypeLog, TypeLeader, Log
  <1>3. CASE ReplyStepDown(m)
    BY <1>3, <1>1, ReplyStepDownShape
  <1>4. CASE SyncSuccess(m)
    <2> DEFINE c == NewCommit(log[i], commitIndex[i], matchIndex'[i], term[i], Matched(m))
    <2>1. c \in Nat
      BY <1>1, <1>2, NewCommitType DEF Matched
    <2>2. commitIndex' = [commitIndex EXCEPT ![i] = c]
      BY <1>4 DEF SyncSuccess
    <2> HIDE DEF c
    <2>3. TypeServer' /\ TypePersister' /\ PersistedContiguous' /\ TypeService' /\ TypeVoteNet'
          /\ TypeLogNet' /\ RequestsFollow'
      BY <1>4, Frame DEF SyncSuccess
    <2>4. TypeLog' /\ LogsContiguous'
      BY <1>4, <2>1, <2>2 DEF ShapeInv, TypeOK, TypeLog, LogsContiguous, SyncSuccess
    <2>5. TypeLeader'
      BY <1>4, <1>1, SMTT(20) DEF ShapeInv, TypeOK, TypeLeader, SyncSuccess, Matched
    <2>6. TypeHistory'
      <3>1. {log[i][k] : k \in 2..Len(log[i])} \subseteq Entry
        BY <1>2, LogFacts
      <3>2. committed' \subseteq Entry
        BY <3>1, <1>4 DEF ShapeInv, TypeOK, TypeHistory, SyncSuccess
      <3> QED
        BY <3>2, <1>4 DEF ShapeInv, TypeOK, TypeHistory, SyncSuccess, counters
    <2> QED
      BY <2>3, <2>4, <2>5, <2>6 DEF ShapeInv, TypeOK
  <1>5. CASE SyncFailure(m)
    <2>1. BackOff(nextIndex[i][m.from], m, log[i]) \in Nat \ {0}
      BY <1>1, <1>2, BackOffType
    <2>2. TypeLeader'
      BY <2>1, <1>5, <1>1 DEF ShapeInv, TypeOK, TypeLeader, SyncFailure
    <2>3. TypeServer' /\ TypeLog' /\ LogsContiguous' /\ TypePersister' /\ PersistedContiguous'
          /\ TypeService' /\ TypeVoteNet' /\ TypeLogNet' /\ RequestsFollow' /\ TypeHistory'
      BY <1>5, Frame DEF SyncFailure
    <2> QED
      BY <2>2, <2>3 DEF ShapeInv, TypeOK
  <1> QED
    BY <1>3, <1>4, <1>5 DEF Sync

(* InstallSnapshot keeps the shape; it only queues the snapshot.             *)
LEMMA InstallSnapshotShape ==
    ASSUME ShapeInv, NEW m \in snapReqs, InstallSnapshot(m)
    PROVE  ShapeInv'
  <1> DEFINE i == m.to
  <1>1. m \in SnapReq /\ i \in Server /\ m.from \in Server /\ m.term \in Nat /\ m.index \in Nat
        /\ m.lastTerm \in Nat /\ m.data \in Seq(Entry) /\ term[i] \in Nat
    BY DEF ShapeInv, TypeOK, TypeServer, TypeLogNet, SnapReq
  <1>2. ReplySnapshot(m)
    BY DEF InstallSnapshot, InstallSnapshotStale, InstallSnapshotAccept
  <1>3. TypeLog' /\ LogsContiguous' /\ TypeLeader' /\ TypeVoteNet' /\ TypeHistory'
    BY <1>2, Frame DEF ReplySnapshot
  <1>4. TypeLogNet' /\ RequestsFollow'
    BY <1>1, <1>2 DEF ShapeInv, TypeOK, TypeLogNet, RequestsFollow, ReplySnapshot, SnapRep
  <1>5. TypeServer'
    BY <1>1, Frame, StepDownShape DEF InstallSnapshot, InstallSnapshotStale, InstallSnapshotAccept
  <1>6. TypeService'
    <2>1. [index |-> m.index, term |-> m.lastTerm, data |-> m.data] \in SnapMsg
      BY <1>1 DEF SnapMsg
    <2>2. UNCHANGED <<pending, service>>
      BY <1>2 DEF ReplySnapshot
    <2>3. TypeService
      BY DEF ShapeInv, TypeOK
    <2>4. \/ snapMsgs' = snapMsgs
          \/ snapMsgs' = [snapMsgs EXCEPT ![i] = snapMsgs[i] \cup
                              {[index |-> m.index, term |-> m.lastTerm, data |-> m.data]}]
      BY DEF InstallSnapshot, InstallSnapshotStale, InstallSnapshotAccept
    <2>5. snapMsgs' \in [Server -> SUBSET SnapMsg]
      <3>1. snapMsgs \in [Server -> SUBSET SnapMsg] /\ i \in Server
        BY <2>3, <1>1 DEF TypeService
      <3>2. PICK s \in SnapMsg : s = [index |-> m.index, term |-> m.lastTerm, data |-> m.data]
        BY <2>1
      <3>3. snapMsgs[i] \cup {s} \in SUBSET SnapMsg
        BY <3>1
      <3>4. snapMsgs' = snapMsgs \/ snapMsgs' = [snapMsgs EXCEPT ![i] = snapMsgs[i] \cup {s}]
        BY <3>2, <2>4
      <3> QED
        BY <3>1, <3>3, <3>4
    <2> QED
      BY <2>2, <2>3, <2>5 DEF TypeService
  <1>7. TypePersister' /\ PersistedContiguous'
    <2>1. Persist(i) \/ UNCHANGED persister
      BY DEF InstallSnapshot, InstallSnapshotStale, InstallSnapshotAccept
    <2> QED
      BY <2>1, <1>1, <1>3, <1>5, Frame, PersistShape
  <1> QED
    BY <1>3, <1>4, <1>5, <1>6, <1>7 DEF ShapeInv, TypeOK

(* The reply to InstallSnapshot keeps the shape.                             *)
LEMMA InstallReplyShape ==
    ASSUME ShapeInv, NEW m \in snapReplies, InstallReply(m)
    PROVE  ShapeInv'
  <1>1. m.to \in Server /\ m.from \in Server /\ m.replyTerm \in Nat /\ m.index \in Nat
    BY DEF ShapeInv, TypeOK, TypeLogNet, SnapRep
  <1>2. CASE ReplyStepDown(m)
    BY <1>2, <1>1, ReplyStepDownShape
  <1>3. CASE InstallReplyNext(m)
    <2>1. TypeServer' /\ TypeLog' /\ LogsContiguous' /\ TypePersister' /\ PersistedContiguous'
          /\ TypeService' /\ TypeVoteNet' /\ TypeLogNet' /\ RequestsFollow' /\ TypeHistory'
      BY <1>3, Frame DEF InstallReplyNext
    <2>2. TypeLeader'
      BY <1>3, <1>1 DEF ShapeInv, TypeOK, TypeLeader, InstallReplyNext
    <2> QED
      BY <2>1, <2>2 DEF ShapeInv, TypeOK
  <1> QED
    BY <1>2, <1>3 DEF InstallReply

(* DoApply keeps the shape.                                                  *)
LEMMA DoApplyShape ==
    ASSUME ShapeInv, NEW i \in Server, DoApply(i)
    PROVE  ShapeInv'
  <1>1. TypeServer' /\ TypeLeader' /\ TypePersister' /\ PersistedContiguous' /\ TypeVoteNet'
        /\ TypeLogNet' /\ RequestsFollow'
    BY Frame DEF DoApply
  <1>2. TypeLog' /\ LogsContiguous'
    BY DEF ShapeInv, TypeOK, TypeLog, LogsContiguous, DoApply
  <1>3. TypeService'
    <2>1. log[i] \in Log /\ lastApplied[i] + 1 \in Nat
      BY DEF ShapeInv, TypeOK, TypeLog, Log
    <2>2. GetLogAtIndex(log[i], lastApplied[i] + 1) \in Entry
      BY <2>1, HasIndexFacts DEF DoApply, NextInLog
    <2>3. <<GetLogAtIndex(log[i], lastApplied[i] + 1)>> \in Seq(Entry)
      BY <2>2
    <2> QED
      BY <2>3 DEF ShapeInv, TypeOK, TypeService, DoApply
  <1>4. TypeHistory'
    BY DEF ShapeInv, TypeOK, TypeHistory, DoApply, history
  <1> QED
    BY <1>1, <1>2, <1>3, <1>4 DEF ShapeInv, TypeOK

(* A command the service rejects keeps the shape.                            *)
LEMMA ApplyRejectedShape ==
    ASSUME ShapeInv, NEW i \in Server, ApplyRejected(i)
    PROVE  ShapeInv'
  <1>1. TypeServer' /\ TypeLog' /\ LogsContiguous' /\ TypeLeader' /\ TypePersister'
        /\ PersistedContiguous' /\ TypeVoteNet' /\ TypeLogNet' /\ RequestsFollow' /\ TypeHistory'
    BY Frame DEF ApplyRejected
  <1>2. << >> \in Seq(Entry)
    BY EmptySeq
  <1>3. TypeService'
    BY <1>2 DEF ShapeInv, TypeOK, TypeService, ApplyRejected
  <1> QED
    BY <1>1, <1>3 DEF ShapeInv, TypeOK

(* A command the service applies keeps the shape, the snapshot it may        *)
(* trigger included.                                                         *)
LEMMA ApplyShape ==
    ASSUME ShapeInv, NEW i \in Server, Apply(i)
    PROVE  ShapeInv'
  <1> DEFINE e == pending[i][1]
             st == Append(service[i].state, e)
  <1>1. pending[i] \in Seq(Entry) /\ pending[i] # << >> /\ service[i].state \in Seq(Entry)
    BY DEF ShapeInv, TypeOK, TypeService, Apply
  <1>2. e \in Entry /\ e.index \in Nat
    <2>1. pending[i] \in Log
      BY <1>1 DEF Log
    <2>2. Len(pending[i]) \in Nat \ {0} /\ \A k \in 1..Len(pending[i]) : pending[i][k] \in Entry
      BY <2>1, LogFacts
    <2>3. 1 \in 1..Len(pending[i])
      BY <2>2
    <2>4. pending[i][1] \in Entry
      BY <2>2, <2>3
    <2> QED
      BY <2>4 DEF Entry
  <1>3. st \in Seq(Entry)
    BY <1>1, <1>2, AppendProperties
  <1>4. service' = [service EXCEPT ![i] = [lastApplied |-> e.index, state |-> st]]
    BY DEF Apply
  <1>5. SnapshotDue(i, e.index) =>
          log' = [log EXCEPT ![i] = Trim(log[i], e.index)] /\ SaveStateAndSnapshot(i, service'[i].state)
    BY DEF Apply
  <1>6. ~ SnapshotDue(i, e.index) => UNCHANGED <<log, persister>>
    BY DEF Apply
  <1>7. pending' = [pending EXCEPT ![i] = << >>] /\ UNCHANGED <<commitIndex, lastApplied, snapMsgs>>
    BY DEF Apply
  <1>8. TypeServer' /\ TypeLeader' /\ TypeVoteNet' /\ TypeLogNet' /\ RequestsFollow' /\ TypeHistory'
    BY Frame DEF Apply
  <1> HIDE DEF e, st
  <1>9. TypeService'
    <2>1. [lastApplied |-> e.index, state |-> st] \in [lastApplied : Nat, state : Seq(Entry)]
      BY <1>2, <1>3
    <2>2. << >> \in Seq(Entry)
      BY EmptySeq
    <2> QED
      BY <2>1, <2>2, <1>4, <1>7 DEF ShapeInv, TypeOK, TypeService
  <1>10. CASE ~ SnapshotDue(i, e.index)
    <2>1. TypeLog' /\ LogsContiguous' /\ TypePersister' /\ PersistedContiguous'
      BY <1>10, <1>6, <1>7, Frame DEF logVars
    <2> QED
      BY <2>1, <1>8, <1>9 DEF ShapeInv, TypeOK
  <1>11. CASE SnapshotDue(i, e.index)
    <2>1. log[i] \in Log /\ Contiguous(log[i])
      BY DEF ShapeInv, TypeOK, TypeLog, LogsContiguous, Log
    <2>2. Trim(log[i], e.index) \in Log /\ Contiguous(Trim(log[i], e.index))
      BY <2>1, <1>2, <1>11, TrimShape DEF SnapshotDue
    <2>3. TypeLog' /\ LogsContiguous'
      BY <2>2, <1>11, <1>5, <1>7 DEF ShapeInv, TypeOK, TypeLog, LogsContiguous, Log
    <2>4. service'[i].state \in Seq(Entry)
      BY <1>9 DEF TypeService
    <2>5. TypePersister' /\ PersistedContiguous'
      BY <2>3, <2>4, <1>5, <1>8, <1>11, SaveShape
    <2> QED
      BY <2>3, <2>5, <1>8, <1>9 DEF ShapeInv, TypeOK
  <1> QED
    BY <1>10, <1>11

(* A snapshot CondInstallSnapshot rejects keeps the shape.                   *)
LEMMA SnapshotRejectedShape ==
    ASSUME ShapeInv, NEW i \in Server, NEW s \in snapMsgs[i], SnapshotRejected(i, s)
    PROVE  ShapeInv'
  <1>1. TypeServer' /\ TypeLog' /\ LogsContiguous' /\ TypeLeader' /\ TypePersister'
        /\ PersistedContiguous' /\ TypeVoteNet' /\ TypeLogNet' /\ RequestsFollow' /\ TypeHistory'
    BY Frame DEF SnapshotRejected
  <1>2. TypeService'
    BY DEF ShapeInv, TypeOK, TypeService, SnapshotRejected
  <1> QED
    BY <1>1, <1>2 DEF ShapeInv, TypeOK

(* A snapshot CondInstallSnapshot accepts keeps the shape.                   *)
LEMMA CondInstallSnapshotShape ==
    ASSUME ShapeInv, NEW i \in Server, NEW s \in snapMsgs[i], CondInstallSnapshot(i, s)
    PROVE  ShapeInv'
  <1>1. s \in SnapMsg
    BY DEF ShapeInv, TypeOK, TypeService
  <1>2. s.index \in Nat /\ s.data \in Seq(Entry)
    BY <1>1 DEF SnapMsg
  <1>3. TypeServer' /\ TypeLeader' /\ TypeVoteNet' /\ TypeLogNet' /\ RequestsFollow' /\ TypeHistory'
    BY Frame DEF CondInstallSnapshot
  <1>4. log[i] \in Log /\ Contiguous(log[i])
    BY DEF ShapeInv, TypeOK, TypeLog, LogsContiguous, Log
  <1>5. Installed(log[i], s) \in Log /\ Contiguous(Installed(log[i], s))
    BY <1>1, <1>4, InstalledShape DEF CondInstallSnapshot
  <1>6. TypeLog' /\ LogsContiguous'
    BY <1>2, <1>5 DEF ShapeInv, TypeOK, TypeLog, LogsContiguous, Log, CondInstallSnapshot
  <1>7. TypeService'
    <2>1. [lastApplied |-> s.index, state |-> s.data] \in [lastApplied : Nat, state : Seq(Entry)]
      BY <1>2
    <2> QED
      BY <2>1 DEF ShapeInv, TypeOK, TypeService, CondInstallSnapshot
  <1>8. TypePersister' /\ PersistedContiguous'
    BY <1>2, <1>3, <1>6, SaveShape DEF CondInstallSnapshot
  <1> QED
    BY <1>3, <1>6, <1>7, <1>8 DEF ShapeInv, TypeOK

(* A process that died restarts with the shape of what it had persisted.     *)
LEMMA RestartShape ==
    ASSUME ShapeInv, NEW i \in Server, NEW p \in Persisted, Contiguous(p.log), Restart(i, p)
    PROVE  /\ TypeServer' /\ TypeLog' /\ LogsContiguous' /\ TypeLeader' /\ TypePersister'
           /\ PersistedContiguous' /\ TypeService' /\ crashes' \in Nat
  <1>1. p.term \in Nat /\ p.votedFor \in Server \cup {Nil} /\ p.log \in Log /\ p.snapshot \in Seq(Entry)
    BY DEF Persisted, Log
  <1>2. RestartIndex(p) \in Nat
    BY <1>1, LogFacts DEF RestartIndex
  <1>3. TypeServer'
    BY <1>1 DEF ShapeInv, TypeOK, TypeServer, Restart
  <1>4. TypeLog' /\ LogsContiguous'
    BY <1>1, <1>2 DEF ShapeInv, TypeOK, TypeLog, LogsContiguous, Restart, Log
  <1>5. TypeLeader'
    BY DEF ShapeInv, TypeOK, TypeLeader, Restart
  <1>6. TypePersister' /\ PersistedContiguous'
    BY DEF ShapeInv, TypeOK, TypePersister, PersistedContiguous, Restart
  <1>7. TypeService'
    <2>1. [lastApplied |-> 0, state |-> p.snapshot] \in [lastApplied : Nat, state : Seq(Entry)]
      BY <1>1
    <2>2. << >> \in Seq(Entry)
      BY EmptySeq
    <2> QED
      BY <2>1, <2>2 DEF ShapeInv, TypeOK, TypeService, Restart
  <1>8. crashes' \in Nat
    BY DEF ShapeInv, TypeOK, TypeHistory, Restart
  <1> QED
    BY <1>3, <1>4, <1>5, <1>6, <1>7, <1>8

(* What is persisted between resetTerm and the next persist has its shape.   *)
LEMMA AfterResetTermShape ==
    ASSUME ShapeInv, NEW i \in Server, NEW t \in Nat
    PROVE  AfterResetTerm(i, t) \in Persisted /\ Contiguous(AfterResetTerm(i, t).log)
  <1>1. persister[i] \in Persisted /\ Contiguous(persister[i].log)
    BY DEF ShapeInv, TypeOK, TypePersister, PersistedContiguous
  <1> QED
    BY <1>1 DEF AfterResetTerm, Persisted

(* A crash keeps the shape, between the two writes of a handler too.         *)
LEMMA CrashShape ==
    ASSUME ShapeInv,
           \/ \E i \in Server : Crash(i) \/ CrashInElection(i)
           \/ \E m \in voteReqs : CrashInRequestVote(m)
           \/ \E m \in appendReqs : CrashInAppendEntries(m)
    PROVE  ShapeInv'
  <1>1. PICK i \in Server, p \in Persisted : Contiguous(p.log) /\ Restart(i, p)
    <2>1. ASSUME NEW i \in Server, Crash(i)
          PROVE  \E p \in Persisted : Contiguous(p.log) /\ Restart(i, p)
      BY <2>1 DEF Crash, ShapeInv, TypeOK, TypePersister, PersistedContiguous
    <2>2. ASSUME NEW i \in Server, CrashInElection(i)
          PROVE  \E p \in Persisted : Contiguous(p.log) /\ Restart(i, p)
      <3>1. term[i] + 1 \in Nat
        BY DEF ShapeInv, TypeOK, TypeServer
      <3> QED
        BY <3>1, <2>2, AfterResetTermShape DEF CrashInElection
    <2>3. ASSUME NEW m \in voteReqs, CrashInRequestVote(m)
          PROVE  m.to \in Server /\ \E p \in Persisted : Contiguous(p.log) /\ Restart(m.to, p)
      <3>1. m.to \in Server /\ m.term \in Nat
        BY DEF ShapeInv, TypeOK, TypeVoteNet, VoteReq
      <3> QED
        BY <3>1, <2>3, AfterResetTermShape DEF CrashInRequestVote
    <2>4. ASSUME NEW m \in appendReqs, CrashInAppendEntries(m)
          PROVE  m.to \in Server /\ \E p \in Persisted : Contiguous(p.log) /\ Restart(m.to, p)
      <3>1. m.to \in Server /\ m.term \in Nat
        BY DEF ShapeInv, TypeOK, TypeLogNet, AppendReq
      <3> QED
        BY <3>1, <2>4, AfterResetTermShape DEF CrashInAppendEntries
    <2> QED
      BY <2>1, <2>2, <2>3, <2>4
  <1>2. /\ TypeServer' /\ TypeLog' /\ LogsContiguous' /\ TypeLeader' /\ TypePersister'
        /\ PersistedContiguous' /\ TypeService' /\ crashes' \in Nat
    BY <1>1, RestartShape
  <1>3. voteReqs' \subseteq voteReqs /\ UNCHANGED <<voteReplies, logNet, applies, history>>
    BY DEF Crash, CrashInElection, CrashInRequestVote, CrashInAppendEntries, voteNet
  <1>4. elections' \in Nat
    BY DEF Crash, CrashInElection, CrashInRequestVote, CrashInAppendEntries, ShapeInv, TypeOK, TypeHistory
  <1>5. TypeVoteNet'
    BY <1>3 DEF ShapeInv, TypeOK, TypeVoteNet
  <1>6. TypeLogNet' /\ RequestsFollow'
    BY <1>3, Frame
  <1>7. TypeHistory'
    BY <1>2, <1>3, <1>4 DEF ShapeInv, TypeOK, TypeHistory, history
  <1> QED
    BY <1>2, <1>5, <1>6, <1>7 DEF ShapeInv, TypeOK

(* A lost message keeps the shape.                                           *)
LEMMA DropShape ==
    ASSUME ShapeInv, Drop
    PROVE  ShapeInv'
  <1>1. TypeServer' /\ TypeLog' /\ LogsContiguous' /\ TypeLeader' /\ TypePersister'
        /\ PersistedContiguous' /\ TypeService' /\ TypeVoteNet' /\ TypeHistory'
    BY Frame DEF Drop
  <1>2. /\ appendReqs' \subseteq appendReqs /\ appendReplies' \subseteq appendReplies
        /\ snapReqs' \subseteq snapReqs /\ snapReplies' \subseteq snapReplies
    BY DEF Drop
  <1>3. TypeLogNet' /\ RequestsFollow'
    BY <1>2 DEF ShapeInv, TypeOK, TypeLogNet, RequestsFollow
  <1> QED
    BY <1>1, <1>3 DEF ShapeInv, TypeOK

(* The state Make builds has the shape.                                      *)
LEMMA InitShape ==
    ASSUME Init
    PROVE  ShapeInv
  <1>1. Sentinel \in Entry /\ Sentinel.index = 0
    BY DEF Sentinel, Entry
  <1>2. <<Sentinel>> \in Seq(Entry) \ {<< >>} /\ << >> \in Seq(Entry)
    BY <1>1
  <1>3. Contiguous(<<Sentinel>>)
    BY <1>1 DEF Contiguous, Base
  <1>4. TypeServer /\ TypeLeader
    BY DEF Init, TypeServer, TypeLeader
  <1>5. TypeLog /\ LogsContiguous
    BY <1>2, <1>3 DEF Init, TypeLog, LogsContiguous
  <1>6. TypePersister /\ PersistedContiguous
    <2> DEFINE p == [term |-> 0, votedFor |-> Nil, log |-> <<Sentinel>>, snapshot |-> << >>]
    <2>1. p \in Persisted /\ p.log = <<Sentinel>>
      BY <1>2 DEF Persisted
    <2>2. persister = [i \in Server |-> p]
      BY DEF Init
    <2> HIDE DEF p
    <2> QED
      BY <2>1, <2>2, <1>3 DEF TypePersister, PersistedContiguous
  <1>7. TypeService
    <2>1. [lastApplied |-> 0, state |-> << >>] \in [lastApplied : Nat, state : Seq(Entry)]
      BY <1>2
    <2> QED
      BY <2>1, <1>2 DEF Init, TypeService
  <1>8. TypeVoteNet /\ TypeLogNet /\ TypeHistory /\ RequestsFollow
    BY DEF Init, TypeVoteNet, TypeLogNet, TypeHistory, RequestsFollow
  <1> QED
    BY <1>4, <1>5, <1>6, <1>7, <1>8 DEF ShapeInv, TypeOK

(* The shape of every log, request and persisted state is inductive.         *)
LEMMA ShapeStep ==
    ASSUME ShapeInv, [Next]_vars
    PROVE  ShapeInv'
  <1>1. CASE UNCHANGED vars
    BY <1>1, Frame DEF vars, ShapeInv, TypeOK
  <1>2. CASE Next
    BY <1>2, DoElectionShape, RequestVoteShape, VoteReplyShape, StartActionShape, ReplicateShape,
       AppendEntriesShape, SyncShape, InstallSnapshotShape, InstallReplyShape, DoApplyShape,
       ApplyRejectedShape, ApplyShape, SnapshotRejectedShape, CondInstallSnapshotShape,
       CrashShape, DropShape DEF Next
  <1> QED
    BY <1>1, <1>2

(* For any number of servers, and any bounds, every variable keeps its type: *)
(* no handler empties a log or takes a nextIndex to 0.                       *)
THEOREM TypeCorrectness == Spec => []TypeOK
  <1>1. Init => ShapeInv
    BY InitShape
  <1>2. ShapeInv /\ [Next]_vars => ShapeInv'
    BY ShapeStep
  <1>3. ShapeInv => TypeOK
    BY DEF ShapeInv
  <1> QED
    BY <1>1, <1>2, <1>3, PTL DEF Spec

(* For any number of servers the indices of a log are consecutive, whatever  *)
(* AppendEntries merges, Snapshot cuts and CondInstallSnapshot splices.      *)
THEOREM ContiguousLogs == Spec => []LogsContiguous
  <1>1. Init => ShapeInv
    BY InitShape
  <1>2. ShapeInv /\ [Next]_vars => ShapeInv'
    BY ShapeStep
  <1>3. ShapeInv => LogsContiguous
    BY DEF ShapeInv
  <1> QED
    BY <1>1, <1>2, <1>3, PTL DEF Spec

-----------------------------------------------------------------------------
(* No two servers win one term.  A server votes at most once in a term, and  *)
(* two majorities share a server; the argument has to carry a vote from the  *)
(* handler that casts it to the election it decides, through crashes and     *)
(* through the resetTerm that clears a candidate's vote within its term.     *)

(* What a restart reads back is the term and the vote in memory.             *)
VoteDurable ==
    \A i \in Server : persister[i].term = term[i] /\ persister[i].votedFor = votedFor[i]

(* A candidate and a leader have voted for themselves.                       *)
SelfVote == \A i \in Server : state[i] # "Follower" => votedFor[i] = i

RequestsToOthers == \A m \in voteReqs : m.from # m.to

(* Who voted for another server remembers it as long as the term lasts.      *)
VotesKept ==
    \A v, c \in Server : \A t \in Nat :
        v # c /\ Granted(v, c, t) =>
            \/ term[v] > t
            \/ term[v] = t /\ votedFor[v] = c /\ state[v] = "Follower"

OneVote ==
    \A v, c, d \in Server : \A t \in Nat :
        v # c /\ v # d /\ Granted(v, c, t) /\ Granted(v, d, t) => c = d

(* Who won a term keeps its own vote as long as the term lasts.              *)
WinnersKeepVote ==
    \A e \in elected :
        /\ IsMajority(e.votes)
        /\ \/ term[e.leader] > e.term
           \/ term[e.leader] = e.term /\ votedFor[e.leader] = e.leader /\ state[e.leader] # "Candidate"

(* Who won a term voted for nobody else in it.                               *)
WinnersVoteOnce ==
    \A e \in elected : \A c \in Server : c # e.leader => ~ Granted(e.leader, c, e.term)

(* The inductive invariant behind ElectionSafety.                            *)
ElectionInv ==
    /\ VoteDurable /\ SelfVote /\ RequestsToOthers /\ VotesKept /\ OneVote
    /\ WinnersKeepVote /\ WinnersVoteOnce

-----------------------------------------------------------------------------
(* Two majorities of the servers share one.                                  *)
LEMMA MajoritiesShare ==
    ASSUME NEW S \in SUBSET Server, NEW T \in SUBSET Server, IsMajority(S), IsMajority(T)
    PROVE  \E v \in Server : v \in S /\ v \in T
  <1>1. IsFiniteSet(Server) /\ IsFiniteSet(S) /\ IsFiniteSet(T)
    BY ServerAssumption, FS_Subset
  <1>2. Cardinality(Server) \in Nat /\ Cardinality(S) \in Nat /\ Cardinality(T) \in Nat
    BY <1>1, FS_CardinalityType
  <1>3. Cardinality(S) + Cardinality(T) > Cardinality(Server)
    BY <1>2 DEF IsMajority
  <1> QED
    BY <1>1, <1>3, FS_MajoritiesIntersect

(* The invariant implies the property.                                       *)
LEMMA ElectionInvSafe ==
    ASSUME ShapeInv, ElectionInv
    PROVE  ElectionSafety
  <1> SUFFICES ASSUME NEW e \in elected, NEW f \in elected, e.term = f.term, e.leader # f.leader
               PROVE  FALSE
    BY DEF ElectionSafety
  <1>1. /\ e.term \in Nat /\ e.leader \in Server /\ e.votes \in SUBSET Server
        /\ f.leader \in Server /\ f.votes \in SUBSET Server
    BY DEF ShapeInv, TypeOK, TypeHistory
  <1>2. IsMajority(e.votes) /\ IsMajority(f.votes)
    BY DEF ElectionInv, WinnersKeepVote
  <1>3. PICK v \in Server : v \in e.votes /\ v \in f.votes
    BY <1>1, <1>2, MajoritiesShare
  <1>4. Granted(v, e.leader, e.term) /\ Granted(v, f.leader, e.term)
    BY <1>3 DEF Granted
  <1>5. CASE v = e.leader
    BY <1>1, <1>4, <1>5 DEF ElectionInv, WinnersVoteOnce
  <1>6. CASE v = f.leader
    BY <1>1, <1>4, <1>6 DEF ElectionInv, WinnersVoteOnce
  <1>7. CASE v # e.leader /\ v # f.leader
    BY <1>1, <1>4, <1>7 DEF ElectionInv, OneVote
  <1> QED
    BY <1>5, <1>6, <1>7
-----------------------------------------------------------------------------
(* A step in which v casts no vote for another server: it moves to a later   *)
(* term, keeps its vote, or is a candidate that gives up.                    *)
KeepsVote(v) ==
    \/ term'[v] > term[v] /\ (state'[v] # "Follower" => votedFor'[v] = v)
    \/ term'[v] = term[v] /\ votedFor'[v] = votedFor[v] /\ state'[v] \in {state[v], "Follower"}
    \/ term'[v] = term[v] /\ state[v] = "Candidate" /\ state'[v] = "Follower"

(* A step in which nobody votes for another server and nobody wins.          *)
NoVoteStep ==
    /\ \A v \in Server : KeepsVote(v)
    /\ \A v, c \in Server : \A t \in Nat : v # c /\ Granted(v, c, t)' => Granted(v, c, t)
    /\ elected' = elected
    /\ RequestsToOthers' /\ VoteDurable'

(* Such a step preserves the invariant.                                      *)
LEMMA NoVoteStepKeeps ==
    ASSUME ShapeInv, ShapeInv', ElectionInv, NoVoteStep
    PROVE  ElectionInv'
  <1>1. \A v \in Server : term[v] \in Nat /\ term'[v] \in Nat
        /\ state[v] \in {"Follower", "Candidate", "Leader"}
    BY DEF ShapeInv, TypeOK, TypeServer
  <1>2. SelfVote'
    BY <1>1 DEF ElectionInv, SelfVote, NoVoteStep, KeepsVote
  <1>3. VotesKept'
    <2> SUFFICES ASSUME NEW v \in Server, NEW c \in Server, NEW t \in Nat, v # c, Granted(v, c, t)'
                 PROVE  \/ term'[v] > t
                        \/ term'[v] = t /\ votedFor'[v] = c /\ state'[v] = "Follower"
      BY DEF VotesKept
    <2>1. Granted(v, c, t)
      BY DEF NoVoteStep
    <2>2. \/ term[v] > t
          \/ term[v] = t /\ votedFor[v] = c /\ state[v] = "Follower"
      BY <2>1 DEF ElectionInv, VotesKept
    <2>3. KeepsVote(v)
      BY DEF NoVoteStep
    <2> QED
      BY <2>2, <2>3, <1>1 DEF KeepsVote
  <1>4. OneVote'
    <2> SUFFICES ASSUME NEW v \in Server, NEW c \in Server, NEW d \in Server, NEW t \in Nat,
                        v # c, v # d, Granted(v, c, t)', Granted(v, d, t)'
                 PROVE  c = d
      BY DEF OneVote
    <2>1. Granted(v, c, t) /\ Granted(v, d, t)
      BY DEF NoVoteStep
    <2> QED
      BY <2>1 DEF ElectionInv, OneVote
  <1>5. WinnersKeepVote'
    <2> SUFFICES ASSUME NEW e \in elected
                 PROVE  /\ IsMajority(e.votes)
                        /\ \/ term'[e.leader] > e.term
                           \/ /\ term'[e.leader] = e.term /\ votedFor'[e.leader] = e.leader
                              /\ state'[e.leader] # "Candidate"
      BY DEF WinnersKeepVote, NoVoteStep, IsMajority
    <2>1. e.leader \in Server /\ e.term \in Nat
      BY DEF ShapeInv, TypeOK, TypeHistory
    <2>2. /\ IsMajority(e.votes)
          /\ \/ term[e.leader] > e.term
             \/ /\ term[e.leader] = e.term /\ votedFor[e.leader] = e.leader
                /\ state[e.leader] # "Candidate"
      BY DEF ElectionInv, WinnersKeepVote
    <2>3. KeepsVote(e.leader)
      BY <2>1 DEF NoVoteStep
    <2> QED
      BY <2>1, <2>2, <2>3, <1>1 DEF KeepsVote
  <1>6. WinnersVoteOnce'
    <2> SUFFICES ASSUME NEW e \in elected, NEW c \in Server, c # e.leader,
                        Granted(e.leader, c, e.term)'
                 PROVE  FALSE
      BY DEF WinnersVoteOnce, NoVoteStep
    <2>1. e.leader \in Server /\ e.term \in Nat
      BY DEF ShapeInv, TypeOK, TypeHistory
    <2>2. Granted(e.leader, c, e.term)
      BY <2>1 DEF NoVoteStep
    <2> QED
      BY <2>2 DEF ElectionInv, WinnersVoteOnce
  <1> QED
    BY <1>2, <1>3, <1>4, <1>5, <1>6 DEF ElectionInv, NoVoteStep
-----------------------------------------------------------------------------
(* persist and SaveStateAndSnapshot leave the vote in memory durable.        *)
LEMMA PersistDurable ==
    ASSUME ShapeInv, ElectionInv, NEW i \in Server, NEW data,
           Persist(i) \/ SaveStateAndSnapshot(i, data),
           \A j \in Server \ {i} : term'[j] = term[j] /\ votedFor'[j] = votedFor[j]
    PROVE  VoteDurable'
  <1>1. persister \in [Server -> Persisted]
    BY DEF ShapeInv, TypeOK, TypePersister
  <1>2. PICK snap : persister' = [persister EXCEPT ![i] =
          [term |-> term'[i], votedFor |-> votedFor'[i], log |-> log'[i], snapshot |-> snap]]
    BY DEF Persist, SaveStateAndSnapshot
  <1>3. \A j \in Server : persister[j].term = term[j] /\ persister[j].votedFor = votedFor[j]
    BY DEF ElectionInv, VoteDurable
  <1> QED
    BY <1>1, <1>2, <1>3 DEF VoteDurable

(* No vote appears when no reply grants one and counts only shrink.          *)
LEMMA NoNewVotes ==
    ASSUME elected' = elected,
           \A m \in voteReplies' : m.granted => m \in voteReplies,
           \A c \in Server : votes'[c] \subseteq {c} \/ (votes'[c] = votes[c] /\ term'[c] = term[c])
    PROVE  \A v, c \in Server : \A t \in Nat : v # c /\ Granted(v, c, t)' => Granted(v, c, t)
  BY DEF Granted

(* A step that touches neither votes nor vote messages.                      *)
LEMMA AloneNoVote ==
    ASSUME ShapeInv, ElectionInv, UNCHANGED <<serverVars, voteNet, elected>>, VoteDurable'
    PROVE  NoVoteStep
  <1>1. UNCHANGED <<state, term, votedFor, votes, voteReqs, voteReplies, elected>>
    BY DEF serverVars, voteNet
  <1>2. \A v \in Server : KeepsVote(v)
    BY <1>1 DEF KeepsVote
  <1>3. RequestsToOthers'
    BY <1>1 DEF ElectionInv, RequestsToOthers
  <1>4. \A v, c \in Server : \A t \in Nat : v # c /\ Granted(v, c, t)' => Granted(v, c, t)
    BY <1>1, NoNewVotes
  <1> QED
    BY <1>1, <1>2, <1>3, <1>4 DEF NoVoteStep

(* A server that resets its term, higher or that of its candidacy.           *)
LEMMA StepDownNoVote ==
    ASSUME ShapeInv, ElectionInv, NEW i \in Server, NEW t \in Nat,
           t > term[i] \/ (t = term[i] /\ state[i] = "Candidate"),
           StepDown(i, t), Persist(i), UNCHANGED elected, voteReqs' \subseteq voteReqs,
           \A m \in voteReplies' : m.granted => m \in voteReplies
    PROVE  NoVoteStep
  <1>1. /\ state \in [Server -> {"Follower", "Candidate", "Leader"}] /\ term \in [Server -> Nat]
        /\ votedFor \in [Server -> Server \cup {Nil}] /\ votes \in [Server -> SUBSET Server]
    BY DEF ShapeInv, TypeOK, TypeServer
  <1>2. /\ state' = [state EXCEPT ![i] = "Follower"] /\ votes' = [votes EXCEPT ![i] = {}]
        /\ term' = [term EXCEPT ![i] = t] /\ votedFor' = [votedFor EXCEPT ![i] = Nil]
    BY DEF StepDown, BecomeFollower
  <1>3. \A v \in Server : KeepsVote(v)
    BY <1>1, <1>2 DEF KeepsVote
  <1>4. \A c \in Server : votes'[c] \subseteq {c} \/ (votes'[c] = votes[c] /\ term'[c] = term[c])
    BY <1>1, <1>2
  <1>5. \A v, c \in Server : \A s \in Nat : v # c /\ Granted(v, c, s)' => Granted(v, c, s)
    BY <1>4, NoNewVotes
  <1>6. VoteDurable'
    BY <1>1, <1>2, PersistDurable
  <1>7. RequestsToOthers'
    BY DEF ElectionInv, RequestsToOthers
  <1> QED
    BY <1>3, <1>5, <1>6, <1>7 DEF NoVoteStep

(* A restart from what the last persist, or only resetTerm, left.            *)
LEMMA RestartNoVote ==
    ASSUME ShapeInv, ElectionInv, NEW i \in Server, NEW p, Restart(i, p),
           \/ p.term \in Nat /\ p.term > term[i]
           \/ p.term = term[i] /\ (p.votedFor = votedFor[i] \/ state[i] = "Candidate"),
           UNCHANGED <<elected, voteReplies>>, voteReqs' \subseteq voteReqs
    PROVE  NoVoteStep
  <1>1. /\ state \in [Server -> {"Follower", "Candidate", "Leader"}] /\ term \in [Server -> Nat]
        /\ votedFor \in [Server -> Server \cup {Nil}] /\ votes \in [Server -> SUBSET Server]
        /\ persister \in [Server -> Persisted]
    BY DEF ShapeInv, TypeOK, TypeServer, TypePersister
  <1>2. /\ state' = [state EXCEPT ![i] = "Follower"] /\ votes' = [votes EXCEPT ![i] = {}]
        /\ term' = [term EXCEPT ![i] = p.term] /\ votedFor' = [votedFor EXCEPT ![i] = p.votedFor]
        /\ persister' = [persister EXCEPT ![i] = p]
    BY DEF Restart
  <1>3. \A v \in Server : KeepsVote(v)
    BY <1>1, <1>2 DEF KeepsVote
  <1>4. \A c \in Server : votes'[c] \subseteq {c} \/ (votes'[c] = votes[c] /\ term'[c] = term[c])
    BY <1>1, <1>2
  <1>5. \A v, c \in Server : \A t \in Nat : v # c /\ Granted(v, c, t)' => Granted(v, c, t)
    BY <1>4, NoNewVotes
  <1>6. VoteDurable'
    BY <1>1, <1>2 DEF ElectionInv, VoteDurable
  <1>7. RequestsToOthers'
    BY DEF ElectionInv, RequestsToOthers
  <1> QED
    BY <1>3, <1>5, <1>6, <1>7 DEF NoVoteStep
-----------------------------------------------------------------------------
(* A new candidate votes for itself in a term it has not been in.            *)
LEMMA DoElectionNoVote ==
    ASSUME ShapeInv, ElectionInv, NEW i \in Server, DoElection(i)
    PROVE  NoVoteStep
  <1>1. /\ state \in [Server -> {"Follower", "Candidate", "Leader"}] /\ term \in [Server -> Nat]
        /\ votedFor \in [Server -> Server \cup {Nil}] /\ votes \in [Server -> SUBSET Server]
    BY DEF ShapeInv, TypeOK, TypeServer
  <1>2. /\ state' = [state EXCEPT ![i] = "Candidate"] /\ votes' = [votes EXCEPT ![i] = {i}]
        /\ term' = [term EXCEPT ![i] = term[i] + 1] /\ votedFor' = [votedFor EXCEPT ![i] = i]
        /\ UNCHANGED <<voteReplies, elected>>
    BY DEF DoElection, history
  <1>3. \A v \in Server : KeepsVote(v)
    BY <1>1, <1>2 DEF KeepsVote
  <1>4. \A c \in Server : votes'[c] \subseteq {c} \/ (votes'[c] = votes[c] /\ term'[c] = term[c])
    BY <1>1, <1>2
  <1>5. \A v, c \in Server : \A t \in Nat : v # c /\ Granted(v, c, t)' => Granted(v, c, t)
    BY <1>2, <1>4, NoNewVotes
  <1>6. VoteDurable'
    <2>1. Persist(i)
      BY DEF DoElection
    <2> QED
      BY <2>1, <1>1, <1>2, PersistDurable
  <1>7. RequestsToOthers'
    BY DEF ElectionInv, RequestsToOthers, DoElection
  <1> QED
    BY <1>2, <1>3, <1>5, <1>6, <1>7 DEF NoVoteStep

(* Every denied vote, and every reply that does not decide an election.      *)
LEMMA DeniedNoVote ==
    ASSUME ShapeInv, ElectionInv, NEW m \in voteReqs, RequestVoteStale(m) \/ RequestVoteDeny(m)
    PROVE  NoVoteStep
  <1>1. m.to \in Server /\ m.term \in Nat /\ term[m.to] \in Nat
    BY DEF ShapeInv, TypeOK, TypeVoteNet, TypeServer, VoteReq
  <1>2. ReplyVote(m, FALSE)
    BY DEF RequestVoteStale, RequestVoteDeny
  <1>3. voteReqs' \subseteq voteReqs /\ UNCHANGED elected
        /\ \A r \in voteReplies' : r.granted => r \in voteReplies
    BY <1>2 DEF ReplyVote, history
  <1>4. CASE UNCHANGED <<serverVars, persister>>
    <2>1. UNCHANGED <<state, term, votedFor, votes, persister>>
      BY <1>4 DEF serverVars
    <2>2. \A v \in Server : KeepsVote(v)
      BY <2>1 DEF KeepsVote
    <2>3. VoteDurable' /\ RequestsToOthers'
      BY <2>1, <1>3 DEF ElectionInv, VoteDurable, RequestsToOthers
    <2>4. \A v, c \in Server : \A t \in Nat : v # c /\ Granted(v, c, t)' => Granted(v, c, t)
      BY <2>1, <1>3, NoNewVotes
    <2> QED
      BY <2>2, <2>3, <2>4, <1>3 DEF NoVoteStep
  <1>5. CASE m.term > term[m.to] /\ StepDown(m.to, m.term) /\ Persist(m.to)
    BY <1>1, <1>3, <1>5, StepDownNoVote
  <1> QED
    BY <1>4, <1>5 DEF RequestVoteStale, RequestVoteDeny

(* A reply that does not complete a majority.                                *)
LEMMA UndecidedNoVote ==
    ASSUME ShapeInv, ElectionInv, NEW m \in voteReplies, VoteReply(m), ~ VoteReplyWin(m)
    PROVE  NoVoteStep
  <1>1. m.to \in Server /\ m.from \in Server /\ m.term \in Nat /\ m.replyTerm \in Nat
    BY DEF ShapeInv, TypeOK, TypeVoteNet, VoteRep
  <1>2. voteReplies' = voteReplies \ {m} /\ UNCHANGED voteReqs
    BY DEF VoteReply
  <1>3. RequestsToOthers'
    BY <1>2 DEF ElectionInv, RequestsToOthers
  <1>4. CASE VoteReplyIgnored(m)
    <2>1. UNCHANGED <<state, term, votedFor, votes, persister, elected>>
      BY <1>4 DEF VoteReplyIgnored, serverVars
    <2>2. \A v \in Server : KeepsVote(v)
      BY <2>1 DEF KeepsVote
    <2>3. VoteDurable'
      BY <2>1 DEF ElectionInv, VoteDurable
    <2>4. \A v, c \in Server : \A t \in Nat : v # c /\ Granted(v, c, t)' => Granted(v, c, t)
      BY <2>1, <1>2, NoNewVotes
    <2> QED
      BY <2>1, <2>2, <2>3, <2>4, <1>3 DEF NoVoteStep
  <1>5. CASE VoteReplyStepDown(m)
    <2>1. m.replyTerm > term[m.to] /\ StepDown(m.to, m.replyTerm) /\ Persist(m.to) /\ UNCHANGED elected
      BY <1>5, <1>1 DEF VoteReplyStepDown, CandidacyRuns
    <2> QED
      BY <2>1, <1>1, <1>2, StepDownNoVote
  <1>6. CASE VoteReplyCount(m)
    <2>1. /\ UNCHANGED <<state, term, votedFor, persister, elected>> /\ m.granted
          /\ votes' = [votes EXCEPT ![m.to] = votes[m.to] \cup {m.from}] /\ term[m.to] = m.term
      BY <1>6 DEF VoteReplyCount, CandidacyRuns
    <2>2. \A v \in Server : KeepsVote(v)
      BY <2>1 DEF KeepsVote
    <2>3. VoteDurable'
      BY <2>1 DEF ElectionInv, VoteDurable
    <2>4. votes \in [Server -> SUBSET Server]
      BY DEF ShapeInv, TypeOK, TypeServer
    <2>5. \A v, c \in Server : \A t \in Nat : v # c /\ Granted(v, c, t)' => Granted(v, c, t)
      <3> SUFFICES ASSUME NEW v \in Server, NEW c \in Server, NEW t \in Nat, Granted(v, c, t)'
                   PROVE  Granted(v, c, t)
        OBVIOUS
      <3>1. CASE v \in votes'[c] /\ term'[c] = t
        <4>1. v \in votes[c] \/ (c = m.to /\ v = m.from)
          BY <3>1, <2>1, <2>4, <1>1
        <4> QED
          BY <4>1, <3>1, <2>1 DEF Granted
      <3>2. CASE ~ (v \in votes'[c] /\ term'[c] = t)
        BY <3>2, <2>1, <1>2 DEF Granted
      <3> QED
        BY <3>1, <3>2
    <2> QED
      BY <2>1, <2>2, <2>3, <2>5, <1>3 DEF NoVoteStep
  <1> QED
    BY <1>4, <1>5, <1>6 DEF VoteReply

(* AppendEntries and InstallSnapshot, which may reset the term.              *)
LEMMA AcceptLeaderNoVote ==
    ASSUME ShapeInv, ElectionInv, NEW i \in Server, NEW t \in Nat, t >= term[i],
           AcceptLeader(i, t), UNCHANGED <<voteNet, elected>>,
           Resets(i, t) => Persist(i), Persist(i) \/ UNCHANGED persister
    PROVE  NoVoteStep
  <1>1. term[i] \in Nat
    BY DEF ShapeInv, TypeOK, TypeServer
  <1>2. CASE Resets(i, t)
    <2>1. StepDown(i, t) /\ Persist(i)
      BY <1>2 DEF AcceptLeader
    <2>2. t > term[i] \/ (t = term[i] /\ state[i] = "Candidate")
      BY <1>1, <1>2 DEF Resets
    <2> QED
      BY <2>1, <2>2, StepDownNoVote DEF voteNet
  <1>3. CASE ~ Resets(i, t)
    <2>1. UNCHANGED serverVars
      BY <1>3 DEF AcceptLeader
    <2>2. UNCHANGED <<term, votedFor>>
      BY <2>1 DEF serverVars
    <2>3. VoteDurable'
      <3>1. CASE Persist(i)
        BY <3>1, <2>2, PersistDurable
      <3>2. CASE UNCHANGED persister
        BY <3>2, <2>2 DEF ElectionInv, VoteDurable
      <3> QED
        BY <3>1, <3>2
    <2> QED
      BY <2>1, <2>3, AloneNoVote
  <1> QED
    BY <1>2, <1>3
-----------------------------------------------------------------------------
(* The vote itself.                                                          *)
LEMMA RequestVoteGrantKeeps ==
    ASSUME ShapeInv, ShapeInv', ElectionInv, NEW m \in voteReqs, RequestVoteGrant(m)
    PROVE  ElectionInv'
  <1> DEFINE i == m.to
             d == m.from
             s == m.term
  <1>1. i \in Server /\ d \in Server /\ s \in Nat /\ d # i
    BY DEF ShapeInv, TypeOK, TypeVoteNet, VoteReq, ElectionInv, RequestsToOthers
  <1>2. /\ state \in [Server -> {"Follower", "Candidate", "Leader"}] /\ term \in [Server -> Nat]
        /\ votedFor \in [Server -> Server \cup {Nil}] /\ votes \in [Server -> SUBSET Server]
    BY DEF ShapeInv, TypeOK, TypeServer
  <1>3. Nil \notin Server
    BY NilAssumption
  <1>4. /\ s >= term[i]
        /\ term' = [term EXCEPT ![i] = s] /\ votedFor' = [votedFor EXCEPT ![i] = d]
        /\ Persist(i)
    BY DEF RequestVoteGrant
  <1>5. term[i] = s => votedFor[i] = Nil \/ votedFor[i] = d
    BY <1>1, <1>2 DEF RequestVoteGrant, CanVote, VotedInTerm
  \* Who grants a vote in its own term is a follower.
  <1>6. term[i] = s => state[i] = "Follower"
    BY <1>1, <1>3, <1>5 DEF ElectionInv, SelfVote
  <1>7. /\ state' = [state EXCEPT ![i] = "Follower"]
        /\ \A c \in Server : votes'[c] \subseteq {c} \/ (votes'[c] = votes[c] /\ term'[c] = term[c])
    <2>1. CASE s > term[i]
      BY <2>1, <1>1, <1>2, <1>4 DEF RequestVoteGrant, BecomeFollower
    <2>2. CASE s = term[i]
      <3>1. UNCHANGED <<state, votes>>
        BY <2>2, <1>1, <1>2 DEF RequestVoteGrant
      <3> QED
        BY <3>1, <2>2, <1>1, <1>2, <1>4, <1>6
    <2> QED
      BY <2>1, <2>2, <1>1, <1>2, <1>4
  <1>8. /\ voteReqs' \subseteq voteReqs /\ UNCHANGED elected
        /\ \A r \in voteReplies' : r \in voteReplies \/ (r.from = i /\ r.to = d /\ r.term = s)
    BY DEF RequestVoteGrant, ReplyVote, history
  <1> HIDE DEF i, d, s
  \* The only new vote is that of i for d.
  <1>9. ASSUME NEW v \in Server, NEW c \in Server, NEW t \in Nat, v # c, Granted(v, c, t)'
        PROVE  Granted(v, c, t) \/ (v = i /\ c = d /\ t = s)
    BY <1>9, <1>7, <1>8 DEF Granted
  <1>10. ASSUME NEW v \in Server, NEW c \in Server, NEW t \in Nat, v # c, Granted(v, c, t)
         PROVE  \/ term[v] > t
                \/ term[v] = t /\ votedFor[v] = c /\ state[v] = "Follower"
    BY <1>10 DEF ElectionInv, VotesKept
  \* A vote i cast earlier in this term was for d too.
  <1>11. ASSUME NEW c \in Server, i # c, Granted(i, c, s)
         PROVE  c = d
    BY <1>11, <1>10, <1>1, <1>2, <1>3, <1>4, <1>5
  <1>12. VoteDurable' /\ RequestsToOthers'
    <2>1. VoteDurable'
      BY <1>1, <1>2, <1>4, PersistDurable
    <2> QED
      BY <2>1, <1>8 DEF ElectionInv, RequestsToOthers
  <1>13. SelfVote'
    BY <1>1, <1>2, <1>4, <1>7 DEF ElectionInv, SelfVote
  <1>14. VotesKept'
    <2> SUFFICES ASSUME NEW v \in Server, NEW c \in Server, NEW t \in Nat, v # c, Granted(v, c, t)'
                 PROVE  \/ term'[v] > t
                        \/ term'[v] = t /\ votedFor'[v] = c /\ state'[v] = "Follower"
      BY DEF VotesKept
    <2>1. CASE v = i /\ c = d /\ t = s
      BY <2>1, <1>1, <1>2, <1>4, <1>7
    <2>2. CASE v # i
      BY <2>2, <1>9, <1>10, <1>1, <1>2, <1>4, <1>7
    <2>3. CASE v = i /\ ~ (c = d /\ t = s)
      <3>1. Granted(v, c, t)
        BY <2>3, <1>9
      <3>2. CASE term[v] > t
        BY <3>2, <2>3, <1>1, <1>2, <1>4
      <3>3. CASE term[v] = t /\ votedFor[v] = c /\ state[v] = "Follower"
        <4>1. CASE s > t
          BY <4>1, <2>3, <1>1, <1>2, <1>4
        <4>2. CASE s = t
          BY <4>2, <3>1, <2>3, <1>11
        <4> QED
          BY <4>1, <4>2, <3>3, <2>3, <1>1, <1>4
      <3> QED
        BY <3>1, <3>2, <3>3, <1>10
    <2> QED
      BY <2>1, <2>2, <2>3
  <1>15. OneVote'
    <2> SUFFICES ASSUME NEW v \in Server, NEW c \in Server, NEW b \in Server, NEW t \in Nat,
                        v # c, v # b, Granted(v, c, t)', Granted(v, b, t)'
                 PROVE  c = b
      BY DEF OneVote
    <2>1. Granted(v, c, t) \/ (v = i /\ c = d /\ t = s)
      BY <1>9
    <2>2. Granted(v, b, t) \/ (v = i /\ b = d /\ t = s)
      BY <1>9
    <2>3. CASE Granted(v, c, t) /\ Granted(v, b, t)
      BY <2>3 DEF ElectionInv, OneVote
    <2> QED
      BY <2>1, <2>2, <2>3, <1>11
  <1>16. WinnersKeepVote' /\ WinnersVoteOnce'
    <2>1. ASSUME NEW e \in elected
          PROVE  /\ e.leader \in Server /\ e.term \in Nat /\ IsMajority(e.votes)
                 /\ \/ term[e.leader] > e.term
                    \/ /\ term[e.leader] = e.term /\ votedFor[e.leader] = e.leader
                       /\ state[e.leader] # "Candidate"
      BY DEF ShapeInv, TypeOK, TypeHistory, ElectionInv, WinnersKeepVote
    \* The winner of a term does not vote in it.
    <2>2. ASSUME NEW e \in elected, e.leader = i PROVE s > e.term
      BY <2>1, <2>2, <1>1, <1>2, <1>3, <1>4, <1>5
    <2>3. WinnersKeepVote'
      <3> SUFFICES ASSUME NEW e \in elected
                   PROVE  /\ IsMajority(e.votes)
                          /\ \/ term'[e.leader] > e.term
                             \/ /\ term'[e.leader] = e.term /\ votedFor'[e.leader] = e.leader
                                /\ state'[e.leader] # "Candidate"
        BY <1>8 DEF WinnersKeepVote, IsMajority
      <3> QED
        BY <2>1, <2>2, <1>1, <1>2, <1>4, <1>7
    <2>4. WinnersVoteOnce'
      <3> SUFFICES ASSUME NEW e \in elected, NEW c \in Server, c # e.leader,
                          Granted(e.leader, c, e.term)'
                   PROVE  FALSE
        BY <1>8 DEF WinnersVoteOnce
      <3>1. ~ Granted(e.leader, c, e.term)
        BY DEF ElectionInv, WinnersVoteOnce
      <3>2. e.leader = i /\ e.term = s
        BY <3>1, <2>1, <1>9
      <3> QED
        BY <3>2, <2>2, <1>1
    <2> QED
      BY <2>3, <2>4
  <1> QED
    BY <1>12, <1>13, <1>14, <1>15, <1>16 DEF ElectionInv

(* The election.                                                             *)
LEMMA VoteReplyWinKeeps ==
    ASSUME ShapeInv, ShapeInv', ElectionInv, NEW m \in voteReplies, VoteReply(m), VoteReplyWin(m)
    PROVE  ElectionInv'
  <1> DEFINE i == m.to
             w == [term |-> m.term, leader |-> m.to, votes |-> votes[m.to] \cup {m.from}]
  <1>1. i \in Server /\ m.from \in Server /\ m.term \in Nat
    BY DEF ShapeInv, TypeOK, TypeVoteNet, VoteRep
  <1>2. /\ state \in [Server -> {"Follower", "Candidate", "Leader"}] /\ term \in [Server -> Nat]
        /\ votedFor \in [Server -> Server \cup {Nil}] /\ votes \in [Server -> SUBSET Server]
    BY DEF ShapeInv, TypeOK, TypeServer
  <1>3. /\ state[i] = "Candidate" /\ term[i] = m.term /\ m.granted
        /\ IsMajority(votes[i] \cup {m.from})
        /\ state' = [state EXCEPT ![i] = "Leader"] /\ votes' = [votes EXCEPT ![i] = {}]
        /\ elected' = elected \cup {w} /\ UNCHANGED <<term, votedFor, persister>>
    BY DEF VoteReplyWin, CandidacyRuns
  <1>4. voteReplies' = voteReplies \ {m} /\ UNCHANGED voteReqs
    BY DEF VoteReply
  <1>5. w.term = m.term /\ w.leader = i /\ w.votes = votes[i] \cup {m.from}
    OBVIOUS
  <1>6. votedFor[i] = i
    BY <1>1, <1>3 DEF ElectionInv, SelfVote
  <1> HIDE DEF i, w
  <1>7. ASSUME NEW v \in Server, NEW c \in Server, NEW t \in Nat, Granted(v, c, t)'
        PROVE  Granted(v, c, t)
    <2>1. CASE \E r \in voteReplies' : r.from = v /\ r.to = c /\ r.term = t /\ r.granted
      BY <2>1, <1>4 DEF Granted
    <2>2. CASE v \in votes'[c] /\ term'[c] = t
      BY <2>2, <1>1, <1>2, <1>3 DEF Granted
    <2>3. CASE \E e \in elected' : e.leader = c /\ e.term = t /\ v \in e.votes
      <3>1. PICK e \in elected' : e.leader = c /\ e.term = t /\ v \in e.votes
        BY <2>3
      <3>2. CASE e \in elected
        BY <3>1, <3>2 DEF Granted
      <3>3. CASE e = w
        <4>1. c = i /\ t = m.term /\ (v \in votes[i] \/ v = m.from)
          BY <3>1, <3>3, <1>5
        <4> QED
          BY <4>1, <1>3 DEF Granted, i
      <3> QED
        BY <3>1, <3>2, <3>3, <1>3
    <2> QED
      BY <2>1, <2>2, <2>3, <1>7 DEF Granted
  <1>8. VoteDurable' /\ RequestsToOthers'
    BY <1>3, <1>4 DEF ElectionInv, VoteDurable, RequestsToOthers
  <1>9. SelfVote'
    BY <1>1, <1>2, <1>3, <1>6 DEF ElectionInv, SelfVote
  <1>10. ASSUME NEW v \in Server, NEW c \in Server, NEW t \in Nat, v # c, Granted(v, c, t)
         PROVE  \/ term[v] > t
                \/ term[v] = t /\ votedFor[v] = c /\ state[v] = "Follower"
    BY <1>10 DEF ElectionInv, VotesKept
  <1>11. VotesKept'
    <2> SUFFICES ASSUME NEW v \in Server, NEW c \in Server, NEW t \in Nat, v # c, Granted(v, c, t)'
                 PROVE  \/ term'[v] > t
                        \/ term'[v] = t /\ votedFor'[v] = c /\ state'[v] = "Follower"
      BY DEF VotesKept
    <2>1. Granted(v, c, t)
      BY <1>7
    <2> QED
      BY <2>1, <1>10, <1>1, <1>2, <1>3
  <1>12. OneVote'
    <2> SUFFICES ASSUME NEW v \in Server, NEW c \in Server, NEW b \in Server, NEW t \in Nat,
                        v # c, v # b, Granted(v, c, t)', Granted(v, b, t)'
                 PROVE  c = b
      BY DEF OneVote
    <2>1. Granted(v, c, t) /\ Granted(v, b, t)
      BY <1>7
    <2> QED
      BY <2>1 DEF ElectionInv, OneVote
  <1>13. WinnersKeepVote'
    <2> SUFFICES ASSUME NEW e \in elected'
                 PROVE  /\ IsMajority(e.votes)
                        /\ \/ term'[e.leader] > e.term
                           \/ /\ term'[e.leader] = e.term /\ votedFor'[e.leader] = e.leader
                              /\ state'[e.leader] # "Candidate"
      BY DEF WinnersKeepVote, IsMajority
    <2>1. CASE e = w
      BY <2>1, <1>1, <1>2, <1>3, <1>5, <1>6
    <2>2. CASE e \in elected
      <3>1. /\ e.leader \in Server /\ IsMajority(e.votes)
            /\ \/ term[e.leader] > e.term
               \/ /\ term[e.leader] = e.term /\ votedFor[e.leader] = e.leader
                  /\ state[e.leader] # "Candidate"
        BY <2>2 DEF ShapeInv, TypeOK, TypeHistory, ElectionInv, WinnersKeepVote
      <3> QED
        BY <3>1, <1>1, <1>2, <1>3
    <2> QED
      BY <2>1, <2>2, <1>3
  <1>14. WinnersVoteOnce'
    <2> SUFFICES ASSUME NEW e \in elected', NEW c \in Server, c # e.leader,
                        Granted(e.leader, c, e.term)'
                 PROVE  FALSE
      BY DEF WinnersVoteOnce
    <2>1. e.leader \in Server /\ e.term \in Nat
      BY DEF ShapeInv, TypeOK, TypeHistory
    <2>2. Granted(e.leader, c, e.term)
      BY <2>1, <1>7
    <2>3. CASE e = w
      BY <2>1, <2>2, <2>3, <1>1, <1>2, <1>3, <1>5, <1>10
    <2>4. CASE e \in elected
      BY <2>2, <2>4 DEF ElectionInv, WinnersVoteOnce
    <2> QED
      BY <2>3, <2>4, <1>3
  <1> QED
    BY <1>8, <1>9, <1>11, <1>12, <1>13, <1>14 DEF ElectionInv
-----------------------------------------------------------------------------
(* The handlers of log traffic cast no votes.                                *)
LEMMA LogTrafficNoVote ==
    ASSUME ShapeInv, ElectionInv,
           \/ \E m \in appendReqs : AppendEntries(m)
           \/ \E m \in snapReqs : InstallSnapshot(m)
           \/ \E m \in appendReplies : Sync(m)
           \/ \E m \in snapReplies : InstallReply(m)
    PROVE  NoVoteStep
  <1>1. ASSUME UNCHANGED <<serverVars, voteNet, elected, persister>> PROVE NoVoteStep
    <2>1. VoteDurable'
      BY <1>1 DEF serverVars, ElectionInv, VoteDurable
    <2> QED
      BY <1>1, <2>1, AloneNoVote
  <1>2. ASSUME NEW m \in appendReqs, AppendEntries(m) PROVE NoVoteStep
    <2>1. m.to \in Server /\ m.term \in Nat
      BY DEF ShapeInv, TypeOK, TypeLogNet, AppendReq
    <2>2. UNCHANGED <<voteNet, elected>>
      BY <1>2 DEF AppendEntries, AppendEntriesStale, AppendEntriesConflict, AppendEntriesAccept, ReplyAppend
    <2>3. CASE AppendEntriesStale(m)
      BY <2>2, <2>3, <1>1 DEF AppendEntriesStale
    <2>4. CASE AppendEntriesConflict(m)
      BY <2>1, <2>2, <2>4, AcceptLeaderNoVote DEF AppendEntriesConflict
    <2>5. CASE AppendEntriesAccept(m)
      BY <2>1, <2>2, <2>5, AcceptLeaderNoVote DEF AppendEntriesAccept
    <2> QED
      BY <2>3, <2>4, <2>5, <1>2 DEF AppendEntries
  <1>3. ASSUME NEW m \in snapReqs, InstallSnapshot(m) PROVE NoVoteStep
    <2>1. m.to \in Server /\ m.term \in Nat
      BY DEF ShapeInv, TypeOK, TypeLogNet, SnapReq
    <2>2. UNCHANGED <<voteNet, elected>>
      BY <1>3 DEF InstallSnapshot, InstallSnapshotStale, InstallSnapshotAccept, ReplySnapshot, history
    <2>3. CASE InstallSnapshotStale(m)
      BY <2>2, <2>3, <1>1 DEF InstallSnapshotStale
    <2>4. CASE InstallSnapshotAccept(m)
      BY <2>1, <2>2, <2>4, AcceptLeaderNoVote DEF InstallSnapshotAccept
    <2> QED
      BY <2>3, <2>4, <1>3 DEF InstallSnapshot
  <1>4. ASSUME NEW m, m.to \in Server, m.replyTerm \in Nat, ReplyStepDown(m) PROVE NoVoteStep
    BY <1>4, StepDownNoVote DEF ReplyStepDown, voteNet, history
  <1>5. ASSUME NEW m \in appendReplies, Sync(m) PROVE NoVoteStep
    <2>1. m.to \in Server /\ m.replyTerm \in Nat
      BY DEF ShapeInv, TypeOK, TypeLogNet, AppendRep
    <2>2. CASE ReplyStepDown(m)
      BY <2>1, <2>2, <1>4
    <2>3. CASE SyncSuccess(m)
      BY <2>3, <1>1 DEF SyncSuccess
    <2>4. CASE SyncFailure(m)
      BY <2>4, <1>1 DEF SyncFailure, history
    <2> QED
      BY <2>2, <2>3, <2>4, <1>5 DEF Sync
  <1>6. ASSUME NEW m \in snapReplies, InstallReply(m) PROVE NoVoteStep
    <2>1. m.to \in Server /\ m.replyTerm \in Nat
      BY DEF ShapeInv, TypeOK, TypeLogNet, SnapRep
    <2>2. CASE ReplyStepDown(m)
      BY <2>1, <2>2, <1>4
    <2>3. CASE InstallReplyNext(m)
      BY <2>3, <1>1 DEF InstallReplyNext, history
    <2> QED
      BY <2>2, <2>3, <1>6 DEF InstallReply
  <1> QED
    BY <1>2, <1>3, <1>5, <1>6

(* Nor do Start, Replicate, the apply loop and the service.                  *)
LEMMA LocalNoVote ==
    ASSUME ShapeInv, ElectionInv,
           \/ \E i \in Server, c \in Command : Start(i, c)
           \/ \E i \in Server, j \in Server : Replicate(i, j)
           \/ \E i \in Server : DoApply(i) \/ ApplyRejected(i) \/ Apply(i)
           \/ \E i \in Server : \E s \in snapMsgs[i] : SnapshotRejected(i, s) \/ CondInstallSnapshot(i, s)
           \/ Drop
    PROVE  NoVoteStep
  <1>1. UNCHANGED <<serverVars, voteNet, elected>>
    BY DEF Start, Replicate, SendEntries, SendSnapshot, DoApply, ApplyRejected, Apply,
           SnapshotRejected, CondInstallSnapshot, Drop, history
  <1>2. UNCHANGED <<term, votedFor>>
    BY <1>1 DEF serverVars
  <1>3. UNCHANGED persister \/ \E i \in Server : Persist(i) \/ \E data : SaveStateAndSnapshot(i, data)
    BY DEF Start, Replicate, SendEntries, SendSnapshot, DoApply, ApplyRejected, Apply,
           SnapshotRejected, CondInstallSnapshot, Drop
  <1>4. CASE UNCHANGED persister
    <2>1. VoteDurable'
      BY <1>2, <1>4 DEF ElectionInv, VoteDurable
    <2> QED
      BY <2>1, <1>1, AloneNoVote
  <1>5. CASE \E i \in Server : Persist(i) \/ \E data : SaveStateAndSnapshot(i, data)
    <2>1. VoteDurable'
      BY <1>2, <1>5, PersistDurable
    <2> QED
      BY <2>1, <1>1, AloneNoVote
  <1> QED
    BY <1>3, <1>4, <1>5

(* Nor do crashes, not even between two writes of one handler.               *)
LEMMA CrashNoVote ==
    ASSUME ShapeInv, ElectionInv,
           \/ \E i \in Server : Crash(i) \/ CrashInElection(i)
           \/ \E m \in voteReqs : CrashInRequestVote(m)
           \/ \E m \in appendReqs : CrashInAppendEntries(m)
    PROVE  NoVoteStep
  <1>1. UNCHANGED <<elected, voteReplies>> /\ voteReqs' \subseteq voteReqs
    BY DEF Crash, CrashInElection, CrashInRequestVote, CrashInAppendEntries, voteNet, history
  <1>2. ASSUME NEW i \in Server, NEW t \in Nat
        PROVE  AfterResetTerm(i, t).term = t
    BY DEF AfterResetTerm, ShapeInv, TypeOK, TypePersister, Persisted
  <1>3. \A i \in Server : term[i] \in Nat
    BY DEF ShapeInv, TypeOK, TypeServer
  <1>4. ASSUME NEW i \in Server, Crash(i) PROVE NoVoteStep
    <2>1. persister[i].term = term[i] /\ persister[i].votedFor = votedFor[i]
      BY DEF ElectionInv, VoteDurable
    <2> QED
      BY <2>1, <1>1, <1>4, RestartNoVote DEF Crash
  <1>5. ASSUME NEW i \in Server, CrashInElection(i) PROVE NoVoteStep
    <2>1. term[i] + 1 \in Nat /\ term[i] + 1 > term[i]
      BY <1>3
    <2> QED
      BY <2>1, <1>1, <1>2, <1>5, RestartNoVote DEF CrashInElection
  <1>6. ASSUME NEW m \in voteReqs, CrashInRequestVote(m) PROVE NoVoteStep
    <2>1. m.to \in Server /\ m.term \in Nat
      BY DEF ShapeInv, TypeOK, TypeVoteNet, VoteReq
    <2> QED
      BY <2>1, <1>1, <1>2, <1>6, RestartNoVote DEF CrashInRequestVote
  <1>7. ASSUME NEW m \in appendReqs, CrashInAppendEntries(m) PROVE NoVoteStep
    <2>1. m.to \in Server /\ m.term \in Nat
      BY DEF ShapeInv, TypeOK, TypeLogNet, AppendReq
    <2>2. m.term > term[m.to] \/ (m.term = term[m.to] /\ state[m.to] = "Candidate")
      BY <2>1, <1>3, <1>7 DEF CrashInAppendEntries, Resets
    <2> QED
      BY <2>1, <2>2, <1>1, <1>2, <1>7, RestartNoVote DEF CrashInAppendEntries
  <1> QED
    BY <1>4, <1>5, <1>6, <1>7
-----------------------------------------------------------------------------
(* The invariant is inductive, given the shape of the states.                *)
LEMMA ElectionStep ==
    ASSUME ShapeInv, ShapeInv', ElectionInv, [Next]_vars
    PROVE  ElectionInv'
  <1>1. CASE UNCHANGED vars
    <2>1. UNCHANGED <<serverVars, voteNet, elected, persister>>
      BY <1>1 DEF vars, history
    <2>2. VoteDurable'
      BY <2>1 DEF serverVars, ElectionInv, VoteDurable
    <2> QED
      BY <2>1, <2>2, AloneNoVote, NoVoteStepKeeps
  <1>2. CASE \E i \in Server : DoElection(i)
    BY <1>2, DoElectionNoVote, NoVoteStepKeeps
  <1>3. CASE \E m \in voteReqs : RequestVote(m)
    BY <1>3, DeniedNoVote, NoVoteStepKeeps, RequestVoteGrantKeeps DEF RequestVote
  <1>4. CASE \E m \in voteReplies : VoteReply(m)
    BY <1>4, UndecidedNoVote, NoVoteStepKeeps, VoteReplyWinKeeps
  <1>5. CASE NoVoteStep
    BY <1>5, NoVoteStepKeeps
  <1> QED
    BY <1>1, <1>2, <1>3, <1>4, <1>5, LogTrafficNoVote, LocalNoVote, CrashNoVote DEF Next

(* Initially nobody has voted.                                               *)
LEMMA ElectionInit ==
    ASSUME Init
    PROVE  ElectionInv
  BY DEF Init, ElectionInv, VoteDurable, SelfVote, RequestsToOthers, VotesKept, OneVote,
         WinnersKeepVote, WinnersVoteOnce, Granted

(* At most one server wins a term, for any number of servers, with crashes   *)
(* at every persist, lost, delayed and reordered messages, and although a    *)
(* candidate that hears from its term's leader forgets that it voted.        *)
THEOREM ElectionSafe == Spec => []ElectionSafety
  <1>1. Init => ShapeInv /\ ElectionInv
    BY InitShape, ElectionInit
  <1>2. ShapeInv /\ ElectionInv /\ [Next]_vars => ShapeInv' /\ ElectionInv'
    BY ShapeStep, ElectionStep
  <1>3. ShapeInv /\ ElectionInv => ElectionSafety
    BY ElectionInvSafe
  <1> QED
    BY <1>1, <1>2, <1>3, PTL DEF Spec

-----------------------------------------------------------------------------
(* Facts about the histories and the operators on logs that the steps of     *)
(* Raft are checked against: nothing here depends on the state.              *)

(* The types of the histories.                                               *)
HistoryType(L, A, T) ==
    /\ DOMAIN L \subseteq Nat /\ L \in [DOMAIN L -> Seq(Entry)]
    /\ A \subseteq [server : Server, term : Nat, index : Nat]
    /\ T \in [Server -> Nat]

(* The types of one leader's log.                                            *)
LEMMA LeaderLogType ==
    ASSUME NEW L, NEW A, NEW T, HistoryType(L, A, T), NEW t \in DOMAIN L
    PROVE  /\ t \in Nat /\ L[t] \in Seq(Entry) /\ Len(L[t]) \in Nat
           /\ \A k \in 1..Len(L[t]) : L[t][k] \in Entry /\ L[t][k].term \in Nat /\ L[t][k].index \in Nat
  <1>1. t \in Nat /\ L[t] \in Seq(Entry)
    BY DEF HistoryType
  <1>2. Len(L[t]) \in Nat /\ \A k \in 1..Len(L[t]) : L[t][k] \in Entry
    BY <1>1, LenProperties, ElementOfSeq
  <1> QED
    BY <1>1, <1>2 DEF Entry

(* A set of servers that includes a majority is one.                         *)
LEMMA MajorityGrows ==
    ASSUME NEW S \in SUBSET Server, NEW R \in SUBSET Server, S \subseteq R, IsMajority(S)
    PROVE  IsMajority(R)
  <1>1. IsFiniteSet(Server) /\ IsFiniteSet(R) /\ IsFiniteSet(S)
    BY ServerAssumption, FS_Subset
  <1>2. Cardinality(S) <= Cardinality(R)
    BY <1>1, FS_Subset
  <1>3. Cardinality(Server) \in Nat /\ Cardinality(S) \in Nat /\ Cardinality(R) \in Nat
    BY <1>1, FS_CardinalityType
  <1> QED
    BY <1>2, <1>3 DEF IsMajority

(* Chosen nodes can be chosen.                                               *)
LEMMA ChosenChoosable ==
    ASSUME NEW L, NEW A, NEW T, NEW t, NEW x, Chosen(L, A, t, x)
    PROVE  Choosable(L, A, T, t, x)
  <1>1. Acks(A, t, x) \in SUBSET Server
        /\ Acks(A, t, x) \cup {v \in Server : T[v] <= t} \in SUBSET Server
    BY DEF Acks
  <1> QED
    BY <1>1, MajorityGrows DEF Chosen, Choosable
-----------------------------------------------------------------------------
(* The tree of leaders' logs.                                                *)

(* In one log the terms never decrease.                                      *)
LEMMA TermsAscend ==
    ASSUME NEW L, LogTree(L), NEW t \in DOMAIN L, NEW k \in 1..Len(L[t]), NEW j \in 1..k
    PROVE  L[t][j].term <= L[t][k].term
  BY DEF LogTree

(* The entry of a log at k is a node of its term, and the two logs are the   *)
(* same up to it.                                                            *)
LEMMA TreeNode ==
    ASSUME NEW L, NEW A, NEW T, HistoryType(L, A, T), LogTree(L),
           NEW t \in DOMAIN L, NEW k \in 1..Len(L[t])
    PROVE  LET u == L[t][k].term IN
           /\ u \in DOMAIN L /\ u <= t /\ u > 0 /\ Node(L, u, k) /\ Agree(L, t, u, k)
           /\ L[t][k].index = k
  <1> DEFINE u == L[t][k].term
  <1>1. u \in DOMAIN L /\ u <= t /\ Agree(L, t, u, k) /\ L[t][k].index = k
    BY DEF LogTree
  <1>2. Len(L[t]) \in Nat /\ u \in Nat /\ Len(L[u]) \in Nat
    BY <1>1, LeaderLogType
  <1>3. k \in 1..k /\ k \in Nat
    BY <1>2
  <1>4. L[u][k] = L[t][k] /\ k <= Len(L[u])
    BY <1>1, <1>3 DEF Agree
  <1>5. Node(L, u, k)
    <2>1. k \in 1..Len(L[u])
      BY <1>2, <1>3, <1>4
    <2> QED
      BY <1>1, <1>4, <2>1 DEF Node
  <1>6. u # 0
    <2> SUFFICES ASSUME u = 0 PROVE FALSE
      OBVIOUS
    <2>1. L[u] = << >>
      BY DEF LogTree
    <2>2. Len(L[u]) = 0
      BY <2>1
    <2> QED
      BY <2>2, <1>3, <1>4
  <1> QED
    BY <1>1, <1>2, <1>5, <1>6

(* Two logs that have an entry of one term at k are the same up to k.        *)
LEMMA LogMatching ==
    ASSUME NEW L, NEW A, NEW T, HistoryType(L, A, T), LogTree(L),
           NEW t \in DOMAIN L, NEW u \in DOMAIN L, NEW k \in Nat,
           k \in 1..Len(L[t]), k \in 1..Len(L[u]), L[t][k].term = L[u][k].term
    PROVE  Agree(L, t, u, k)
  <1>1. Agree(L, t, L[t][k].term, k) /\ Agree(L, u, L[u][k].term, k)
    BY TreeNode
  <1> QED
    BY <1>1 DEF Agree

(* A later leader's log contains every node that can still be chosen.        *)
LEMMA ChoosableKept ==
    ASSUME NEW L, NEW A, NEW T, HistoryType(L, A, T), LogTree(L), Complete(L, A, T),
           NEW t, NEW x, Choosable(L, A, T, t, x), NEW u \in DOMAIN L, t <= u
    PROVE  /\ t \in DOMAIN L /\ x \in 1..Len(L[t]) /\ x \in 1..Len(L[u])
           /\ L[t][x].term = t /\ L[u][x].term = t /\ Agree(L, u, t, x)
  <1>1. t \in DOMAIN L /\ x \in 1..Len(L[t]) /\ L[t][x].term = t
    BY DEF Choosable, Node
  <1>2. t \in Nat /\ u \in Nat /\ Len(L[t]) \in Nat /\ Len(L[u]) \in Nat
    BY <1>1, LeaderLogType
  <1>3. x <= Len(L[u]) /\ L[u][x].term = t
    BY <1>1, <1>2 DEF Complete
  <1>4. x \in Nat /\ x \in 1..Len(L[u])
    BY <1>1, <1>2, <1>3
  <1> QED
    BY <1>1, <1>3, <1>4, LogMatching

(* The sequence s begins the sequence l.                                     *)
Begins(s, l) == Len(s) <= Len(l) /\ \A k \in 1..Len(s) : s[k] = l[k]

(* What was decided up to term T is in the log of every leader from T on.    *)
LEMMA DecidedKept ==
    ASSUME NEW L, NEW A, NEW T, NEW C, HistoryType(L, A, T), LogTree(L), Complete(L, A, T),
           NEW r \in Nat, NEW s \in Seq(Entry), Decided(L, A, C, r, s), NEW u \in DOMAIN L, r <= u
    PROVE  Begins(s, L[u])
  <1>1. Len(s) \in Nat /\ u \in Nat /\ Len(L[u]) \in Nat
    BY LeaderLogType, LenProperties
  <1>2. CASE Len(s) = 0
    BY <1>1, <1>2 DEF Begins
  <1>3. CASE Len(s) > 0
    <2>1. PICK t \in DOMAIN L : \E y \in 1..Len(L[t]) :
            /\ Sealed(L, A, C, t, y) /\ t <= r /\ Len(s) <= y
            /\ \A k \in 1..Len(s) : s[k] = L[t][k]
      BY <1>3 DEF Decided
    <2>2. PICK y \in 1..Len(L[t]) :
            /\ Sealed(L, A, C, t, y) /\ t <= r /\ Len(s) <= y
            /\ \A k \in 1..Len(s) : s[k] = L[t][k]
      BY <2>1
    <2>3. t \in Nat /\ Len(L[t]) \in Nat /\ y \in Nat
      BY LeaderLogType
    <2>4. Choosable(L, A, T, t, y) /\ t <= u
      BY <2>2, <2>3, <1>1, ChosenChoosable DEF Sealed
    <2>5. Agree(L, u, t, y)
      BY <2>4, ChoosableKept
    <2>6. \A k \in 1..Len(s) : k \in 1..y
      BY <2>2, <2>3, <1>1
    <2> QED
      BY <2>2, <2>3, <2>5, <2>6, <1>1 DEF Agree, Begins
  <1> QED
    BY <1>1, <1>2, <1>3

(* A decided sequence that is long enough contains every node that can still *)
(* be chosen.                                                                *)
LEMMA DecidedContains ==
    ASSUME NEW L, NEW A, NEW T, NEW C, HistoryType(L, A, T), LogTree(L), Complete(L, A, T),
           NEW r, NEW s \in Seq(Entry), Decided(L, A, C, r, s),
           NEW t, NEW x, Choosable(L, A, T, t, x), x <= Len(s)
    PROVE  /\ x \in 1..Len(s) /\ \A k \in 1..x : s[k] = L[t][k]
           /\ s[x].term = t /\ s[Len(s)].term >= t
  <1>0. t \in DOMAIN L /\ x \in 1..Len(L[t]) /\ L[t][x].term = t
    BY DEF Choosable, Node
  <1>1. t \in Nat /\ Len(L[t]) \in Nat /\ Len(s) \in Nat /\ x \in Nat /\ x >= 1
    BY <1>0, LeaderLogType, LenProperties
  <1>2. PICK w \in DOMAIN L : \E y \in 1..Len(L[w]) :
          /\ Sealed(L, A, C, w, y) /\ w <= r /\ Len(s) <= y
          /\ \A k \in 1..Len(s) : s[k] = L[w][k]
    BY <1>1 DEF Decided
  <1>3. PICK y \in 1..Len(L[w]) :
          /\ Sealed(L, A, C, w, y) /\ Len(s) <= y
          /\ \A k \in 1..Len(s) : s[k] = L[w][k]
    BY <1>2
  <1>4. w \in Nat /\ Len(L[w]) \in Nat /\ y \in Nat
    BY LeaderLogType
  <1>5. Choosable(L, A, T, w, y)
    BY <1>3, ChosenChoosable DEF Sealed
  <1>6. \A k \in 1..x : L[w][k] = L[t][k]
    <2>1. CASE w <= t
      <3>1. Agree(L, t, w, y)
        BY <2>1, <1>0, <1>5, ChoosableKept
      <3>2. \A k \in 1..x : k \in 1..y
        BY <1>1, <1>3, <1>4
      <3> QED
        BY <3>1, <3>2 DEF Agree
    <2>2. CASE t <= w
      <3>1. Agree(L, w, t, x)
        BY <2>2, ChoosableKept
      <3> QED
        BY <3>1 DEF Agree
    <2> QED
      BY <2>1, <2>2, <1>1, <1>4
  <1>7. x \in 1..Len(s) /\ x \in 1..x /\ Len(s) \in 1..Len(s) /\ Len(s) \in 1..Len(L[w]) /\ x \in 1..Len(L[w])
    BY <1>1, <1>3, <1>4
  <1>8. \A k \in 1..x : s[k] = L[t][k]
    <2>1. \A k \in 1..x : k \in 1..Len(s)
      BY <1>1
    <2> QED
      BY <2>1, <1>3, <1>6
  <1>9. s[x].term = t
    BY <1>0, <1>7, <1>8
  <1>10. s[Len(s)].term >= t
    <2>1. L[w][x].term <= L[w][Len(s)].term
      BY <1>1, <1>7, TermsAscend
    <2>2. s[x] = L[w][x] /\ s[Len(s)] = L[w][Len(s)]
      BY <1>3, <1>7
    <2>3. L[w][Len(s)].term \in Nat
      BY <1>7, LeaderLogType
    <2> QED
      BY <2>1, <2>2, <2>3, <1>1, <1>9
  <1> QED
    BY <1>7, <1>8, <1>9, <1>10

(* Of two decided sequences one begins the other.                            *)
LEMMA DecidedAgree ==
    ASSUME NEW L, NEW A, NEW T, NEW C, HistoryType(L, A, T), LogTree(L), Complete(L, A, T),
           NEW r, NEW s \in Seq(Entry), Decided(L, A, C, r, s),
           NEW q, NEW z \in Seq(Entry), Decided(L, A, C, q, z), Len(s) <= Len(z)
    PROVE  \A k \in 1..Len(s) : s[k] = z[k]
  <1>1. Len(s) \in Nat /\ Len(z) \in Nat
    BY LenProperties
  <1>2. CASE Len(s) = 0
    BY <1>1, <1>2
  <1>3. CASE Len(s) > 0
    <2>1. PICK t \in DOMAIN L : \E y \in 1..Len(L[t]) :
            /\ Sealed(L, A, C, t, y) /\ t <= r /\ Len(s) <= y
            /\ \A k \in 1..Len(s) : s[k] = L[t][k]
      BY <1>3 DEF Decided
    <2>2. PICK y \in 1..Len(L[t]) :
            /\ Sealed(L, A, C, t, y) /\ Len(s) <= y
            /\ \A k \in 1..Len(s) : s[k] = L[t][k]
      BY <2>1
    <2>3. PICK u \in DOMAIN L : \E x \in 1..Len(L[u]) :
            /\ Sealed(L, A, C, u, x) /\ u <= q /\ Len(z) <= x
            /\ \A k \in 1..Len(z) : z[k] = L[u][k]
      BY <1>1, <1>3 DEF Decided
    <2>4. PICK x \in 1..Len(L[u]) :
            /\ Sealed(L, A, C, u, x) /\ Len(z) <= x
            /\ \A k \in 1..Len(z) : z[k] = L[u][k]
      BY <2>3
    <2>5. t \in Nat /\ Len(L[t]) \in Nat /\ y \in Nat /\ u \in Nat /\ Len(L[u]) \in Nat /\ x \in Nat
      BY LeaderLogType
    <2>6. Choosable(L, A, T, t, y) /\ Choosable(L, A, T, u, x)
      BY <2>2, <2>4, ChosenChoosable DEF Sealed
    <2>7. Agree(L, u, t, y) \/ Agree(L, t, u, x)
      BY <2>5, <2>6, ChoosableKept
    <2>8. \A k \in 1..Len(s) : k \in 1..y /\ k \in 1..x /\ k \in 1..Len(z)
      BY <2>2, <2>4, <2>5, <1>1
    <2> QED
      BY <2>2, <2>4, <2>7, <2>8 DEF Agree
  <1> QED
    BY <1>1, <1>2, <1>3
-----------------------------------------------------------------------------
(* Growing histories.                                                        *)

(* Logs of leaders are only extended, and terms are only added.              *)
Extends(L, L2) ==
    \A t \in DOMAIN L : /\ t \in DOMAIN L2 /\ Len(L[t]) <= Len(L2[t])
                        /\ \A k \in 1..Len(L[t]) : L2[t][k] = L[t][k]

(* What happens to the histories in a step: they grow, terms do too, and a   *)
(* node that can be chosen could be so before or belongs to the newest term. *)
HistoryGrows(L, A, C, T, L2, A2, C2, T2) ==
    /\ Extends(L, L2) /\ A \subseteq A2 /\ C \subseteq C2
    /\ \A v \in Server : T[v] <= T2[v]
    /\ \A t, x : Choosable(L2, A2, T2, t, x) =>
         \/ Choosable(L, A, T, t, x)
         \/ ~ Node(L, t, x) /\ \A u \in DOMAIN L2 : u <= t

(* The histories before and after a step, with their types.                  *)
HistoryStep(L, A, C, T, L2, A2, C2, T2) ==
    /\ HistoryType(L, A, T) /\ HistoryType(L2, A2, T2)
    /\ HistoryGrows(L, A, C, T, L2, A2, C2, T2)

(* What a step keeps of the leaders' logs.                                   *)
LEMMA StepKeeps ==
    ASSUME NEW L, NEW A, NEW T, NEW C, NEW L2, NEW A2, NEW T2, NEW C2,
           HistoryStep(L, A, C, T, L2, A2, C2, T2)
    PROVE  /\ HistoryType(L, A, T) /\ HistoryType(L2, A2, T2)
           /\ Extends(L, L2) /\ A \subseteq A2 /\ C \subseteq C2
           /\ \A t, x : Node(L, t, x) => Node(L2, t, x)
           /\ \A t \in DOMAIN L : t \in DOMAIN L2 /\ Len(L[t]) <= Len(L2[t])
                                  /\ t \in Nat /\ Len(L[t]) \in Nat /\ Len(L2[t]) \in Nat
           /\ \A v, t, x : v \in Acks(A, t, x) => v \in Acks(A2, t, x)
  <1>1. HistoryType(L, A, T) /\ HistoryType(L2, A2, T2)
        /\ Extends(L, L2) /\ A \subseteq A2 /\ C \subseteq C2
    BY DEF HistoryStep, HistoryGrows
  <1>2. \A t \in DOMAIN L : t \in DOMAIN L2 /\ Len(L[t]) <= Len(L2[t])
    BY <1>1 DEF Extends
  <1>3. \A t \in DOMAIN L : t \in Nat /\ Len(L[t]) \in Nat /\ Len(L2[t]) \in Nat
    BY <1>1, <1>2, LeaderLogType
  <1>4. ASSUME NEW t, NEW x, Node(L, t, x) PROVE Node(L2, t, x)
    <2>1. t \in DOMAIN L /\ x \in 1..Len(L[t]) /\ L[t][x].term = t
      BY <1>4 DEF Node
    <2>2. t \in DOMAIN L2 /\ x \in 1..Len(L2[t])
      BY <2>1, <1>2, <1>3
    <2>3. L2[t][x] = L[t][x]
      BY <2>1, <1>1 DEF Extends
    <2> QED
      BY <2>1, <2>2, <2>3 DEF Node
  <1>5. \A v, t, x : v \in Acks(A, t, x) => v \in Acks(A2, t, x)
    BY <1>1 DEF Acks
  <1> QED
    BY <1>1, <1>2, <1>3, <1>4, <1>5

(* A sealed node stays sealed.                                               *)
LEMMA SealedStays ==
    ASSUME NEW L, NEW A, NEW T, NEW C, NEW L2, NEW A2, NEW T2, NEW C2,
           HistoryStep(L, A, C, T, L2, A2, C2, T2), NEW t, NEW x, Sealed(L, A, C, t, x)
    PROVE  Sealed(L2, A2, C2, t, x) /\ t \in DOMAIN L2 /\ x \in 1..Len(L2[t])
  <1>1. t \in DOMAIN L /\ x \in 1..Len(L[t]) /\ IsMajority(Acks(A, t, x))
        /\ Node(L, t, x) /\ \A k \in 1..x : L[t][k] \in C
    BY DEF Sealed, Chosen, Node
  <1>2. Node(L2, t, x) /\ Len(L[t]) \in Nat
    BY <1>1, StepKeeps
  <1>3. ASSUME NEW k \in 1..x PROVE L2[t][k] \in C2
    <2>1. k \in 1..Len(L[t])
      BY <1>1, <1>2
    <2>2. L2[t][k] = L[t][k]
      BY <1>1, <2>1, StepKeeps DEF Extends
    <2>3. L[t][k] \in C2
      BY <1>1, StepKeeps
    <2> QED
      BY <2>2, <2>3
  <1>4. IsMajority(Acks(A2, t, x))
    <2>1. Acks(A, t, x) \in SUBSET Server /\ Acks(A2, t, x) \in SUBSET Server
      BY DEF Acks
    <2>2. Acks(A, t, x) \subseteq Acks(A2, t, x)
      BY StepKeeps
    <2> QED
      BY <2>1, <2>2, <1>1, MajorityGrows
  <1> QED
    BY <1>2, <1>3, <1>4 DEF Sealed, Chosen, Node

(* What is decided stays decided, and later terms inherit it.                *)
LEMMA DecidedStays ==
    ASSUME NEW L, NEW A, NEW T, NEW C, NEW L2, NEW A2, NEW T2, NEW C2,
           HistoryStep(L, A, C, T, L2, A2, C2, T2),
           NEW r \in Nat, NEW r2 \in Nat, r <= r2, NEW s \in Seq(Entry), Decided(L, A, C, r, s)
    PROVE  Decided(L2, A2, C2, r2, s)
  <1>1. SUFFICES ASSUME Len(s) > 0
                 PROVE  \E t \in DOMAIN L2 : \E y \in 1..Len(L2[t]) :
                          /\ Sealed(L2, A2, C2, t, y) /\ t <= r2 /\ Len(s) <= y
                          /\ \A k \in 1..Len(s) : s[k] = L2[t][k]
    BY DEF Decided
  <1>2. PICK t \in DOMAIN L : \E y \in 1..Len(L[t]) :
          /\ Sealed(L, A, C, t, y) /\ t <= r /\ Len(s) <= y
          /\ \A k \in 1..Len(s) : s[k] = L[t][k]
    BY <1>1 DEF Decided
  <1>3. PICK y \in 1..Len(L[t]) :
          /\ Sealed(L, A, C, t, y) /\ t <= r /\ Len(s) <= y
          /\ \A k \in 1..Len(s) : s[k] = L[t][k]
    BY <1>2
  <1>4. Sealed(L2, A2, C2, t, y) /\ t \in DOMAIN L2 /\ y \in 1..Len(L2[t])
    <2>1. Sealed(L, A, C, t, y)
      BY <1>3
    <2> QED
      BY <2>1, SealedStays
  <1>5. t \in Nat /\ Len(L[t]) \in Nat /\ Len(s) \in Nat
    BY StepKeeps, LenProperties
  <1>6. ASSUME NEW k \in 1..Len(s) PROVE s[k] = L2[t][k]
    <2>1. k \in 1..Len(L[t]) /\ s[k] = L[t][k]
      BY <1>3, <1>5
    <2> QED
      BY <2>1, StepKeeps DEF Extends
  <1>7. t <= r2 /\ Len(s) <= y
    BY <1>3, <1>5
  <1> QED
    BY <1>4, <1>6, <1>7

(* The same for an index alone.                                              *)
LEMMA SealedUpToStays ==
    ASSUME NEW L, NEW A, NEW T, NEW C, NEW L2, NEW A2, NEW T2, NEW C2,
           HistoryStep(L, A, C, T, L2, A2, C2, T2),
           NEW r \in Nat, NEW r2 \in Nat, r <= r2, NEW x \in Nat, SealedUpTo(L, A, C, r, x)
    PROVE  SealedUpTo(L2, A2, C2, r2, x)
  <1>1. PICK t \in DOMAIN L : \E y \in 1..Len(L[t]) : Sealed(L, A, C, t, y) /\ t <= r /\ x <= y
    BY DEF SealedUpTo
  <1>2. PICK y \in 1..Len(L[t]) : Sealed(L, A, C, t, y) /\ t <= r /\ x <= y
    BY <1>1
  <1>3. Sealed(L2, A2, C2, t, y) /\ t \in DOMAIN L2 /\ y \in 1..Len(L2[t])
    BY <1>2, SealedStays
  <1>4. t <= r2
    BY <1>2, StepKeeps
  <1> QED
    BY <1>2, <1>3, <1>4 DEF SealedUpTo

(* A log that matches a leader's still does.                                 *)
LEMMA MatchesStays ==
    ASSUME NEW L, NEW A, NEW T, NEW C, NEW L2, NEW A2, NEW T2, NEW C2,
           HistoryStep(L, A, C, T, L2, A2, C2, T2),
           NEW l \in Log, NEW t \in DOMAIN L, NEW n \in Nat, Matches(L, l, t, n)
    PROVE  Matches(L2, l, t, n)
  <1>1. n <= Len(L[t]) /\ Len(L[t]) <= Len(L2[t]) /\ Len(L[t]) \in Nat /\ Len(L2[t]) \in Nat
    BY StepKeeps DEF Matches
  <1>2. Base(l) \in Nat
    BY LogFacts
  <1>3. ASSUME NEW x \in (Base(l) + 1)..n PROVE GetLogAtIndex(l, x) = L2[t][x]
    <2>1. x \in 1..Len(L[t])
      BY <1>1, <1>2
    <2>2. L2[t][x] = L[t][x]
      BY <2>1, StepKeeps DEF Extends
    <2> QED
      BY <2>2 DEF Matches
  <1> QED
    BY <1>1, <1>3 DEF Matches

(* A snapshot that replaces what was decided still does.                     *)
LEMMA SnapshotStays ==
    ASSUME NEW L, NEW A, NEW T, NEW C, NEW L2, NEW A2, NEW T2, NEW C2,
           HistoryStep(L, A, C, T, L2, A2, C2, T2),
           NEW r \in Nat, NEW r2 \in Nat, r <= r2, NEW s \in Seq(Entry), NEW x, NEW t,
           SnapshotFits(L, A, C, r, s, x, t)
    PROVE  SnapshotFits(L2, A2, C2, r2, s, x, t)
  <1>1. Decided(L, A, C, r, s) => Decided(L2, A2, C2, r2, s)
    BY DecidedStays
  <1> QED
    BY <1>1 DEF SnapshotFits

(* A log that fits still does.                                               *)
LEMMA LogStays ==
    ASSUME NEW L, NEW A, NEW T, NEW C, NEW L2, NEW A2, NEW T2, NEW C2,
           HistoryStep(L, A, C, T, L2, A2, C2, T2),
           NEW r \in Nat, NEW r2 \in Nat, r <= r2, NEW l \in Log, NEW s \in Seq(Entry),
           LogFits(L, A, C, r, l, s)
    PROVE  LogFits(L2, A2, C2, r2, l, s)
  <1>1. LogTail(l).term \in Nat /\ LastIndex(l) \in Nat
    BY LogFacts DEF LastIndex
  <1>2. SnapshotFits(L2, A2, C2, r2, s, Base(l), l[1].term)
    BY SnapshotStays DEF LogFits
  <1>3. LogTail(l).term <= r2
    BY <1>1 DEF LogFits
  <1>4. ASSUME LastIndex(l) > Base(l)
        PROVE  Node(L2, LogTail(l).term, LastIndex(l)) /\ Matches(L2, l, LogTail(l).term, LastIndex(l))
    <2>1. Node(L, LogTail(l).term, LastIndex(l)) /\ Matches(L, l, LogTail(l).term, LastIndex(l))
      BY <1>4 DEF LogFits
    <2>2. LogTail(l).term \in DOMAIN L
      BY <2>1 DEF Node
    <2> QED
      BY <2>1, <2>2, <1>1, StepKeeps, MatchesStays
  <1> QED
    BY <1>2, <1>3, <1>4 DEF LogFits

(* A commit index that fits its log still does.                              *)
LEMMA CommitStays ==
    ASSUME NEW L, NEW A, NEW T, NEW C, NEW L2, NEW A2, NEW T2, NEW C2,
           HistoryStep(L, A, C, T, L2, A2, C2, T2),
           NEW r \in Nat, NEW r2 \in Nat, r <= r2, NEW l \in Log, NEW c \in Nat,
           CommitFits(L, A, C, r, l, c)
    PROVE  CommitFits(L2, A2, C2, r2, l, c)
  <1>1. SUFFICES ASSUME c > 0
                 PROVE  \E t \in DOMAIN L2 : \E y \in 1..Len(L2[t]) :
                          Sealed(L2, A2, C2, t, y) /\ t <= r2 /\ c <= y /\ Matches(L2, l, t, c)
    BY DEF CommitFits
  <1>2. PICK t \in DOMAIN L : \E y \in 1..Len(L[t]) :
          Sealed(L, A, C, t, y) /\ t <= r /\ c <= y /\ Matches(L, l, t, c)
    BY <1>1 DEF CommitFits
  <1>3. PICK y \in 1..Len(L[t]) :
          Sealed(L, A, C, t, y) /\ t <= r /\ c <= y /\ Matches(L, l, t, c)
    BY <1>2
  <1>4. Sealed(L2, A2, C2, t, y) /\ t \in DOMAIN L2 /\ y \in 1..Len(L2[t])
    BY <1>3, SealedStays
  <1>5. Matches(L2, l, t, c)
    BY <1>3, MatchesStays
  <1>6. t <= r2
    BY <1>3, StepKeeps
  <1> QED
    BY <1>3, <1>4, <1>5, <1>6

(* What is known of a follower stays known, its base moving up.              *)
LEMMA KnownStays ==
    ASSUME NEW L, NEW A, NEW T, NEW C, NEW L2, NEW A2, NEW T2, NEW C2,
           HistoryStep(L, A, C, T, L2, A2, C2, T2),
           NEW l \in Log, NEW l2 \in Log, Base(l) <= Base(l2),
           NEW v, NEW t \in DOMAIN L, NEW x \in Nat, Known(L, A, C, l, v, t, x)
    PROVE  Known(L2, A2, C2, l2, v, t, x)
  <1>1. t \in Nat /\ Len(L[t]) \in Nat /\ Len(L2[t]) \in Nat /\ Len(L[t]) <= Len(L2[t])
    BY StepKeeps
  <1>2. x <= Len(L2[t])
    BY <1>1 DEF Known
  <1>3. CASE v \in Acks(A, t, x)
    BY <1>2, <1>3, StepKeeps DEF Known
  <1>4. CASE x <= Base(l) /\ SealedUpTo(L, A, C, t, x)
    <2>1. SealedUpTo(L2, A2, C2, t, x)
      BY <1>1, <1>4, SealedUpToStays
    <2>2. x <= Base(l2)
      BY <1>4, LogFacts
    <2> QED
      BY <1>2, <2>1, <2>2 DEF Known
  <1> QED
    BY <1>3, <1>4 DEF Known

(* A node that can be chosen could be so before, or is one of the newest     *)
(* term that the step added.                                                 *)
LEMMA StepChoosable ==
    ASSUME NEW L, NEW A, NEW T, NEW C, NEW L2, NEW A2, NEW T2, NEW C2,
           HistoryStep(L, A, C, T, L2, A2, C2, T2), NEW t, NEW x, Choosable(L2, A2, T2, t, x)
    PROVE  Choosable(L, A, T, t, x) \/ (~ Node(L, t, x) /\ \A u \in DOMAIN L2 : u <= t)
  BY DEF HistoryStep, HistoryGrows

(* A request that fits still does: its own term shuts out newer nodes.       *)
LEMMA RequestStays ==
    ASSUME NEW L, NEW A, NEW T, NEW C, NEW L2, NEW A2, NEW T2, NEW C2,
           HistoryStep(L, A, C, T, L2, A2, C2, T2),
           NEW m \in AppendReq, RequestFits(L, A, C, T, m)
    PROVE  RequestFits(L2, A2, C2, T2, m)
  <1> DEFINE n == m.prevIndex + Len(m.entries)
  <1>1. m.term \in Nat /\ m.prevIndex \in Nat /\ m.entries \in Seq(Entry) /\ m.leaderCommit \in Nat
    BY DEF AppendReq
  <1>2. Len(m.entries) \in Nat /\ n \in Nat
    BY <1>1, LenProperties
  <1>3. m.term \in DOMAIN L /\ n <= Len(L[m.term])
    BY DEF RequestFits
  <1>4. /\ m.term \in DOMAIN L2 /\ Len(L[m.term]) <= Len(L2[m.term])
        /\ Len(L[m.term]) \in Nat /\ Len(L2[m.term]) \in Nat
    BY <1>3, StepKeeps
  <1>5. \A k \in 1..Len(L[m.term]) : L2[m.term][k] = L[m.term][k]
    BY <1>3, StepKeeps DEF Extends
  <1>6. n <= Len(L2[m.term])
    BY <1>2, <1>3, <1>4
  <1>7. \A k \in 1..Len(m.entries) : m.entries[k] = L2[m.term][m.prevIndex + k]
    <2> SUFFICES ASSUME NEW k \in 1..Len(m.entries)
                 PROVE  m.entries[k] = L2[m.term][m.prevIndex + k]
      OBVIOUS
    <2>1. m.prevIndex + k \in 1..Len(L[m.term])
      BY <1>1, <1>2, <1>3, <1>4
    <2> QED
      BY <2>1, <1>5 DEF RequestFits
  <1>8. m.prevIndex > 0 => L2[m.term][m.prevIndex].term = m.prevTerm
    <2> SUFFICES ASSUME m.prevIndex > 0 PROVE L2[m.term][m.prevIndex].term = m.prevTerm
      OBVIOUS
    <2>1. m.prevIndex \in 1..Len(L[m.term])
      BY <1>1, <1>2, <1>3, <1>4
    <2> QED
      BY <2>1, <1>5 DEF RequestFits
  <1>9. m.leaderCommit <= n
    BY DEF RequestFits
  <1>10. m.leaderCommit > 0 => SealedUpTo(L2, A2, C2, m.term, m.leaderCommit)
    BY <1>1, SealedUpToStays DEF RequestFits
  <1>11. ASSUME NEW t \in DOMAIN L2, NEW x \in 1..Len(L2[t]), Choosable(L2, A2, T2, t, x), t < m.term
         PROVE  x <= n
    <2>1. t \in Nat
      BY StepKeeps, LeaderLogType
    <2>2. ~ (\A u \in DOMAIN L2 : u <= t)
      BY <2>1, <1>1, <1>4, <1>11
    <2>3. Choosable(L, A, T, t, x)
      BY <2>2, <1>11, StepChoosable
    <2>4. t \in DOMAIN L /\ x \in 1..Len(L[t])
      BY <2>3 DEF Choosable, Node
    <2> QED
      BY <2>3, <2>4, <1>11 DEF RequestFits
  <1> QED
    BY <1>4, <1>6, <1>7, <1>8, <1>9, <1>10, <1>11 DEF RequestFits

(* What a server stored stays stored if it stores nothing new.               *)
LEMMA AckStays ==
    ASSUME NEW L, NEW A, NEW T, NEW C, NEW L2, NEW A2, NEW T2, NEW C2,
           HistoryStep(L, A, C, T, L2, A2, C2, T2),
           NEW v \in Server, NEW l \in Log, AckFits(L, A, T, v, l),
           \A a \in A2 : a.server = v => a \in A
    PROVE  AckFits(L2, A2, T2, v, l)
  <1>1. T[v] \in Nat /\ T2[v] \in Nat /\ T[v] <= T2[v]
    BY DEF HistoryStep, HistoryType, HistoryGrows
  <1>2. ASSUME NEW a \in A2, a.server = v
        PROVE  /\ a.term <= T2[v] /\ a.term \in DOMAIN L2 /\ a.index \in 1..Len(L2[a.term])
               /\ a.term = T2[v] => \/ a.index <= Base(l)
                                    \/ a.index <= LastIndex(l) /\ Matches(L2, l, a.term, a.index)
    <2>1. a \in A /\ a.term \in Nat /\ a.index \in Nat
      BY <1>2, StepKeeps DEF HistoryType
    <2>2. /\ a.term <= T[v] /\ a.term \in DOMAIN L /\ a.index \in 1..Len(L[a.term])
          /\ a.term = T[v] => \/ a.index <= Base(l)
                              \/ a.index <= LastIndex(l) /\ Matches(L, l, a.term, a.index)
      BY <2>1, <1>2 DEF AckFits
    <2>3. a.term \in DOMAIN L2 /\ a.index \in 1..Len(L2[a.term])
      BY <2>2, StepKeeps
    <2>4. a.term <= T2[v]
      BY <1>1, <2>1, <2>2
    <2>5. ASSUME a.term = T2[v]
          PROVE  a.index <= Base(l) \/ (a.index <= LastIndex(l) /\ Matches(L2, l, a.term, a.index))
      <3>1. a.term = T[v]
        BY <1>1, <2>1, <2>2, <2>5
      <3> QED
        BY <3>1, <2>1, <2>2, MatchesStays
    <2> QED
      BY <2>3, <2>4, <2>5
  <1>3. ASSUME NEW t \in DOMAIN L2, NEW x \in 1..Len(L2[t]),
               v \in Acks(A2, t, x), Choosable(L2, A2, T2, t, x)
        PROVE  LogCovers(l, t, x)
    <2>1. PICK a \in A2 : a.server = v /\ a.term = t /\ a.index >= x
      BY <1>3 DEF Acks
    <2>2. a \in A /\ v \in Acks(A, t, x)
      BY <2>1 DEF Acks
    <2>3. t \in DOMAIN L /\ a.index \in 1..Len(L[t])
      BY <2>1, <2>2 DEF AckFits
    <2>4. Len(L[t]) \in Nat /\ Len(L2[t]) \in Nat
      BY <2>3, StepKeeps
    <2>5. x \in 1..Len(L[t])
      BY <2>1, <2>3, <2>4
    <2>6. L2[t][x] = L[t][x]
      BY <2>3, <2>5, StepKeeps DEF Extends
    <2>7. Node(L, t, x)
      BY <2>3, <2>5, <2>6, <1>3 DEF Choosable, Node
    <2>8. Choosable(L, A, T, t, x)
      BY <2>7, <1>3, StepChoosable
    <2> QED
      BY <2>2, <2>3, <2>5, <2>8 DEF AckFits
  <1> QED
    BY <1>2, <1>3 DEF AckFits

(* The state of a service stays the one decided.                             *)
LEMMA StateStays ==
    ASSUME NEW L, NEW A, NEW T, NEW C, NEW L2, NEW A2, NEW T2, NEW C2,
           HistoryStep(L, A, C, T, L2, A2, C2, T2),
           NEW r \in Nat, NEW r2 \in Nat, r <= r2, NEW s \in Seq(Entry), NEW b, NEW applied,
           NEW fresh \in BOOLEAN, NEW p, fresh => p \in Entry,
           StateFits(L, A, C, r, s, b, applied, fresh, p)
    PROVE  StateFits(L2, A2, C2, r2, s, b, applied, fresh, p)
  <1>1. Decided(L2, A2, C2, r2, s)
    BY DecidedStays DEF StateFits
  <1>2. CASE fresh
    <2>1. Append(s, p) \in Seq(Entry)
      BY <1>2
    <2>2. Decided(L2, A2, C2, r2, Append(s, p))
      BY <2>1, <1>2, DecidedStays DEF StateFits
    <2> QED
      BY <1>1, <1>2, <2>2 DEF StateFits
  <1>3. CASE ~ fresh
    BY <1>1, <1>3 DEF StateFits
  <1> QED
    BY <1>2, <1>3

(* A leader whose log the step leaves alone keeps fitting it.                *)
LEMMA LeaderStays ==
    ASSUME NEW L, NEW A, NEW T, NEW C, NEW L2, NEW A2, NEW T2, NEW C2,
           HistoryStep(L, A, C, T, L2, A2, C2, T2),
           NEW i, NEW t, NEW l \in Log, LeaderFits(L, A, i, t, l), L2[t] = L[t]
    PROVE  LeaderFits(L2, A2, i, t, l)
  <1>1. t \in DOMAIN L /\ t \in DOMAIN L2
    BY StepKeeps DEF LeaderFits
  <1>2. \A x \in 1..Len(L[t]) : Node(L2, t, x) => Node(L, t, x)
    BY <1>1 DEF Node
  <1>3. \A x : i \in Acks(A, t, x) => i \in Acks(A2, t, x)
    BY StepKeeps
  <1>4. Matches(L2, l, t, LastIndex(l))
    BY DEF LeaderFits, Matches
  <1> QED
    BY <1>1, <1>2, <1>3, <1>4 DEF LeaderFits

(* A committed entry stays on the way to a sealed node.                      *)
LEMMA OnWayStays ==
    ASSUME NEW L, NEW A, NEW T, NEW C, NEW L2, NEW A2, NEW T2, NEW C2,
           HistoryStep(L, A, C, T, L2, A2, C2, T2), NEW e, OnWay(L, A, C, e)
    PROVE  OnWay(L2, A2, C2, e)
  <1>1. PICK t \in DOMAIN L : \E y \in 1..Len(L[t]) :
          Sealed(L, A, C, t, y) /\ e.index \in 1..y /\ e = L[t][e.index]
    BY DEF OnWay
  <1>2. PICK y \in 1..Len(L[t]) :
          Sealed(L, A, C, t, y) /\ e.index \in 1..y /\ e = L[t][e.index]
    BY <1>1
  <1>3. Sealed(L2, A2, C2, t, y) /\ t \in DOMAIN L2 /\ y \in 1..Len(L2[t])
    BY <1>2, SealedStays
  <1>4. e.index \in 1..Len(L[t])
    BY <1>2, StepKeeps
  <1>5. L2[t][e.index] = L[t][e.index]
    BY <1>4, StepKeeps DEF Extends
  <1> QED
    BY <1>2, <1>3, <1>5 DEF OnWay

-----------------------------------------------------------------------------
(* Where logs end.                                                           *)

(* A contiguous log holds the indices from its base to its tail.             *)
LEMMA IndexRange ==
    ASSUME NEW l \in Log, Contiguous(l)
    PROVE  /\ Base(l) \in Nat /\ LastIndex(l) \in Nat /\ Base(l) <= LastIndex(l)
           /\ LastIndex(l) = Base(l) + Len(l) - 1 /\ Len(l) \in Nat /\ Len(l) > 0
           /\ l[1] \in Entry /\ l[1].term \in Nat /\ l[1].index = Base(l)
           /\ LogTail(l).term \in Nat
           /\ LastIndex(l) = Base(l) => LogTail(l) = l[1]
           /\ GetLogAtIndex(l, LastIndex(l)) = LogTail(l)
           /\ GetLogAtIndex(l, Base(l)) = l[1]
           /\ \A x \in Nat : HasIndex(l, x) <=> x \in Base(l)..LastIndex(l)
           /\ \A x \in Base(l)..LastIndex(l) : /\ x \in Nat /\ GetLogAtIndex(l, x) \in Entry
                                               /\ GetLogAtIndex(l, x).term \in Nat
                                               /\ GetLogAtIndex(l, x).index = x
  <1>1. /\ Base(l) \in Nat /\ LastIndex(l) \in Nat /\ Len(l) \in Nat /\ Len(l) > 0
        /\ LastIndex(l) = Base(l) + Len(l) - 1 /\ LogTail(l).term \in Nat
        /\ l[1] \in Entry /\ l[1].term \in Nat /\ l[1].index = Base(l)
    BY LogFacts, ContiguousTail DEF LastIndex, Base
  <1>2. Base(l) <= LastIndex(l)
    BY <1>1
  <1>3. LastIndex(l) = Base(l) => LogTail(l) = l[1]
    <2>1. ASSUME NEW b \in Nat, NEW n \in Nat, b = b + n - 1 PROVE n = 1
      BY <2>1
    <2>2. LastIndex(l) = Base(l) => Len(l) = 1
      BY <2>1, <1>1
    <2> QED
      BY <2>2 DEF LogTail
  <1>4. GetLogAtIndex(l, LastIndex(l)) = LogTail(l) /\ GetLogAtIndex(l, Base(l)) = l[1]
    <2>1. LastIndex(l) - Base(l) + 1 = Len(l) /\ Base(l) - Base(l) + 1 = 1
      BY <1>1
    <2> QED
      BY <2>1 DEF GetLogAtIndex, LogIndexToSubscript, LogTail
  <1>5. \A x \in Nat : HasIndex(l, x) <=> x \in Base(l)..LastIndex(l)
    BY <1>1 DEF HasIndex, LogIndexToSubscript
  <1>6. \A x \in Base(l)..LastIndex(l) : x \in Nat
    BY <1>1
  <1>7. ASSUME NEW x \in Base(l)..LastIndex(l)
        PROVE  /\ GetLogAtIndex(l, x) \in Entry /\ GetLogAtIndex(l, x).term \in Nat
               /\ GetLogAtIndex(l, x).index = x
    BY <1>5, <1>6, HasIndexFacts
  <1> QED
    BY <1>1, <1>2, <1>3, <1>4, <1>5, <1>6, <1>7

(* Every log ends in a node of the tree, its snapshot included.              *)
LEMMA LogEnds ==
    ASSUME NEW L, NEW A, NEW T, NEW C, HistoryType(L, A, T), LogTree(L),
           NEW r, NEW l \in Log, Contiguous(l), NEW s \in Seq(Entry), LogFits(L, A, C, r, l, s)
    PROVE  EndsIn(L, LogTail(l).term, LastIndex(l))
  <1>1. CASE LastIndex(l) > Base(l)
    BY <1>1 DEF LogFits, EndsIn
  <1>2. CASE LastIndex(l) = Base(l)
    <2>1. LogTail(l).term = l[1].term /\ Base(l) \in Nat
      BY <1>2, IndexRange
    <2>2. Len(s) = Base(l) /\ Decided(L, A, C, r, s)
          /\ l[1].term = IF Base(l) = 0 THEN 0 ELSE s[Base(l)].term
      BY DEF LogFits, SnapshotFits
    <2>3. CASE Base(l) = 0
      BY <2>1, <2>2, <2>3, <1>2 DEF EndsIn
    <2>4. CASE Base(l) > 0
      <3>1. PICK t \in DOMAIN L : \E y \in 1..Len(L[t]) :
              /\ Sealed(L, A, C, t, y) /\ t <= r /\ Len(s) <= y
              /\ \A k \in 1..Len(s) : s[k] = L[t][k]
        BY <2>2, <2>4 DEF Decided
      <3>2. Base(l) \in 1..Len(L[t]) /\ s[Base(l)] = L[t][Base(l)]
        BY <2>1, <2>2, <2>4, <3>1, LeaderLogType
      <3>3. Node(L, L[t][Base(l)].term, Base(l))
        BY <3>2, TreeNode
      <3> QED
        BY <3>2, <3>3, <2>1, <2>2, <2>4, <1>2 DEF EndsIn
    <2> QED
      BY <2>1, <2>3, <2>4
  <1> QED
    BY <1>1, <1>2, IndexRange

(* What ends in a node at least as up-to-date as one that can be chosen is   *)
(* at least as long.                                                         *)
LEMMA CoversLonger ==
    ASSUME NEW L, NEW A, NEW T, HistoryType(L, A, T), LogTree(L), Complete(L, A, T),
           NEW t, NEW x, Choosable(L, A, T, t, x), NEW w, NEW n, EndsIn(L, w, n), Covers(w, n, t, x)
    PROVE  Node(L, w, n) /\ t <= w /\ x <= n /\ L[w][x] = L[t][x] /\ x \in 1..Len(L[w])
  <1>1. t \in DOMAIN L /\ x \in 1..Len(L[t]) /\ L[t][x].term = t
    BY DEF Choosable, Node
  <1>2. t \in Nat /\ t > 0 /\ Len(L[t]) \in Nat /\ x \in Nat
    <2>1. t \in Nat /\ Len(L[t]) \in Nat
      BY <1>1, LeaderLogType
    <2>2. L[t][x].term > 0
      BY <1>1, TreeNode
    <2> QED
      BY <2>1, <2>2, <1>1
  <1>3. Node(L, w, n) /\ w \in DOMAIN L /\ n \in 1..Len(L[w]) /\ L[w][n].term = w
    BY <1>2 DEF EndsIn, Covers, Node
  <1>4. w \in Nat /\ Len(L[w]) \in Nat
    BY <1>3, LeaderLogType
  <1>5. t <= w
    BY <1>2, <1>4 DEF Covers
  <1>6. x \in 1..Len(L[w]) /\ L[w][x].term = t /\ Agree(L, w, t, x)
    BY <1>3, <1>5, ChoosableKept
  <1>7. x <= n
    <2> SUFFICES ASSUME n < x PROVE FALSE
      BY <1>2, <1>3, <1>4
    <2>1. n \in 1..x
      BY <1>3, <1>4, <1>6
    <2>2. L[w][n].term <= L[w][x].term
      BY <2>1, <1>3, <1>6, TermsAscend
    <2>3. w = t
      BY <2>2, <1>2, <1>3, <1>4, <1>5, <1>6
    <2> QED
      BY <2>3, <1>2, <1>3, <1>4 DEF Covers
  <1>8. L[w][x] = L[t][x]
    <2>1. x \in 1..x
      BY <1>2, <1>6
    <2> QED
      BY <2>1, <1>6 DEF Agree
  <1> QED
    BY <1>3, <1>5, <1>6, <1>7, <1>8

(* A decided sequence agrees with the log of any leader that sealed as much. *)
LEMMA DecidedSealed ==
    ASSUME NEW L, NEW A, NEW T, NEW C, HistoryType(L, A, T), LogTree(L), Complete(L, A, T),
           NEW r, NEW s \in Seq(Entry), Decided(L, A, C, r, s),
           NEW t, NEW y, Choosable(L, A, T, t, y), Len(s) <= y
    PROVE  Begins(s, L[t])
  <1>0. t \in DOMAIN L /\ y \in 1..Len(L[t])
    BY DEF Choosable, Node
  <1>1. Len(s) \in Nat /\ t \in Nat /\ Len(L[t]) \in Nat /\ y \in Nat
    BY <1>0, LeaderLogType, LenProperties
  <1>2. CASE Len(s) = 0
    BY <1>1, <1>2 DEF Begins
  <1>3. CASE Len(s) > 0
    <2>1. PICK w \in DOMAIN L : \E z \in 1..Len(L[w]) :
            /\ Sealed(L, A, C, w, z) /\ w <= r /\ Len(s) <= z
            /\ \A k \in 1..Len(s) : s[k] = L[w][k]
      BY <1>3 DEF Decided
    <2>2. PICK z \in 1..Len(L[w]) :
            /\ Sealed(L, A, C, w, z) /\ Len(s) <= z
            /\ \A k \in 1..Len(s) : s[k] = L[w][k]
      BY <2>1
    <2>3. w \in Nat /\ Len(L[w]) \in Nat
      BY LeaderLogType
    <2>4. Choosable(L, A, T, w, z)
      BY <2>2, ChosenChoosable DEF Sealed
    <2>5. Agree(L, t, w, z) \/ Agree(L, w, t, y)
      BY <2>3, <2>4, <1>0, <1>1, ChoosableKept
    <2>6. \A k \in 1..Len(s) : k \in 1..z /\ k \in 1..y
      BY <2>2, <2>3, <1>1
    <2>7. \A k \in 1..Len(s) : s[k] = L[t][k]
      BY <2>2, <2>5, <2>6 DEF Agree
    <2> QED
      BY <2>7, <1>0, <1>1 DEF Begins
  <1> QED
    BY <1>1, <1>2, <1>3

-----------------------------------------------------------------------------
(* What the operators on logs do to the entries at each index.               *)

(* Log l2 has the entries of l above its own base, which is no lower.        *)
Cut(l, l2) ==
    /\ Base(l) <= Base(l2)
    /\ \A x \in (Base(l2) + 1)..LastIndex(l) : GetLogAtIndex(l2, x) = GetLogAtIndex(l, x)

(* Then it matches what l matched.                                           *)
LEMMA CutMatches ==
    ASSUME NEW L, NEW l \in Log, NEW l2 \in Log, Contiguous(l), Cut(l, l2),
           NEW t, NEW n \in Nat, n <= LastIndex(l), Matches(L, l, t, n)
    PROVE  Matches(L, l2, t, n)
  <1>1. Base(l) \in Nat /\ Base(l2) \in Nat /\ LastIndex(l) \in Nat /\ Base(l) <= Base(l2)
    BY LogFacts DEF LastIndex, Cut
  <1>2. ASSUME NEW x \in (Base(l2) + 1)..n PROVE GetLogAtIndex(l2, x) = L[t][x]
    <2>1. x \in (Base(l) + 1)..n /\ x \in (Base(l2) + 1)..LastIndex(l)
      BY <1>1
    <2> QED
      BY <2>1 DEF Cut, Matches
  <1> QED
    BY <1>2 DEF Matches

(* Start adds one entry after the tail.                                      *)
LEMMA AppendFacts ==
    ASSUME NEW l \in Log, NEW e \in Entry, Contiguous(l), e.index = LastIndex(l) + 1
    PROVE  LET l2 == Append(l, e) IN
           /\ l2 \in Log /\ Contiguous(l2) /\ Cut(l, l2) /\ Base(l2) = Base(l) /\ l2[1] = l[1]
           /\ LogTail(l2) = e /\ LastIndex(l2) = LastIndex(l) + 1
           /\ GetLogAtIndex(l2, LastIndex(l) + 1) = e
  <1> DEFINE l2 == Append(l, e)
  <1>1. l2 \in Log /\ Contiguous(l2)
    BY StartShape DEF LastIndex
  <1>2. l \in Seq(Entry) /\ Len(l) \in Nat /\ Len(l) > 0 /\ Base(l) \in Nat
        /\ LastIndex(l) = Base(l) + Len(l) - 1
    BY IndexRange DEF Log
  <1>3. Len(l2) = Len(l) + 1 /\ (\A k \in 1..Len(l) : l2[k] = l[k]) /\ l2[Len(l) + 1] = e
    BY <1>2, AppendProperties
  <1> HIDE DEF l2
  <1>4. l2[1] = l[1] /\ Base(l2) = Base(l)
    BY <1>2, <1>3 DEF Base
  <1>5. LogTail(l2) = e /\ LastIndex(l2) = LastIndex(l) + 1
    BY <1>3 DEF LogTail, LastIndex
  <1>6. GetLogAtIndex(l2, LastIndex(l) + 1) = e
    <2>1. (LastIndex(l) + 1) - Base(l2) + 1 = Len(l) + 1
      BY <1>2, <1>4
    <2> QED
      BY <2>1, <1>3 DEF GetLogAtIndex, LogIndexToSubscript
  <1>7. ASSUME NEW x \in (Base(l2) + 1)..LastIndex(l)
        PROVE  GetLogAtIndex(l2, x) = GetLogAtIndex(l, x)
    <2>1. x - Base(l) + 1 \in 1..Len(l)
      BY <1>2, <1>4
    <2> QED
      BY <2>1, <1>3, <1>4 DEF GetLogAtIndex, LogIndexToSubscript
  <1>8. Cut(l, l2)
    BY <1>2, <1>4, <1>7 DEF Cut
  <1> QED
    BY <1>1, <1>4, <1>5, <1>6, <1>8 DEF l2

(* Raft.Snapshot cuts the log at x and keeps its tail.                       *)
LEMMA TrimFacts ==
    ASSUME NEW l \in Log, NEW x \in Nat, Contiguous(l), x \in Base(l)..LastIndex(l)
    PROVE  LET l2 == Trim(l, x) IN
           /\ l2 \in Log /\ Contiguous(l2) /\ Cut(l, l2) /\ Base(l2) = x
           /\ l2[1].term = GetLogAtIndex(l, x).term
           /\ LogTail(l2).term = LogTail(l).term /\ LastIndex(l2) = LastIndex(l)
  <1> DEFINE k == LogIndexToSubscript(l, x)
             s == SubSeq(l, k, Len(l))
             l2 == Trim(l, x)
             n == Len(l) - k + 1
  <1>1. l \in Seq(Entry) /\ Len(l) \in Nat /\ Len(l) > 0 /\ Base(l) \in Nat /\ DOMAIN l = 1..Len(l)
        /\ LastIndex(l) = Base(l) + Len(l) - 1 /\ LastIndex(l) \in Nat
    BY IndexRange, LogFacts DEF Log
  <1>2. k = x - Base(l) + 1 /\ k \in 1..Len(l) /\ k \in Nat
    BY <1>1 DEF LogIndexToSubscript
  <1>3. l[k].index = x
    BY <1>1, <1>2 DEF Contiguous
  <1>4. l2 \in Log /\ Contiguous(l2)
    BY <1>1, <1>2, <1>3, TrimShape
  <1> HIDE DEF k
  <1>5. n \in Nat /\ n > 0
    BY <1>1, <1>2
  <1>6. s \in Seq(Entry) /\ Len(s) = n /\ \A j \in 1..n : s[j] = l[k + j - 1]
    <2>1. l \in Seq(Entry) /\ k \in Int /\ Len(l) \in Int /\ k >= 1 /\ Len(l) <= Len(l) /\ k <= Len(l)
      BY <1>1, <1>2
    <2>2. /\ s \in Seq(Entry) /\ Len(s) = IF k <= Len(l) THEN n ELSE 0
          /\ \A j \in 1..n : s[j] = l[k + j - 1]
      BY ONLY <2>1, SubSeqOfLog, Zenon
    <2> QED
      BY <2>1, <2>2
  <1>7. DOMAIN s = 1..n /\ s \in [1..n -> Entry]
    BY <1>6, LenProperties
  <1>8. l2 = [s EXCEPT ![1].cmd = Nil]
    BY DEF Trim, k
  <1> HIDE DEF s, l2
  <1>9. \A j \in 1..n : j # 1 => l2[j] = s[j]
    BY <1>7, <1>8
  <1>10. l2[1].term = s[1].term /\ l2[1].index = s[1].index
    <2>1. 1 \in 1..n /\ s[1] \in Entry
      BY <1>5, <1>7
    <2>2. l2[1] = [s[1] EXCEPT !.cmd = Nil]
      BY <2>1, <1>7, <1>8
    <2> QED
      BY <2>1, <2>2 DEF Entry
  <1>11. Len(l2) = n
    <2>1. DOMAIN l2 = 1..n
      BY <1>7, <1>8
    <2> QED
      BY <2>1, <1>4, <1>5, LogFacts
  <1>12. s[1] = l[k] /\ l[k] = GetLogAtIndex(l, x)
    <2>1. 1 \in 1..n /\ k + 1 - 1 = k
      BY <1>2, <1>5
    <2> QED
      BY <2>1, <1>6 DEF GetLogAtIndex, k
  <1>13. Base(l2) = x /\ l2[1].term = GetLogAtIndex(l, x).term
    BY <1>3, <1>10, <1>12 DEF Base
  <1>14. LastIndex(l2) = LastIndex(l)
    <2>1. LastIndex(l2) = x + n - 1
      BY <1>4, <1>11, <1>13, IndexRange
    <2> QED
      BY <2>1, <1>1, <1>2
  <1>15. ASSUME NEW y \in (x + 1)..LastIndex(l) PROVE GetLogAtIndex(l2, y) = GetLogAtIndex(l, y)
    <2>1. y - x + 1 \in 1..n /\ y - x + 1 # 1 /\ k + (y - x + 1) - 1 = y - Base(l) + 1
      BY <1>1, <1>2, SMTT(20)
    <2>2. l2[y - x + 1] = l[y - Base(l) + 1]
      BY <2>1, <1>6, <1>9
    <2> QED
      BY <2>2, <1>13 DEF GetLogAtIndex, LogIndexToSubscript
  <1>16. Cut(l, l2)
    BY <1>13, <1>15 DEF Cut
  <1>17. LogTail(l2).term = LogTail(l).term
    <2>1. CASE LastIndex(l) = x
      BY <2>1, <1>4, <1>13, <1>14, IndexRange
    <2>2. CASE LastIndex(l) > x
      <3>1. LastIndex(l) \in (x + 1)..LastIndex(l)
        BY <2>2, <1>1
      <3>2. GetLogAtIndex(l2, LastIndex(l)) = GetLogAtIndex(l, LastIndex(l))
        BY <3>1, <1>15
      <3> QED
        BY <3>2, <1>4, <1>14, IndexRange
    <2> QED
      BY <2>1, <2>2, <1>1
  <1> QED
    BY <1>4, <1>13, <1>14, <1>16, <1>17 DEF l2

(* CondInstallSnapshot cuts the log at the snapshot: it keeps the tail, or   *)
(* nothing.                                                                  *)
LEMMA InstalledFacts ==
    ASSUME NEW l \in Log, NEW s \in SnapMsg, Contiguous(l), s.index >= Base(l)
    PROVE  LET l2 == Installed(l, s) IN
           /\ l2 \in Log /\ Contiguous(l2) /\ Cut(l, l2) /\ Base(l2) = s.index
           /\ l2[1].term = s.term
           /\ IF s.index >= LastIndex(l)
              THEN LogTail(l2).term = s.term /\ LastIndex(l2) = s.index
              ELSE LogTail(l2) = LogTail(l) /\ LastIndex(l2) = LastIndex(l)
  <1> DEFINE e == [term |-> s.term, index |-> s.index, cmd |-> Nil]
             k == LogIndexToSubscript(l, s.index) + 1
             rest == IF s.index >= LastIndex(l) THEN << >> ELSE SubSeq(l, k, Len(l))
             l2 == Installed(l, s)
  <1>1. l \in Seq(Entry) /\ Len(l) \in Nat /\ Len(l) > 0 /\ Base(l) \in Nat
        /\ LastIndex(l) = Base(l) + Len(l) - 1 /\ LastIndex(l) \in Nat
    BY IndexRange DEF Log
  <1>2. s.index \in Nat /\ s.term \in Nat
    BY DEF SnapMsg
  <1>3. l2 \in Log /\ Contiguous(l2)
    BY InstalledShape
  <1>4. e \in Entry /\ e.index = s.index /\ e.term = s.term
    BY <1>2 DEF Entry
  <1>5. k = s.index - Base(l) + 2 /\ k \in Nat /\ k >= 2
    BY <1>1, <1>2 DEF LogIndexToSubscript
  <1>6. l2 = <<e>> \o rest
    BY DEF Installed, LastIndex
  <1> HIDE DEF e, k, l2
  <1>7. rest \in Seq(Entry) /\ Len(rest) = (IF s.index >= LastIndex(l) THEN 0 ELSE Len(l) - k + 1)
        /\ \A j \in 1..Len(rest) : rest[j] = l[k + j - 1]
    <2>1. CASE s.index >= LastIndex(l)
      BY <2>1, EmptySeq
    <2>2. CASE ~ (s.index >= LastIndex(l))
      <3>1. rest = SubSeq(l, k, Len(l))
        BY <2>2
      <3> HIDE DEF rest
      <3>2. k <= Len(l) /\ Len(l) \in Int /\ k \in Int /\ k >= 1
        BY <2>2, <1>1, <1>2, <1>5
      <3>3. rest \in Seq(Entry) /\ Len(rest) = Len(l) - k + 1
            /\ \A j \in 1..(Len(l) - k + 1) : rest[j] = l[k + j - 1]
        BY <3>1, <3>2, <1>1, SubSeqOfLog
      <3> QED
        BY <2>2, <3>3
    <2> QED
      BY <2>1, <2>2
  <1> HIDE DEF rest
  <1>8. Len(rest) \in Nat
    BY <1>7, LenProperties
  <1>9. Len(l2) = 1 + Len(rest)
        /\ \A j \in 1..(1 + Len(rest)) : l2[j] = IF j <= 1 THEN e ELSE rest[j - 1]
    <2>1. <<e>> \in Seq(Entry) /\ Len(<<e>>) = 1 /\ <<e>>[1] = e
      BY <1>4
    <2> QED
      BY <2>1, <1>6, <1>7, ConcatProperties
  <1>10. l2[1] = e /\ Base(l2) = s.index
    BY <1>4, <1>8, <1>9 DEF Base
  <1>11. LastIndex(l2) = s.index + Len(rest)
    BY <1>2, <1>3, <1>8, <1>9, <1>10, IndexRange, SMTT(20)
  <1>12. ASSUME NEW y \in (s.index + 1)..LastIndex(l)
         PROVE  GetLogAtIndex(l2, y) = GetLogAtIndex(l, y)
    <2>1. ~ (s.index >= LastIndex(l))
      BY <1>1, <1>2
    <2>2. Len(rest) = Len(l) - k + 1
      BY <2>1, <1>7
    <2>3. PICK x \in Nat, b \in Nat, n \in Nat, q \in Nat :
            x = s.index /\ b = Base(l) /\ n = Len(l) /\ q = Len(rest)
      BY <1>1, <1>2, <1>8
    <2>4. y \in (x + 1)..(b + n - 1) /\ k = x - b + 2 /\ q = n - k + 1 /\ y \in Int /\ k \in Int
      BY <2>2, <2>3, <1>1, <1>5
    <2> DEFINE j == y - x
    <2>5. j \in 1..q /\ k + j - 1 = (y - b) + 1
      BY <2>4
    <2>6. rest[j] = l[k + j - 1]
      BY <2>3, <2>5, <1>7
    <2>7. j + 1 \in 1..(1 + q) /\ ~ (j + 1 <= 1) /\ (j + 1) - 1 = j
      BY <2>4, <2>5
    <2> HIDE DEF j
    <2>8. l2[j + 1] = rest[(j + 1) - 1]
      BY <2>3, <2>7, <1>9
    <2>9. l2[(y - x) + 1] = l[(y - b) + 1]
      BY <2>5, <2>6, <2>7, <2>8 DEF j
    <2> QED
      BY <2>3, <2>9, <1>10 DEF GetLogAtIndex, LogIndexToSubscript
  <1>13. Cut(l, l2)
    BY <1>10, <1>12, <1>1, <1>2 DEF Cut
  <1>14. CASE s.index >= LastIndex(l)
    <2>1. LastIndex(l2) = s.index
      BY <1>14, <1>7, <1>11, <1>2
    <2>2. LogTail(l2) = l2[1]
      BY <2>1, <1>3, <1>10, IndexRange
    <2> QED
      BY <2>1, <2>2, <1>3, <1>4, <1>10, <1>13, <1>14 DEF l2
  <1>15. CASE ~ (s.index >= LastIndex(l))
    <2>1. LastIndex(l2) = LastIndex(l)
      <3>1. ASSUME NEW x \in Nat, NEW b \in Nat, NEW n \in Nat
            PROVE  x + (n - (x - b + 2) + 1) = b + n - 1
        OBVIOUS
      <3>2. LastIndex(l2) = s.index + (Len(l) - (s.index - Base(l) + 2) + 1)
        BY <1>15, <1>5, <1>7, <1>11
      <3> QED
        BY <3>1, <3>2, <1>1, <1>2
    <2>2. LastIndex(l) \in (s.index + 1)..LastIndex(l)
      BY <1>15, <1>1, <1>2
    <2>3. LogTail(l2) = LogTail(l)
      BY <2>1, <2>2, <1>3, <1>12, IndexRange
    <2> QED
      BY <2>1, <2>3, <1>3, <1>4, <1>10, <1>13, <1>15 DEF l2
  <1> QED
    BY <1>14, <1>15

(* The whole log of a server: its snapshot, then what follows its base.      *)
LEMMA SpliceFacts ==
    ASSUME NEW l \in Log, Contiguous(l), NEW s \in Seq(Entry), Len(s) = Base(l)
    PROVE  LET F == s \o SubSeq(l, 2, Len(l)) IN
           /\ F \in Seq(Entry) /\ Len(F) = LastIndex(l)
           /\ \A k \in 1..Base(l) : F[k] = s[k]
           /\ \A k \in (Base(l) + 1)..LastIndex(l) : F[k] = GetLogAtIndex(l, k)
  <1> DEFINE r == SubSeq(l, 2, Len(l))
             F == s \o r
  <1>1. PICK b \in Nat, n \in Nat : b = Base(l) /\ n = Len(l) /\ n > 0 /\ LastIndex(l) = b + n - 1
    BY IndexRange
  <1>2. PICK j \in Int : j = 2
    OBVIOUS
  <1>3. r \in Seq(Entry) /\ Len(r) = (IF j <= Len(l) THEN Len(l) - j + 1 ELSE 0)
        /\ \A k \in 1..(Len(l) - j + 1) : r[k] = l[j + k - 1]
    <2>1. l \in Seq(Entry) /\ Len(l) \in Int /\ j \in Int /\ j >= 1 /\ Len(l) <= Len(l)
      BY <1>1, <1>2 DEF Log
    <2>2. /\ SubSeq(l, j, Len(l)) \in Seq(Entry)
          /\ Len(SubSeq(l, j, Len(l))) = IF j <= Len(l) THEN Len(l) - j + 1 ELSE 0
          /\ \A k \in 1..(Len(l) - j + 1) : SubSeq(l, j, Len(l))[k] = l[j + k - 1]
      BY ONLY <2>1, SubSeqOfLog, Zenon
    <2>3. r = SubSeq(l, j, Len(l))
      BY <1>2
    <2> HIDE DEF r
    <2> QED
      BY <2>2, <2>3
  <1>4. Len(r) = n - 1 /\ \A k \in 1..(n - 1) : r[k] = l[k + 1]
    <2>1. Len(r) = n - 1
      BY <1>1, <1>2, <1>3
    <2>2. ASSUME NEW k \in 1..(n - 1) PROVE r[k] = l[k + 1]
      <3>1. k \in 1..(Len(l) - j + 1) /\ j + k - 1 = k + 1
        BY <1>1, <1>2
      <3> QED
        BY <3>1, <1>3
    <2> QED
      BY <2>1, <2>2
  <1> HIDE DEF r
  <1>5. F \in Seq(Entry) /\ Len(F) = b + (n - 1)
        /\ \A k \in 1..(b + (n - 1)) : F[k] = IF k <= b THEN s[k] ELSE r[k - b]
    <2>1. F \in Seq(Entry) /\ Len(F) = Len(s) + Len(r)
          /\ \A k \in 1..(Len(s) + Len(r)) : F[k] = IF k <= Len(s) THEN s[k] ELSE r[k - Len(s)]
      BY <1>3, ConcatProperties
    <2>2. Len(s) = b /\ Len(r) = n - 1
      BY <1>1, <1>4
    <2> HIDE DEF F
    <2> QED
      BY <2>1, <2>2
  <1> HIDE DEF F
  <1>6. Len(F) = LastIndex(l)
    BY <1>1, <1>5
  <1>7. ASSUME NEW k \in 1..Base(l) PROVE F[k] = s[k]
    BY <1>1, <1>5
  <1>8. ASSUME NEW k \in (Base(l) + 1)..LastIndex(l) PROVE F[k] = GetLogAtIndex(l, k)
    <2>1. k \in 1..(b + (n - 1)) /\ ~ (k <= b) /\ k - b \in 1..(n - 1)
      BY <1>1
    <2>2. F[k] = l[(k - b) + 1]
      BY <2>1, <1>4, <1>5
    <2> QED
      BY <2>2, <1>1 DEF GetLogAtIndex, LogIndexToSubscript
  <1> QED
    BY <1>5, <1>6, <1>7, <1>8 DEF F, r

(* The entries Replicate sends are those of the log after index p.           *)
LEMMA EntriesFacts ==
    ASSUME NEW l \in Log, Contiguous(l), NEW p \in Nat, p \in Base(l)..LastIndex(l)
    PROVE  LET es == SubSeq(l, LogIndexToSubscript(l, p + 1), Len(l)) IN
           /\ es \in Seq(Entry) /\ Len(es) = LastIndex(l) - p
           /\ \A k \in 1..Len(es) : es[k] = GetLogAtIndex(l, p + k)
  <1> DEFINE j == LogIndexToSubscript(l, p + 1)
             es == SubSeq(l, j, Len(l))
  <1>1. PICK b \in Nat, n \in Nat : b = Base(l) /\ n = Len(l) /\ n > 0 /\ LastIndex(l) = b + n - 1
    BY IndexRange
  <1>2. j = p - b + 2 /\ j \in Int /\ p \in b..(b + n - 1)
    BY <1>1 DEF LogIndexToSubscript
  <1>3. l \in Seq(Entry) /\ j \in Int /\ Len(l) \in Int /\ j >= 1 /\ Len(l) <= Len(l)
    BY <1>1, <1>2 DEF Log
  <1> HIDE DEF j
  <1>4. es \in Seq(Entry) /\ Len(es) = (IF j <= Len(l) THEN Len(l) - j + 1 ELSE 0)
        /\ \A k \in 1..(Len(l) - j + 1) : es[k] = l[j + k - 1]
    BY ONLY <1>3, SubSeqOfLog, Zenon
  <1> HIDE DEF es
  <1>5. Len(es) = LastIndex(l) - p
    <2>1. PICK q \in Int : q = j
      BY <1>2
    <2>2. q = p - b + 2 /\ p >= b /\ p <= b + n - 1
      BY <2>1, <1>2
    <2>3. Len(es) = IF q <= n THEN n - q + 1 ELSE 0
      BY <2>1, <1>1, <1>4
    <2>4. Len(es) = (b + n - 1) - p
      BY <2>2, <2>3
    <2> QED
      BY <2>4, <1>1
  <1>6. ASSUME NEW k \in 1..Len(es) PROVE es[k] = GetLogAtIndex(l, p + k)
    <2>1. k \in 1..(Len(l) - j + 1) /\ j + k - 1 = (p + k) - b + 1
      BY <1>1, <1>2, <1>4
    <2>2. es[k] = l[(p + k) - b + 1]
      BY <2>1, <1>4
    <2> QED
      BY <2>2, <1>1 DEF GetLogAtIndex, LogIndexToSubscript
  <1> QED
    BY <1>4, <1>5, <1>6 DEF es, j

(* A prefix of the log up to index z - 1, continued by entries from index z. *)
Joined(l, es, prev, z) == SubSeq(l, 1, z - Base(l)) \o SubSeq(es, z - prev, Len(es))

(* It has the old entries below z and the new ones from there on.            *)
LEMMA JoinedFacts ==
    ASSUME NEW l \in Log, Contiguous(l), NEW es \in Seq(Entry), NEW prev \in Nat, Follows(es, prev),
           NEW z \in Nat, z \in (Base(l) + 1)..(LastIndex(l) + 1), z \in (prev + 1)..(prev + Len(es))
    PROVE  LET l2 == Joined(l, es, prev, z)
               n == prev + Len(es) IN
           /\ l2 \in Log /\ Contiguous(l2)
           /\ Base(l2) = Base(l) /\ l2[1] = l[1] /\ LastIndex(l2) = n
           /\ LogTail(l2) = es[Len(es)]
           /\ \A x \in (Base(l) + 1)..(z - 1) : GetLogAtIndex(l2, x) = GetLogAtIndex(l, x)
           /\ \A x \in z..n : GetLogAtIndex(l2, x) = es[x - prev]
  <1> DEFINE p == SubSeq(l, 1, z - Base(l))
             q == SubSeq(es, z - prev, Len(es))
             l2 == p \o q
  <1>1. PICK b \in Nat, c \in Nat, n \in Nat :
          b = Base(l) /\ c = Len(l) /\ c > 0 /\ LastIndex(l) = b + c - 1 /\ n = Len(es)
    BY IndexRange, LenProperties
  <1>2. z \in (b + 1)..(b + c) /\ z \in (prev + 1)..(prev + n)
    BY <1>1
  <1>3. p \in Seq(Entry) /\ Len(p) = z - b /\ \A j \in 1..(z - b) : p[j] = l[j]
    <2>1. l \in Seq(Entry) /\ 1 \in Int /\ z - b \in Int /\ 1 >= 1 /\ z - b <= Len(l)
      BY <1>1, <1>2 DEF Log
    <2>2. /\ SubSeq(l, 1, z - b) \in Seq(Entry)
          /\ Len(SubSeq(l, 1, z - b)) = IF 1 <= z - b THEN (z - b) - 1 + 1 ELSE 0
          /\ \A j \in 1..((z - b) - 1 + 1) : SubSeq(l, 1, z - b)[j] = l[1 + j - 1]
      BY ONLY <2>1, SubSeqOfLog, Zenon
    <2>3. p = SubSeq(l, 1, z - b)
      BY <1>1
    <2> HIDE DEF p
    <2>4. Len(p) = z - b
      BY <2>2, <2>3, <1>2
    <2>5. ASSUME NEW j \in 1..(z - b) PROVE p[j] = l[j]
      <3>1. j \in 1..((z - b) - 1 + 1) /\ 1 + j - 1 = j
        BY <1>2
      <3> QED
        BY <3>1, <2>2, <2>3
    <2> QED
      BY <2>2, <2>3, <2>4, <2>5
  <1>4. q \in Seq(Entry) /\ Len(q) = n - (z - prev) + 1
        /\ \A j \in 1..(n - (z - prev) + 1) : q[j] = es[(z - prev) + j - 1]
    <2>1. es \in Seq(Entry) /\ z - prev \in Int /\ Len(es) \in Int /\ z - prev >= 1 /\ Len(es) <= Len(es)
          /\ z - prev <= Len(es)
      BY <1>1, <1>2
    <2>2. /\ q \in Seq(Entry)
          /\ Len(q) = IF z - prev <= Len(es) THEN Len(es) - (z - prev) + 1 ELSE 0
          /\ \A j \in 1..(Len(es) - (z - prev) + 1) : q[j] = es[(z - prev) + j - 1]
      BY ONLY <2>1, SubSeqOfLog, Zenon
    <2> HIDE DEF q
    <2> QED
      BY <2>1, <2>2, <1>1
  <1> HIDE DEF p, q
  <1>5. Len(p) \in Nat /\ Len(q) \in Nat /\ Len(p) + Len(q) = (prev + n) - b + 1
    BY <1>2, <1>3, <1>4
  <1>6. l2 \in Seq(Entry) /\ Len(l2) = Len(p) + Len(q)
        /\ \A j \in 1..(Len(p) + Len(q)) : l2[j] = IF j <= Len(p) THEN p[j] ELSE q[j - Len(p)]
    BY <1>3, <1>4, ConcatProperties
  <1> HIDE DEF l2
  <1>7. Len(l2) = (prev + n) - b + 1
        /\ (\A j \in 1..(z - b) : l2[j] = l[j])
        /\ \A x \in z..(prev + n) : l2[(x - b) + 1] = es[x - prev]
    <2>1. ASSUME NEW j \in 1..(z - b) PROVE l2[j] = l[j]
      <3>1. j \in 1..(Len(p) + Len(q)) /\ j <= Len(p)
        BY <1>2, <1>3, <1>5
      <3> QED
        BY <3>1, <1>3, <1>6
    <2>2. ASSUME NEW x \in z..(prev + n) PROVE l2[(x - b) + 1] = es[x - prev]
      <3> DEFINE j == (x - b) + 1
      <3>1. j \in 1..(Len(p) + Len(q)) /\ ~ (j <= Len(p)) /\ j - Len(p) = (x - z) + 1
        BY <1>2, <1>3, <1>5
      <3>2. l2[j] = q[(x - z) + 1]
        <4> HIDE DEF j
        <4> QED
          BY <3>1, <1>6
      <3> DEFINE k == (x - z) + 1
      <3>3. k \in 1..(n - (z - prev) + 1) /\ (z - prev) + k - 1 = x - prev
        BY <1>2
      <3>4. q[k] = es[x - prev]
        <4> HIDE DEF k
        <4> QED
          BY <3>3, <1>4
      <3> QED
        BY <3>2, <3>4
    <2> QED
      BY <2>1, <2>2, <1>5, <1>6
  <1>8. l2[1] = l[1] /\ Base(l2) = b
    <2>1. 1 \in 1..(z - b)
      BY <1>2
    <2>2. l2[1] = l[1]
      BY <2>1, <1>7
    <2> QED
      BY <2>2, <1>1 DEF Base
  <1>9. l2 \in Log /\ DOMAIN l2 = 1..Len(l2)
    <2>1. Len(l2) # 0
      BY <1>2, <1>7
    <2> QED
      BY <2>1, <1>6, EmptySeq, LenProperties DEF Log
  <1>10. Contiguous(l2)
    <2> SUFFICES ASSUME NEW j \in 1..((prev + n) - b + 1) PROVE l2[j].index = b + j - 1
      BY <1>7, <1>8, <1>9 DEF Contiguous
    <2>1. CASE j <= z - b
      <3>1. j \in 1..(z - b) /\ j \in 1..Len(l)
        BY <2>1, <1>1, <1>2
      <3>2. l[j].index = b + j - 1
        BY <3>1, <1>1, LogFacts DEF Contiguous
      <3> QED
        BY <3>1, <3>2, <1>7
    <2>2. CASE ~ (j <= z - b)
      <3> DEFINE x == b + j - 1
      <3>1. x \in z..(prev + n) /\ (x - b) + 1 = j /\ x - prev \in 1..n /\ prev + (x - prev) = x
        BY <2>2, <1>2
      <3> HIDE DEF x
      <3>2. l2[j] = es[x - prev]
        BY <3>1, <1>7
      <3>3. es[x - prev].index = prev + (x - prev)
        BY <3>1, <1>1, LenProperties DEF Follows
      <3> QED
        BY <3>1, <3>2, <3>3 DEF x
    <2> QED
      BY <2>1, <2>2
  <1>11. LastIndex(l2) = prev + n
    <2>1. LastIndex(l2) = b + Len(l2) - 1
      BY <1>8, <1>9, <1>10, IndexRange
    <2>2. Len(l2) = (prev + n) - b + 1
      BY <1>7
    <2> QED
      BY <2>1, <2>2
  <1>12. ASSUME NEW x \in z..(prev + n) PROVE GetLogAtIndex(l2, x) = es[x - prev]
    BY <1>7, <1>8 DEF GetLogAtIndex, LogIndexToSubscript
  <1>13. ASSUME NEW x \in (b + 1)..(z - 1) PROVE GetLogAtIndex(l2, x) = GetLogAtIndex(l, x)
    <2>1. (x - b) + 1 \in 1..(z - b)
      BY <1>2
    <2>2. l2[(x - b) + 1] = l[(x - b) + 1]
      BY <2>1, <1>7
    <2> QED
      BY <2>2, <1>1, <1>8 DEF GetLogAtIndex, LogIndexToSubscript
  <1>14. LogTail(l2) = es[Len(es)]
    <2>1. prev + n \in z..(prev + n) /\ (prev + n) - prev = n
      BY <1>2
    <2>2. GetLogAtIndex(l2, prev + n) = es[n]
      BY <2>1, <1>12
    <2> QED
      BY <2>2, <1>1, <1>9, <1>10, <1>11, IndexRange
  <1>15. Joined(l, es, prev, z) = l2
    BY DEF Joined, l2, p, q
  <1> QED
    BY <1>1, <1>8, <1>9, <1>10, <1>11, <1>12, <1>13, <1>14, <1>15

-----------------------------------------------------------------------------
(* What the three steps that extend a log do to the tree of leaders' logs:   *)
(* a follower merges entries (AppendEntries), a leader appends one (Start),  *)
(* a candidate's log becomes that of a new leader (DoElection).              *)

(* Merge leaves log l alone: the entries es, up to n, are all in it.         *)
MergeKeeps(l, es, n) ==
    /\ Merge(l, es) = l
    /\ n > Base(l) =>
         n <= LastIndex(l) /\ (Len(es) > 0 => GetLogAtIndex(l, n).term = es[Len(es)].term)

(* Merge replaces l from z on, where it first lacks or contradicts es.       *)
MergeJoins(l, es, prev, n) ==
    \E z \in Nat :
        /\ z \in Base(l)..(LastIndex(l) + 1) /\ z \in (prev + 1)..n
        /\ Merge(l, es) = Joined(l, es, prev, z)
        /\ z <= LastIndex(l) => GetLogAtIndex(l, z).term # es[z - prev].term
        /\ \A x \in (prev + 1)..(z - 1) :
             x >= Base(l) => GetLogAtIndex(l, x).term = es[x - prev].term

(* Merge does one or the other.                                              *)
LEMMA MergeChoice ==
    ASSUME NEW l \in Log, Contiguous(l), NEW es \in Seq(Entry), NEW prev \in Nat, Follows(es, prev),
           prev > 0 /\ prev >= Base(l) => HasIndex(l, prev), NEW n \in Nat, n = prev + Len(es)
    PROVE  MergeKeeps(l, es, n) \/ MergeJoins(l, es, prev, n)
  <1> DEFINE present == {k \in DOMAIN es : HasIndex(l, es[k].index)}
             conflict == {k \in present : GetLogAtIndex(l, es[k].index).term # es[k].term}
  <1>1. PICK b \in Nat, c \in Nat, d \in Nat :
          b = Base(l) /\ c = LastIndex(l) /\ d = Len(es) /\ b <= c /\ c = b + Len(l) - 1
    BY IndexRange, LenProperties
  <1>2. n = prev + d /\ DOMAIN es = 1..d /\ \A k \in 1..d : es[k].index = prev + k
    BY <1>1, LenProperties DEF Follows
  <1>3. \A x \in Nat : HasIndex(l, x) <=> x \in b..c
    BY <1>1, IndexRange
  <1>4. \A k : k \in present <=> k \in 1..d /\ prev + k \in b..c
    <2>1. \A k \in 1..d : prev + k \in Nat
      BY <1>1
    <2> QED
      BY <2>1, <1>2, <1>3
  <1>5. \A k : k \in conflict <=> k \in present /\ GetLogAtIndex(l, prev + k).term # es[k].term
    BY <1>2, <1>4
  <1>6. es = << >> \/ (es # << >> /\ LogTail(es).index = n /\ d > 0)
    <2>1. es # << >> => d # 0
      BY <1>1, EmptySeq
    <2>2. d # 0 => d \in 1..d /\ d > 0
      BY <1>1
    <2> QED
      BY <2>1, <2>2, <1>1, <1>2 DEF LogTail
  <1>7. es = << >> => d = 0
    BY <1>1, EmptySeq
  <1>8. CASE es = << >>
    <2>1. Merge(l, es) = l /\ n = prev
      BY <1>2, <1>7, <1>8 DEF Merge
    <2>2. n > b => n <= c
      BY <2>1, <1>1, <1>3
    <2> QED
      BY <2>1, <2>2, <1>1, <1>7, <1>8 DEF MergeKeeps
  <1>9. CASE es # << >> /\ n < b
    <2>1. Merge(l, es) = l
      BY <1>6, <1>9, <1>1 DEF Merge
    <2> QED
      BY <2>1, <1>1, <1>9 DEF MergeKeeps
  <1>10. CASE es # << >> /\ ~ (n < b) /\ conflict # {}
    <2>0. conflict \in SUBSET Nat
      BY <1>4, <1>5
    <2>1. Min(conflict) \in conflict /\ \A k \in conflict : Min(conflict) <= k
      BY <2>0, <1>10, NatMin
    <2>2. PICK k \in 1..d : k = Min(conflict)
      BY <2>1, <1>4, <1>5
    <2>3. Merge(l, es) = SubSeq(l, 1, LogIndexToSubscript(l, es[k].index) - 1) \o SubSeq(es, k, Len(es))
      BY <1>1, <1>6, <1>10, <2>2 DEF Merge
    <2> HIDE DEF present, conflict
    <2> DEFINE z == prev + k
    <2>4. z \in b..c /\ GetLogAtIndex(l, z).term # es[k].term
      BY <2>1, <2>2, <1>4, <1>5
    <2>5. z \in Nat /\ z \in Base(l)..(LastIndex(l) + 1) /\ z \in (prev + 1)..n /\ z - prev = k
      BY <2>4, <1>1, <1>2
    <2>6. Merge(l, es) = Joined(l, es, prev, z)
      <3>1. LogIndexToSubscript(l, es[k].index) - 1 = z - Base(l)
        BY <1>1, <1>2 DEF LogIndexToSubscript
      <3> QED
        BY <3>1, <2>3, <2>5 DEF Joined
    <2>7. ASSUME NEW x \in (prev + 1)..(z - 1), x >= Base(l)
          PROVE  GetLogAtIndex(l, x).term = es[x - prev].term
      <3> DEFINE j == x - prev
      <3>1. j \in 1..d /\ j < k /\ prev + j = x /\ x \in b..c /\ j \in Nat
        BY <2>4, <2>7, <1>1
      <3> HIDE DEF j
      <3>2. j \in present
        BY <3>1, <1>4
      <3>3. j \notin conflict
        BY <3>1, <2>1, <2>2
      <3> QED
        BY <3>1, <3>2, <3>3, <1>5 DEF j
    <2> QED
      BY <2>4, <2>5, <2>6, <2>7, <1>1 DEF MergeJoins
  <1>11. CASE es # << >> /\ ~ (n < b) /\ conflict = {}
    <2>1. ASSUME NEW x \in (prev + 1)..n, x >= b, x <= c
          PROVE  GetLogAtIndex(l, x).term = es[x - prev].term
      <3> DEFINE j == x - prev
      <3>1. j \in 1..d /\ prev + j = x /\ x \in b..c
        BY <2>1, <1>1, <1>2
      <3> HIDE DEF j, present, conflict
      <3>2. j \in present /\ j \notin conflict
        BY <3>1, <1>4, <1>11
      <3> QED
        BY <3>1, <3>2, <1>5 DEF j
    <2>2. d > 0 /\ n >= b /\ n \in Nat
      BY <1>1, <1>2, <1>6, <1>11
    <2>3. Merge(l, es) = l \o SubSeq(es, IF present = {} THEN 1 ELSE Max(present) + 1, Len(es))
      BY <1>1, <1>6, <1>11 DEF Merge
    <2> HIDE DEF present, conflict
    <2>4. CASE n <= c
      <3>1. d \in present
        BY <2>2, <2>4, <1>1, <1>2, <1>4
      <3>2. present \in SUBSET (0..d) /\ present # {}
        BY <3>1, <1>4
      <3>3. Max(present) \in present /\ Max(present) >= d
        BY <3>1, <3>2, NatMax
      <3>4. Max(present) = d
        BY <3>3, <1>1, <1>4
      <3>5. SubSeq(es, d + 1, d) = << >>
        <4>1. es \in Seq(Entry) /\ d + 1 \in Int /\ d \in Int /\ d + 1 >= 1 /\ d <= Len(es) /\ ~ (d + 1 <= d)
          BY <1>1
        <4>2. Len(SubSeq(es, d + 1, d)) = 0 /\ SubSeq(es, d + 1, d) \in Seq(Entry)
          BY <4>1, SubSeqOfLog
        <4> QED
          BY <4>2, EmptySeq
      <3>6. Merge(l, es) = l
        <4>1. Merge(l, es) = l \o << >>
          BY <2>3, <3>2, <3>4, <3>5, <1>1
        <4> QED
          BY <4>1 DEF Log
      <3>7. GetLogAtIndex(l, n).term = es[Len(es)].term
        <4>1. n \in (prev + 1)..n /\ n - prev = d
          BY <2>2, <1>1, <1>2
        <4> QED
          BY <4>1, <2>1, <2>2, <2>4, <1>1
      <3> QED
        BY <3>6, <3>7, <2>4, <1>1 DEF MergeKeeps
    <2>5. CASE n > c
      <3> DEFINE z == c + 1
      <3>1. prev <= c
        <4> SUFFICES ASSUME prev > c PROVE FALSE
          BY <1>1
        <4> QED
          BY <1>1, <1>3
      <3>2. z \in Nat /\ z \in Base(l)..(LastIndex(l) + 1) /\ z \in (prev + 1)..n /\ ~ (z <= LastIndex(l))
        BY <3>1, <2>5, <1>1
      <3>3. (IF present = {} THEN 1 ELSE Max(present) + 1) = z - prev
        <4>1. CASE prev = c
          <5>1. ASSUME NEW k \in present PROVE FALSE
            <6>1. k \in 1..d /\ prev + k \in b..c
              BY <5>1, <1>4
            <6> QED
              BY <6>1, <4>1, <1>1, SMTT(20)
          <5>2. present = {}
            BY <5>1
          <5> QED
            BY <5>2, <4>1, <1>1
        <4>2. CASE prev < c
          <5>1. c - prev \in 1..d /\ prev + (c - prev) = c
            BY <4>2, <2>5, <1>1, <1>2
          <5>2. c - prev \in present
            BY <5>1, <1>1, <1>4
          <5>3. present \in SUBSET (0..d) /\ present # {}
            BY <5>2, <1>4
          <5>4. Max(present) \in present /\ Max(present) >= c - prev
            BY <5>2, <5>3, NatMax
          <5>5. Max(present) = c - prev
            BY <5>4, <1>1, <1>4, SMTT(20)
          <5>6. (c - prev) + 1 = z - prev
            BY <1>1
          <5> QED
            BY <5>3, <5>5, <5>6
        <4> QED
          BY <4>1, <4>2, <3>1
      <3>4. SubSeq(l, 1, z - Base(l)) = l
        <4>1. z - Base(l) = Len(l) /\ l \in Seq(Entry)
          BY <1>1, IndexRange DEF Log
        <4> QED
          BY <4>1, SubSeqFull
      <3>5. Merge(l, es) = Joined(l, es, prev, z)
        BY <2>3, <3>3, <3>4 DEF Joined
      <3>6. ASSUME NEW x \in (prev + 1)..(z - 1), x >= Base(l)
            PROVE  GetLogAtIndex(l, x).term = es[x - prev].term
        BY <2>1, <2>5, <3>6, <1>1
      <3> QED
        BY <3>2, <3>5, <3>6 DEF MergeJoins
    <2> QED
      BY <2>4, <2>5, <2>2, <1>1
  <1> QED
    BY <1>8, <1>9, <1>10, <1>11

(* A log with an entry of the leader's term at x matches the leader's log    *)
(* up to x.                                                                  *)
LEMMA TermMatches ==
    ASSUME NEW L, NEW A, NEW T, NEW C, HistoryType(L, A, T), LogTree(L),
           NEW r, NEW l \in Log, Contiguous(l), NEW s, LogFits(L, A, C, r, l, s),
           NEW u \in DOMAIN L, NEW x \in Nat, x \in (Base(l) + 1)..LastIndex(l), x <= Len(L[u]),
           GetLogAtIndex(l, x).term = L[u][x].term
    PROVE  Matches(L, l, u, x)
  <1> DEFINE w == LogTail(l).term
             n == LastIndex(l)
  <1>1. Base(l) \in Nat /\ n \in Nat /\ n > Base(l)
    BY IndexRange
  <1>2. Node(L, w, n) /\ Matches(L, l, w, n)
    BY <1>1 DEF LogFits
  <1>3. w \in DOMAIN L /\ n \in 1..Len(L[w]) /\ \A y \in (Base(l) + 1)..n : GetLogAtIndex(l, y) = L[w][y]
    BY <1>2 DEF Node, Matches
  <1>4. Len(L[w]) \in Nat /\ Len(L[u]) \in Nat
    BY <1>3, LeaderLogType
  <1>5. x \in 1..Len(L[w]) /\ x \in 1..Len(L[u]) /\ L[w][x].term = L[u][x].term
    BY <1>1, <1>3, <1>4
  <1>6. Agree(L, w, u, x)
    BY <1>3, <1>5, LogMatching
  <1>7. ASSUME NEW y \in (Base(l) + 1)..x PROVE GetLogAtIndex(l, y) = L[u][y]
    <2>1. y \in (Base(l) + 1)..n /\ y \in 1..x
      BY <1>1
    <2> QED
      BY <2>1, <1>3, <1>6 DEF Agree
  <1> QED
    BY <1>7 DEF Matches

(* Log l agrees with the leader of u up to n.                                *)
Reaches(L, l, u, n) == n > Base(l) => n <= LastIndex(l) /\ Matches(L, l, u, n)

(* Log l2 replaces l: it is the log of the leader of u up to n and no more,  *)
(* and what of l agreed with that log is in it.                              *)
Replaces(L, l, l2, u, n) ==
    /\ n > Base(l) /\ l2 \in Log /\ Contiguous(l2) /\ Base(l2) = Base(l) /\ l2[1] = l[1]
    /\ LastIndex(l2) = n /\ Matches(L, l2, u, n) /\ LogTail(l2).term = L[u][n].term
    /\ \A x \in Nat : x <= LastIndex(l) /\ Matches(L, l, u, x) => x <= n

(* The place of index x among d entries that follow index p.                 *)
LEMMA PlaceAfter ==
    ASSUME NEW p \in Nat, NEW d \in Nat, NEW n \in Nat, n = p + d, NEW x \in (p + 1)..n
    PROVE  x - p \in 1..d /\ p + (x - p) = x
  OBVIOUS

(* What AppendEntries makes of a log: with the request's leader it agrees up *)
(* to where the request ends, and it gives up only what does not agree.      *)
LEMMA MergeFits ==
    ASSUME NEW L, NEW A, NEW T, NEW C, HistoryType(L, A, T), LogTree(L), Complete(L, A, T),
           NEW m \in AppendReq, RequestFits(L, A, C, T, m), Follows(m.entries, m.prevIndex),
           NEW r \in Nat, r <= m.term, NEW l \in Log, Contiguous(l), NEW s \in Seq(Entry),
           LogFits(L, A, C, r, l, s), ~ PrevConflict(m, l),
           NEW n \in Nat, n = m.prevIndex + Len(m.entries)
    PROVE  \/ Merge(l, m.entries) = l /\ Reaches(L, l, m.term, n)
           \/ Replaces(L, l, Merge(l, m.entries), m.term, n)
  <1> DEFINE u == m.term
             l2 == Merge(l, m.entries)
  <1>1. PICK es \in Seq(Entry), prev \in Nat, b \in Nat, c \in Nat, d \in Nat :
          /\ es = m.entries /\ prev = m.prevIndex /\ b = Base(l) /\ c = LastIndex(l) /\ d = Len(es)
          /\ b <= c
    <2>1. m.entries \in Seq(Entry) /\ m.prevIndex \in Nat
      BY DEF AppendReq
    <2> QED
      BY <2>1, IndexRange, LenProperties
  <1>2. u \in DOMAIN L /\ n <= Len(L[u]) /\ n = prev + d /\ u \in Nat /\ Len(L[u]) \in Nat
    BY <1>1, LeaderLogType DEF RequestFits
  <1>3. \A k \in 1..d : es[k] = L[u][prev + k]
    BY <1>1 DEF RequestFits
  <1>4. \A x \in (prev + 1)..n : es[x - prev] = L[u][x]
    <2> SUFFICES ASSUME NEW x \in (prev + 1)..n PROVE es[x - prev] = L[u][x]
      OBVIOUS
    <2>1. x - prev \in 1..d /\ prev + (x - prev) = x
      BY <1>2, PlaceAfter
    <2> QED
      BY <2>1, <1>3
  <1>5. prev > 0 /\ prev >= b => HasIndex(l, prev) /\ prev <= c /\ GetLogAtIndex(l, prev).term = L[u][prev].term
    <2>1. prev > 0 /\ prev >= b => HasIndex(l, prev) /\ GetLogAtIndex(l, prev).term = m.prevTerm
      BY <1>1 DEF PrevConflict
    <2>2. prev > 0 => L[u][prev].term = m.prevTerm
      BY <1>1 DEF RequestFits
    <2>3. HasIndex(l, prev) => prev <= c
      BY <1>1, IndexRange
    <2> QED
      BY <2>1, <2>2, <2>3
  <1>6. Follows(es, prev) /\ n = prev + Len(es) /\ (prev > 0 /\ prev >= Base(l) => HasIndex(l, prev))
    BY <1>1, <1>5
  <1>7. ASSUME NEW x \in Nat, x \in (b + 1)..c, x <= n, GetLogAtIndex(l, x).term = L[u][x].term
        PROVE  Matches(L, l, u, x)
    <2>1. x \in (Base(l) + 1)..LastIndex(l) /\ x <= Len(L[u])
      BY <1>1, <1>2, <1>7
    <2> QED
      BY <2>1, <1>2, <1>7, TermMatches
  <1> HIDE DEF u
  <1>8. CASE MergeKeeps(l, es, n)
    <2> SUFFICES ASSUME n > b PROVE n <= c /\ Matches(L, l, u, n)
      BY <1>1, <1>8 DEF u, Reaches, MergeKeeps
    <2>1. n <= c /\ n \in (b + 1)..c
      BY <1>1, <1>8 DEF MergeKeeps
    <2>2. GetLogAtIndex(l, n).term = L[u][n].term
      <3>1. CASE d > 0
        <4>1. d \in 1..d
          BY <3>1
        <4> QED
          BY <4>1, <3>1, <1>1, <1>2, <1>3, <1>8 DEF MergeKeeps
      <3>2. CASE d = 0
        <4>1. n = prev /\ prev > 0 /\ prev >= b
          BY <3>2, <1>2
        <4> QED
          BY <4>1, <1>5
      <3> QED
        BY <3>1, <3>2
    <2> QED
      BY <2>1, <2>2, <1>7
  <1>9. CASE MergeJoins(l, es, prev, n)
    <2>1. PICK z \in Nat :
               /\ z \in b..(c + 1) /\ z \in (prev + 1)..n
               /\ Merge(l, es) = Joined(l, es, prev, z)
               /\ z <= c => GetLogAtIndex(l, z).term # es[z - prev].term
               /\ \A x \in (prev + 1)..(z - 1) :
                    x >= b => GetLogAtIndex(l, x).term = es[x - prev].term
      BY <1>1, <1>9 DEF MergeJoins
    <2>2. es[z - prev] = L[u][z]
      BY <2>1, <1>4
    <2>3. z # b
      <3> SUFFICES ASSUME z = b PROVE FALSE
        OBVIOUS
      <3>1. b > 0 /\ Len(s) = b /\ Decided(L, A, C, r, s) /\ l[1].term = s[b].term
        BY <2>1, <1>1, SMTT(20) DEF LogFits, SnapshotFits
      <3>2. \A k \in 1..Len(s) : s[k] = L[u][k]
        <4>1. r <= u
          BY DEF u
        <4>2. Begins(s, L[u])
          BY <3>1, <4>1, <1>2, DecidedKept
        <4> QED
          BY <4>2 DEF Begins
      <3>3. l[1].term = L[u][b].term
        BY <3>1, <3>2
      <3>4. GetLogAtIndex(l, b) = l[1]
        BY <1>1, IndexRange
      <3> QED
        BY <3>3, <3>4, <2>1, <2>2, <1>1
    <2>4. z > b /\ n > b
      BY <2>1, <2>3
    <2>5. z \in (Base(l) + 1)..(LastIndex(l) + 1) /\ z \in (prev + 1)..(prev + Len(es))
      BY <2>1, <2>4, <1>1, <1>2
    <2> DEFINE j == Joined(l, es, prev, z)
    <2>6. /\ j \in Log /\ Contiguous(j) /\ Base(j) = b /\ j[1] = l[1] /\ LastIndex(j) = n
          /\ LogTail(j) = es[Len(es)]
          /\ \A x \in (b + 1)..(z - 1) : GetLogAtIndex(j, x) = GetLogAtIndex(l, x)
          /\ \A x \in z..n : GetLogAtIndex(j, x) = es[x - prev]
      <3>1. /\ j \in Log /\ Contiguous(j) /\ Base(j) = Base(l) /\ j[1] = l[1]
            /\ LastIndex(j) = prev + Len(es)
            /\ LogTail(j) = es[Len(es)]
            /\ \A x \in (Base(l) + 1)..(z - 1) : GetLogAtIndex(j, x) = GetLogAtIndex(l, x)
            /\ \A x \in z..(prev + Len(es)) : GetLogAtIndex(j, x) = es[x - prev]
        BY <2>5, <1>6, JoinedFacts
      <3> HIDE DEF j
      <3> QED
        BY <3>1, <1>1, <1>2
    <2>7. l2 = j
      BY <2>1, <1>1
    <2> HIDE DEF j, l2
    <2>8. z - 1 > b => Matches(L, l, u, z - 1)
      <3> SUFFICES ASSUME z - 1 > b PROVE Matches(L, l, u, z - 1)
        OBVIOUS
      <3>1. z - 1 \in Nat /\ z - 1 \in (b + 1)..c /\ z - 1 <= n
        BY <2>1, <1>1, SMTT(20)
      <3>2. CASE z - 1 > prev
        <4>1. z - 1 \in (prev + 1)..(z - 1) /\ z - 1 \in (prev + 1)..n /\ z - 1 >= b
          BY <3>1, <3>2, <1>1
        <4>2. GetLogAtIndex(l, z - 1).term = L[u][z - 1].term
          BY <4>1, <2>1, <1>4
        <4> QED
          BY <4>2, <3>1, <1>7
      <3>3. CASE z - 1 = prev
        BY <3>1, <3>3, <1>5, <1>7, <1>1
      <3>4. z - 1 > prev \/ z - 1 = prev
        <4>1. z >= prev + 1
          BY <2>1
        <4> QED
          BY <4>1
      <3> QED
        BY <3>2, <3>3, <3>4
    <2>9. Matches(L, j, u, n)
      <3> SUFFICES ASSUME NEW x \in (b + 1)..n PROVE GetLogAtIndex(j, x) = L[u][x]
        BY <2>6, <1>2 DEF Matches
      <3>1. CASE x >= z
        <4>1. x \in z..n /\ x \in (prev + 1)..n
          BY <3>1, <2>1
        <4> QED
          BY <4>1, <2>6, <1>4
      <3>2. CASE x < z
        <4>1. x \in (b + 1)..(z - 1) /\ z - 1 > b
          BY <3>2, <2>1, <1>1
        <4>2. GetLogAtIndex(l, x) = L[u][x]
          BY <4>1, <2>8, <1>1 DEF Matches
        <4> QED
          BY <4>1, <4>2, <2>6
      <3> QED
        BY <3>1, <3>2, <2>1, <1>1
    <2>10. LogTail(j).term = L[u][n].term
      <3>1. d \in 1..d
        BY <2>1, <1>1, <1>2
      <3> QED
        BY <3>1, <2>6, <1>1, <1>2, <1>3
    <2>11. ASSUME NEW x \in Nat, x <= c, Matches(L, l, u, x) PROVE x <= n
      <3> SUFFICES ASSUME x > n PROVE FALSE
        OBVIOUS
      <3>1. z <= c /\ z \in (b + 1)..x
        BY <2>1, <2>4, <2>11, <1>1, SMTT(20)
      <3>2. GetLogAtIndex(l, z) = L[u][z]
        BY <3>1, <2>11, <1>1 DEF Matches
      <3> QED
        BY <3>1, <3>2, <2>1, <2>2
    <2> QED
      BY <2>4, <2>6, <2>7, <2>9, <2>10, <2>11, <1>1 DEF u, l2, Replaces
  <1>10. MergeKeeps(l, es, n) \/ MergeJoins(l, es, prev, n)
    BY <1>6, MergeChoice
  <1> QED
    BY <1>8, <1>9, <1>10

(* The merged log fits the follower's snapshot and the request's term.       *)
LEMMA MergeLog ==
    ASSUME NEW L, NEW A, NEW T, NEW C, HistoryType(L, A, T), LogTree(L), Complete(L, A, T),
           NEW m \in AppendReq, RequestFits(L, A, C, T, m), Follows(m.entries, m.prevIndex),
           NEW r \in Nat, r <= m.term, NEW l \in Log, Contiguous(l), NEW s \in Seq(Entry),
           LogFits(L, A, C, r, l, s), ~ PrevConflict(m, l)
    PROVE  /\ LogFits(L, A, C, m.term, Merge(l, m.entries), s)
           /\ Base(Merge(l, m.entries)) = Base(l)
  <1> DEFINE u == m.term
             l2 == Merge(l, m.entries)
  <1>1. PICK n \in Nat : n = m.prevIndex + Len(m.entries)
    BY LenProperties DEF AppendReq
  <1>2. u \in DOMAIN L /\ n <= Len(L[u]) /\ u \in Nat /\ Len(L[u]) \in Nat
    BY <1>1, LeaderLogType DEF RequestFits
  <1>3. Base(l) \in Nat /\ LogTail(l).term \in Nat /\ LastIndex(l) \in Nat
    BY IndexRange
  <1>4. SnapshotFits(L, A, C, u, s, Base(l), l[1].term)
    <2>1. Decided(L, A, C, r, s) => Decided(L, A, C, u, s)
      <3>1. \A t \in DOMAIN L : t \in Nat
        BY LeaderLogType
      <3> QED
        BY <3>1, <1>2 DEF Decided
    <2> QED
      BY <2>1 DEF LogFits, SnapshotFits
  <1>5. CASE l2 = l
    <2>1. LogTail(l).term <= u
      BY <1>2, <1>3 DEF LogFits
    <2> QED
      BY <1>4, <1>5, <2>1 DEF LogFits
  <1>6. CASE Replaces(L, l, l2, u, n)
    <2> HIDE DEF u, l2
    <2>0. /\ n > Base(l) /\ Base(l2) = Base(l) /\ l2[1] = l[1] /\ LastIndex(l2) = n
          /\ Matches(L, l2, u, n) /\ LogTail(l2).term = L[u][n].term
      BY <1>6 DEF Replaces
    <2>1. n \in 1..Len(L[u])
      BY <1>2, <1>3, <2>0
    <2>2. PICK w : w = L[u][n].term
      OBVIOUS
    <2>3. w \in DOMAIN L /\ w <= u /\ Node(L, w, n) /\ Agree(L, u, w, n)
      BY <2>1, <2>2, <1>2, TreeNode
    <2>4. Matches(L, l2, w, n)
      <3>1. \A x \in (Base(l2) + 1)..n : x \in 1..n
        BY <1>3, <2>0
      <3> QED
        BY <3>1, <2>0, <2>3 DEF Matches, Agree
    <2>5. LogFits(L, A, C, u, l2, s)
      BY <2>0, <2>2, <2>3, <2>4, <1>4 DEF LogFits
    <2> QED
      BY <2>0, <2>5 DEF u, l2
  <1>7. l2 = l \/ Replaces(L, l, l2, u, n)
    BY <1>1, MergeFits
  <1> QED
    BY <1>5, <1>6, <1>7

(* The commit index AppendEntries leaves fits the merged log: nothing known  *)
(* to be committed is given up, and what is new was verified.                *)
LEMMA MergeCommit ==
    ASSUME NEW L, NEW A, NEW T, NEW C, HistoryType(L, A, T), LogTree(L), Complete(L, A, T),
           NEW m \in AppendReq, RequestFits(L, A, C, T, m), Follows(m.entries, m.prevIndex),
           NEW r \in Nat, r <= m.term, NEW l \in Log, Contiguous(l), NEW s \in Seq(Entry),
           LogFits(L, A, C, r, l, s), ~ PrevConflict(m, l),
           NEW c \in Nat, CommitFits(L, A, C, r, l, c)
    PROVE  LET c2 == FollowerCommit(m.leaderCommit, c, Merge(l, m.entries)) IN
           /\ c2 >= c /\ c2 \in Nat
           /\ CommitFits(L, A, C, m.term, Merge(l, m.entries), c2)
  <1> DEFINE u == m.term
             l2 == Merge(l, m.entries)
             lc == m.leaderCommit
             c2 == FollowerCommit(lc, c, l2)
  <1>1. PICK n \in Nat : n = m.prevIndex + Len(m.entries)
    BY LenProperties DEF AppendReq
  <1>2. u \in DOMAIN L /\ n <= Len(L[u]) /\ u \in Nat /\ Len(L[u]) \in Nat
        /\ lc \in Nat /\ lc <= n /\ (lc > 0 => SealedUpTo(L, A, C, u, lc))
    BY <1>1, LeaderLogType DEF RequestFits, AppendReq
  <1>3. Base(l) \in Nat /\ LastIndex(l) \in Nat /\ Base(l) <= c /\ c <= LastIndex(l)
    BY IndexRange DEF CommitFits
  <1>4. (l2 = l /\ Reaches(L, l, u, n)) \/ Replaces(L, l, l2, u, n)
    BY <1>1, MergeFits
  <1>5. /\ l2 \in Log /\ Base(l2) = Base(l) /\ LastIndex(l2) \in Nat
        /\ n > Base(l) => n <= LastIndex(l2) /\ Matches(L, l2, u, n)
    <2>1. l2 \in Log => LastIndex(l2) \in Nat
      BY LogFacts DEF LastIndex
    <2> QED
      BY <1>1, <1>4, <2>1 DEF Reaches, Replaces
  <1>6. l2 = l \/ (n > Base(l) /\ \A x \in Nat : x <= LastIndex(l) /\ Matches(L, l, u, x) => x <= n)
    BY <1>4 DEF Replaces
  <1> HIDE DEF u, l2, lc
  <1>7. ASSUME NEW t \in DOMAIN L, NEW y \in 1..Len(L[t]), Sealed(L, A, C, t, y), t <= u
        PROVE  Agree(L, u, t, y)
    <2>1. Choosable(L, A, T, t, y)
      BY <1>7, ChosenChoosable DEF Sealed
    <2> QED
      BY <2>1, <1>2, <1>7, ChoosableKept
  <1>8. CASE lc > c
    <2>1. n > Base(l) /\ c2 = lc
      <3>1. n > Base(l)
        BY <1>2, <1>3, <1>8
      <3>2. lc <= LastIndex(l2)
        BY <3>1, <1>1, <1>2, <1>5
      <3>3. ASSUME NEW p \in Nat, NEW q \in Nat, p <= q PROVE Min({p, q}) = p
        <4>0. {p, q} \in SUBSET Nat /\ {p, q} # {} /\ p \in {p, q}
          OBVIOUS
        <4>1. Min({p, q}) \in {p, q} /\ Min({p, q}) <= p
          BY <4>0, NatMin
        <4> QED
          BY <4>1, <3>3
      <3>4. Min({lc, LastIndex(l2)}) = lc
        BY <3>2, <3>3, <1>2, <1>5
      <3> QED
        BY <3>1, <3>4, <1>8 DEF FollowerCommit, LastIndex
    <2>2. PICK t \in DOMAIN L : \E y \in 1..Len(L[t]) : Sealed(L, A, C, t, y) /\ t <= u /\ lc <= y
      BY <1>2, <1>3, <1>8 DEF SealedUpTo
    <2>3. PICK y \in 1..Len(L[t]) : Sealed(L, A, C, t, y) /\ t <= u /\ lc <= y
      BY <2>2
    <2>4. Len(L[t]) \in Nat /\ lc <= Len(L[t])
      BY <2>3, <1>2, LeaderLogType
    <2>5. Agree(L, u, t, y)
      BY <2>3, <1>7
    <2>6. Matches(L, l2, t, lc)
      <3> SUFFICES ASSUME NEW x \in (Base(l2) + 1)..lc PROVE GetLogAtIndex(l2, x) = L[t][x]
        BY <2>4 DEF Matches
      <3>1. x \in (Base(l2) + 1)..n /\ x \in 1..y
        BY <2>3, <2>4, <1>2, <1>3, <1>5
      <3>2. GetLogAtIndex(l2, x) = L[u][x]
        BY <3>1, <2>1, <1>5 DEF Matches
      <3> QED
        BY <3>1, <3>2, <2>5 DEF Agree
    <2>7. Base(l2) <= lc /\ lc <= LastIndex(l2) /\ lc >= c
      BY <2>1, <1>1, <1>2, <1>3, <1>5, <1>8
    <2>8. CommitFits(L, A, C, u, l2, lc)
      BY <2>3, <2>6, <2>7 DEF CommitFits
    <2> QED
      BY <2>1, <2>7, <2>8, <1>2 DEF u, l2, lc
  <1>9. CASE ~ (lc > c)
    <2>1. c2 = c
      BY <1>9 DEF FollowerCommit
    <2>2. CASE c = 0
      <3>1. Base(l2) <= c /\ c <= LastIndex(l2)
        BY <2>2, <1>3, <1>5
      <3> QED
        BY <3>1, <2>1, <2>2 DEF CommitFits, u, l2, lc
    <2>3. CASE c > 0
      <3>1. PICK t \in DOMAIN L : \E y \in 1..Len(L[t]) :
              Sealed(L, A, C, t, y) /\ t <= r /\ c <= y /\ Matches(L, l, t, c)
        BY <2>3 DEF CommitFits
      <3>2. PICK y \in 1..Len(L[t]) :
              Sealed(L, A, C, t, y) /\ t <= r /\ c <= y /\ Matches(L, l, t, c)
        BY <3>1
      <3>3. Len(L[t]) \in Nat /\ t \in Nat /\ c <= Len(L[t])
        BY <3>2, LeaderLogType
      <3>4. t <= u
        BY <3>2, <3>3, <1>2 DEF u
      <3>5. Agree(L, u, t, y)
        BY <3>2, <3>4, <1>7
      <3>6. CASE l2 = l
        <4>1. CommitFits(L, A, C, u, l2, c)
          BY <3>2, <3>4, <3>6, <1>3 DEF CommitFits
        <4> QED
          BY <4>1, <2>1 DEF u, l2, lc
      <3>7. CASE n > Base(l) /\ \A x \in Nat : x <= LastIndex(l) /\ Matches(L, l, u, x) => x <= n
        <4>1. \A x \in (Base(l) + 1)..c : x \in 1..y
          BY <3>2, <3>3, <1>3
        <4>2. Matches(L, l, u, c)
          <5>1. c <= Len(L[u])
            BY <3>2, <3>3, <3>5, <1>2 DEF Agree
          <5> QED
            BY <5>1, <4>1, <3>2, <3>5 DEF Matches, Agree
        <4>3. c <= n
          BY <4>2, <3>7, <1>3
        <4>4. Matches(L, l2, t, c)
          <5> SUFFICES ASSUME NEW x \in (Base(l2) + 1)..c PROVE GetLogAtIndex(l2, x) = L[t][x]
            BY <3>3 DEF Matches
          <5>1. x \in (Base(l2) + 1)..n /\ x \in 1..y
            BY <4>1, <4>3, <1>3, <1>5
          <5>2. GetLogAtIndex(l2, x) = L[u][x]
            BY <5>1, <3>7, <1>5 DEF Matches
          <5> QED
            BY <5>1, <5>2, <3>5 DEF Agree
        <4>5. Base(l2) <= c /\ c <= LastIndex(l2)
          BY <4>3, <3>7, <1>1, <1>3, <1>5
        <4>6. CommitFits(L, A, C, u, l2, c)
          BY <4>4, <4>5, <3>2, <3>4 DEF CommitFits
        <4> QED
          BY <4>6, <2>1 DEF u, l2, lc
      <3> QED
        BY <3>6, <3>7, <1>6
    <2> QED
      BY <2>2, <2>3
  <1> QED
    BY <1>8, <1>9

-----------------------------------------------------------------------------
(* Steps of the histories.                                                   *)

(* Terms and records grow, and a server records nothing for a term it left.  *)
Quiet(A, C, T, A2, C2, T2) ==
    /\ A \subseteq A2 /\ C \subseteq C2
    /\ \A v \in Server : T[v] <= T2[v]
    /\ \A a \in A2 : a \in A \/ T[a.server] <= a.term

(* A node that can be chosen after such a step could be so before.           *)
LEMMA QuietChoosable ==
    ASSUME NEW L, NEW A, NEW T, NEW C, NEW A2, NEW T2, NEW C2,
           HistoryType(L, A, T), HistoryType(L, A2, T2), Quiet(A, C, T, A2, C2, T2),
           NEW t, NEW x, Choosable(L, A2, T2, t, x)
    PROVE  Choosable(L, A, T, t, x)
  <1> DEFINE R == Acks(A, t, x) \cup {v \in Server : T[v] <= t}
             S == Acks(A2, t, x) \cup {v \in Server : T2[v] <= t}
  <1>1. Node(L, t, x) /\ IsMajority(S)
    BY DEF Choosable
  <1>2. t \in Nat
    BY <1>1 DEF Node, HistoryType
  <1>3. ASSUME NEW v \in S PROVE v \in R
    <2>1. v \in Server /\ T[v] \in Nat /\ T2[v] \in Nat /\ T[v] <= T2[v]
      BY <1>3 DEF Acks, HistoryType, Quiet
    <2>2. CASE T2[v] <= t
      BY <2>1, <2>2, <1>2
    <2>3. CASE v \in Acks(A2, t, x)
      <3>1. PICK a \in A2 : a.server = v /\ a.term = t /\ a.index >= x
        BY <2>3 DEF Acks
      <3>2. a \in A \/ T[v] <= t
        BY <3>1 DEF Quiet
      <3> QED
        BY <3>1, <3>2, <2>1 DEF Acks
    <2> QED
      BY <2>2, <2>3, <1>3
  <1>4. S \in SUBSET Server /\ R \in SUBSET Server /\ S \subseteq R
    BY <1>3 DEF Acks
  <1>5. IsMajority(R)
    BY <1>1, <1>4, MajorityGrows
  <1> QED
    BY <1>1, <1>5 DEF Choosable

(* Such a step is a step of the histories and keeps later leaders complete.  *)
LEMMA QuietStep ==
    ASSUME NEW L, NEW A, NEW T, NEW C, NEW A2, NEW T2, NEW C2,
           HistoryType(L, A, T), HistoryType(L, A2, T2), Quiet(A, C, T, A2, C2, T2)
    PROVE  /\ HistoryStep(L, A, C, T, L, A2, C2, T2)
           /\ Complete(L, A, T) => Complete(L, A2, T2)
  <1>1. \A t, x : Choosable(L, A2, T2, t, x) => Choosable(L, A, T, t, x)
    BY QuietChoosable
  <1>2. Extends(L, L)
    <2>1. \A t \in DOMAIN L : Len(L[t]) \in Nat
      BY LeaderLogType
    <2> QED
      BY <2>1 DEF Extends
  <1>3. HistoryStep(L, A, C, T, L, A2, C2, T2)
    BY <1>1, <1>2 DEF HistoryStep, HistoryGrows, Quiet
  <1>4. Complete(L, A, T) => Complete(L, A2, T2)
    BY <1>1 DEF Complete
  <1> QED
    BY <1>3, <1>4

(* Every term won was reached by a majority.                                 *)
Reached(L, T) == \A u \in DOMAIN L : u > 0 => IsMajority({v \in Server : T[v] >= u})

(* The leader of t appends e to its log and stores it.                       *)
Appends(L, A, T, L2, A2, i, t, e) ==
    /\ i \in Server /\ t \in DOMAIN L /\ t > 0 /\ T[i] = t /\ e \in Entry
    /\ e.term = t /\ e.index = Len(L[t]) + 1
    /\ L2 = [L EXCEPT ![t] = Append(@, e)]
    /\ A2 = A \cup {[server |-> i, term |-> t, index |-> e.index]}
    /\ \A a \in A : a.term \in DOMAIN L /\ a.index \in 1..Len(L[a.term])

(* What that does to the leaders' logs.                                      *)
LEMMA AppendsLogs ==
    ASSUME NEW L, NEW A, NEW T, NEW L2, NEW A2, NEW i, NEW t, NEW e,
           HistoryType(L, A, T), Appends(L, A, T, L2, A2, i, t, e)
    PROVE  /\ HistoryType(L2, A2, T) /\ Extends(L, L2) /\ DOMAIN L2 = DOMAIN L
           /\ Len(L2[t]) = Len(L[t]) + 1 /\ L2[t][Len(L[t]) + 1] = e
           /\ \A u \in DOMAIN L : u # t => L2[u] = L[u]
           /\ \A k \in 1..Len(L[t]) : L2[t][k] = L[t][k]
  <1> USE DEF Appends
  <1>1. DOMAIN L2 = DOMAIN L /\ L2[t] = Append(L[t], e) /\ \A u \in DOMAIN L : u # t => L2[u] = L[u]
    OBVIOUS
  <1>2. L[t] \in Seq(Entry) /\ Len(L[t]) \in Nat /\ t \in Nat
    BY LeaderLogType
  <1>3. /\ L2[t] \in Seq(Entry) /\ Len(L2[t]) = Len(L[t]) + 1 /\ L2[t][Len(L[t]) + 1] = e
        /\ \A k \in 1..Len(L[t]) : L2[t][k] = L[t][k]
    BY <1>1, <1>2, AppendProperties
  <1>4. HistoryType(L2, A2, T)
    <2>1. \A u \in DOMAIN L2 : L2[u] \in Seq(Entry)
      BY <1>1, <1>3, LeaderLogType
    <2>2. L2 \in [DOMAIN L2 -> Seq(Entry)]
      BY <2>1
    <2>3. [server |-> i, term |-> t, index |-> e.index] \in [server : Server, term : Nat, index : Nat]
      BY <1>2 DEF Entry
    <2> QED
      BY <2>2, <2>3, <1>1 DEF HistoryType
  <1>5. Extends(L, L2)
    <2> SUFFICES ASSUME NEW u \in DOMAIN L
                 PROVE  Len(L[u]) <= Len(L2[u]) /\ \A k \in 1..Len(L[u]) : L2[u][k] = L[u][k]
      BY <1>1 DEF Extends
    <2>1. Len(L[u]) \in Nat
      BY LeaderLogType
    <2> QED
      BY <2>1, <1>1, <1>3
  <1> QED
    BY <1>1, <1>3, <1>4, <1>5

(* The leaders' logs stay a tree.                                            *)
LEMMA AppendsTree ==
    ASSUME NEW L, NEW A, NEW T, NEW L2, NEW A2, NEW i, NEW t, NEW e,
           HistoryType(L, A, T), LogTree(L), Appends(L, A, T, L2, A2, i, t, e)
    PROVE  LogTree(L2)
  <1>1. /\ Extends(L, L2) /\ DOMAIN L2 = DOMAIN L
        /\ Len(L2[t]) = Len(L[t]) + 1 /\ L2[t][Len(L[t]) + 1] = e
        /\ \A u \in DOMAIN L : u # t => L2[u] = L[u]
        /\ \A k \in 1..Len(L[t]) : L2[t][k] = L[t][k]
    BY AppendsLogs
  <1>2. t \in DOMAIN L /\ t \in Nat /\ t > 0 /\ e.term = t /\ e.index = Len(L[t]) + 1 /\ Len(L[t]) \in Nat
    BY LeaderLogType DEF Appends
  <1>3. 0 \in DOMAIN L2 /\ L2[0] = << >>
    BY <1>1, <1>2 DEF LogTree
  <1>4. ASSUME NEW s \in DOMAIN L, NEW k \in 1..Len(L[s])
        PROVE  /\ L2[s][k] = L[s][k] /\ L[s][k].index = k
               /\ L[s][k].term \in DOMAIN L /\ L[s][k].term <= s /\ Agree(L2, s, L[s][k].term, k)
               /\ \A j \in 1..k : L2[s][j].term <= L[s][k].term
    <2>1. PICK u : u = L[s][k].term
      OBVIOUS
    <2>2. /\ L[s][k].index = k /\ u \in DOMAIN L /\ u <= s /\ Agree(L, s, u, k)
          /\ \A j \in 1..k : L[s][j].term <= u
      BY <2>1 DEF LogTree
    <2>3. k <= Len(L[s]) /\ k <= Len(L[u]) /\ \A j \in 1..k : L[s][j] = L[u][j]
      BY <2>2 DEF Agree
    <2>4. Len(L[s]) \in Nat /\ Len(L[u]) \in Nat /\ Len(L[s]) <= Len(L2[s]) /\ Len(L[u]) <= Len(L2[u])
          /\ Len(L2[s]) \in Nat /\ Len(L2[u]) \in Nat
      <3>1. HistoryType(L2, A2, T)
        BY AppendsLogs
      <3> QED
        BY <3>1, <2>2, <1>1, LeaderLogType DEF Extends
    <2>5. \A j \in 1..k : L2[s][j] = L[s][j] /\ L2[u][j] = L[u][j]
      <3>1. \A j \in 1..k : j \in 1..Len(L[s]) /\ j \in 1..Len(L[u])
        BY <2>3, <2>4
      <3> QED
        BY <3>1, <2>2, <1>1 DEF Extends
    <2>6. Agree(L2, s, u, k)
      BY <2>3, <2>4, <2>5 DEF Agree
    <2>7. L2[s][k] = L[s][k]
      BY <1>1 DEF Extends
    <2> QED
      BY <2>1, <2>2, <2>5, <2>6, <2>7
  <1>5. ASSUME NEW s \in DOMAIN L2, NEW k \in 1..Len(L2[s])
        PROVE  /\ L2[s][k].index = k
               /\ L2[s][k].term \in DOMAIN L2 /\ L2[s][k].term <= s /\ Agree(L2, s, L2[s][k].term, k)
               /\ \A j \in 1..k : L2[s][j].term <= L2[s][k].term
    <2>1. CASE k \in 1..Len(L[s])
      BY <2>1, <1>1, <1>4
    <2>2. CASE k \notin 1..Len(L[s])
      <3>1. s = t /\ k = Len(L[t]) + 1
        BY <2>2, <1>1, <1>2
      <3>2. L2[s][k] = e /\ k \in Nat /\ k = Len(L2[t])
        BY <3>1, <1>1, <1>2
      <3>3. Agree(L2, t, t, k)
        BY <3>2, <1>1, <1>2 DEF Agree
      <3>4. ASSUME NEW j \in 1..k PROVE L2[t][j].term <= t
        <4>1. CASE j \in 1..Len(L[t])
          BY <4>1, <1>1, <1>2 DEF LogTree
        <4>2. CASE j = k
          BY <4>2, <3>1, <3>2, <1>2
        <4> QED
          BY <4>1, <4>2, <3>1, <1>2
      <3> QED
        BY <3>1, <3>2, <3>3, <3>4, <1>1, <1>2
    <2> QED
      BY <2>1, <2>2
  <1> QED
    BY <1>3, <1>5 DEF LogTree

(* The new node can be chosen only if no later term was won, so later        *)
(* leaders stay complete.                                                    *)
LEMMA AppendsStep ==
    ASSUME NEW L, NEW A, NEW T, NEW C, NEW L2, NEW A2, NEW i, NEW t, NEW e,
           HistoryType(L, A, T), LogTree(L), Complete(L, A, T), Reached(L, T),
           Appends(L, A, T, L2, A2, i, t, e)
    PROVE  HistoryStep(L, A, C, T, L2, A2, C, T) /\ Complete(L2, A2, T)
  <1>1. /\ HistoryType(L2, A2, T) /\ Extends(L, L2) /\ DOMAIN L2 = DOMAIN L
        /\ Len(L2[t]) = Len(L[t]) + 1 /\ L2[t][Len(L[t]) + 1] = e
        /\ \A u \in DOMAIN L : u # t => L2[u] = L[u]
        /\ \A k \in 1..Len(L[t]) : L2[t][k] = L[t][k]
    BY AppendsLogs
  <1>2. /\ t \in DOMAIN L /\ t \in Nat /\ t > 0 /\ e.term = t /\ Len(L[t]) \in Nat
        /\ T[i] = t /\ i \in Server
        /\ A2 = A \cup {[server |-> i, term |-> t, index |-> Len(L[t]) + 1]}
        /\ \A a \in A : a.term \in DOMAIN L /\ a.index \in 1..Len(L[a.term])
    BY LeaderLogType DEF Appends
  <1>3. Quiet(A, C, T, A2, C, T)
    BY <1>2 DEF Quiet, HistoryType
  <1>4. HistoryType(L, A2, T)
    BY <1>1 DEF HistoryType
  <1>5. ASSUME NEW s, NEW x, Choosable(L2, A2, T, s, x)
        PROVE  Choosable(L, A, T, s, x) \/ (~ Node(L, s, x) /\ \A u \in DOMAIN L2 : u <= s)
    <2>1. CASE Node(L, s, x)
      <3>1. Choosable(L, A2, T, s, x)
        BY <2>1, <1>5 DEF Choosable
      <3> QED
        BY <3>1, <1>3, <1>4, QuietChoosable
    <2>2. CASE ~ Node(L, s, x)
      <3>1. s \in DOMAIN L /\ x \in 1..Len(L2[s]) /\ L2[s][x].term = s
        BY <1>1, <1>5 DEF Choosable, Node
      <3>2. s = t
        BY <3>1, <2>2, <1>1 DEF Node
      <3>3. x = Len(L[t]) + 1
        BY <3>1, <3>2, <2>2, <1>1, <1>2 DEF Node
      <3>4. ASSUME NEW u \in DOMAIN L, ~ (u <= t) PROVE FALSE
        <4> DEFINE Q == {v \in Server : T[v] >= u}
                   S == Acks(A2, t, x) \cup {v \in Server : T[v] <= t}
        <4>1. u \in Nat /\ u > t
          BY <3>4, <1>2, LeaderLogType
        <4>2. IsMajority(Q) /\ IsMajority(S) /\ Q \in SUBSET Server /\ S \in SUBSET Server
          BY <4>1, <3>2, <1>2, <1>5 DEF Reached, Choosable, Acks
        <4>3. PICK v \in Server : v \in Q /\ v \in S
          BY <4>2, MajoritiesShare
        <4>4. T[v] \in Nat /\ T[v] > t
          BY <4>1, <4>3, <1>2 DEF HistoryType
        <4>5. PICK a \in A2 : a.server = v /\ a.term = t /\ a.index >= x
          BY <4>3, <4>4, <1>2 DEF Acks
        <4>6. a \in A
          BY <4>4, <4>5, <1>2
        <4>7. a.index \in 1..Len(L[t])
          BY <4>5, <4>6, <1>2
        <4> QED
          BY <4>5, <4>7, <3>3, <1>2
      <3> QED
        BY <3>2, <3>4, <2>2, <1>1
    <2> QED
      BY <2>1, <2>2
  <1>6. HistoryStep(L, A, C, T, L2, A2, C, T)
    <2>1. \A v \in Server : T[v] <= T[v]
      BY DEF HistoryType
    <2> QED
      BY <2>1, <1>1, <1>2, <1>5 DEF HistoryStep, HistoryGrows
  <1>7. ASSUME NEW s \in DOMAIN L2, NEW u \in DOMAIN L2, NEW x \in 1..Len(L2[s]),
               Choosable(L2, A2, T, s, x), s < u
        PROVE  x <= Len(L2[u]) /\ L2[u][x].term = s
    <2>1. s \in Nat /\ u \in Nat /\ Len(L2[u]) \in Nat /\ Len(L[u]) \in Nat /\ Len(L[u]) <= Len(L2[u])
      BY <1>1, LeaderLogType DEF Extends
    <2>2. Choosable(L, A, T, s, x)
      BY <2>1, <1>5, <1>7
    <2>3. x \in 1..Len(L[u]) /\ L[u][x].term = s
      BY <2>1, <2>2, <1>1, <1>7, ChoosableKept
    <2> QED
      BY <2>1, <2>3, <1>1 DEF Extends
  <1> QED
    BY <1>6, <1>7 DEF Complete

(* F, the whole log of the winner of term R, begins an earlier leader's log  *)
(* and has every node that can still be chosen.                              *)
Inherits(L, A, T, F, R) ==
    /\ F \in Seq(Entry)
    /\ \E w \in DOMAIN L : w < R /\ Begins(F, L[w])
    /\ \A t, x : Choosable(L, A, T, t, x) /\ t < R => x \in 1..Len(F) /\ F[x].term = t

(* The log of a candidate that covers every node that can still be chosen is *)
(* one run of entries, its snapshot included: what follows the snapshot      *)
(* continues it.                                                             *)
LEMMA WinnerLog ==
    ASSUME NEW L, NEW A, NEW T, NEW C, HistoryType(L, A, T), LogTree(L), Complete(L, A, T),
           NEW R \in Nat, R \notin DOMAIN L, NEW l \in Log, Contiguous(l), NEW s \in Seq(Entry),
           LogFits(L, A, C, R, l, s),
           \A t, x : Choosable(L, A, T, t, x) /\ t < R => LogCovers(l, t, x)
    PROVE  Inherits(L, A, T, s \o SubSeq(l, 2, Len(l)), R)
  <1> DEFINE F == s \o SubSeq(l, 2, Len(l))
  <1>1. PICK b \in Nat, n \in Nat, w \in Nat :
          b = Base(l) /\ n = LastIndex(l) /\ w = LogTail(l).term /\ b <= n
    BY IndexRange
  <1>2. Len(s) = b /\ Decided(L, A, C, R, s) /\ w <= R
    BY <1>1 DEF LogFits, SnapshotFits
  <1>3. EndsIn(L, w, n)
    BY <1>1, LogEnds
  <1>4. /\ F \in Seq(Entry) /\ Len(F) = n
        /\ \A k \in 1..b : F[k] = s[k]
        /\ \A k \in (b + 1)..n : F[k] = GetLogAtIndex(l, k)
    <2>1. /\ F \in Seq(Entry) /\ Len(F) = LastIndex(l)
          /\ \A k \in 1..Base(l) : F[k] = s[k]
          /\ \A k \in (Base(l) + 1)..LastIndex(l) : F[k] = GetLogAtIndex(l, k)
      BY <1>1, <1>2, SpliceFacts
    <2> HIDE DEF F
    <2> QED
      BY <2>1, <1>1
  <1> HIDE DEF F
  <1>5. w \in DOMAIN L /\ w < R
    <2>1. w \in DOMAIN L
      BY <1>3 DEF EndsIn, Node, LogTree
    <2> QED
      BY <2>1, <1>1, <1>2
  <1>6. Len(L[w]) \in Nat /\ n <= Len(L[w])
    BY <1>1, <1>3, <1>5, LeaderLogType DEF EndsIn, Node
  <1>7. ASSUME NEW k \in 1..b PROVE F[k] = L[w][k]
    <2>1. b > 0
      BY <1>1
    <2>2. PICK t \in DOMAIN L : \E y \in 1..Len(L[t]) :
            Sealed(L, A, C, t, y) /\ t <= R /\ Len(s) <= y /\ \A j \in 1..Len(s) : s[j] = L[t][j]
      BY <2>1, <1>2 DEF Decided
    <2>3. PICK y \in 1..Len(L[t]) :
            Sealed(L, A, C, t, y) /\ t <= R /\ Len(s) <= y /\ \A j \in 1..Len(s) : s[j] = L[t][j]
      BY <2>2
    <2>4. t \in Nat /\ Len(L[t]) \in Nat /\ t < R
      BY <2>3, LeaderLogType
    <2>5. Choosable(L, A, T, t, y)
      BY <2>3, ChosenChoosable DEF Sealed
    <2>6. Covers(w, n, t, y)
      BY <2>4, <2>5, <1>1 DEF LogCovers
    <2>7. t <= w
      BY <2>4, <2>6, <1>1 DEF Covers
    <2>8. Agree(L, w, t, y)
      BY <2>5, <2>7, <1>5, ChoosableKept
    <2>9. k \in 1..y /\ k \in 1..Len(s)
      BY <2>3, <2>4, <1>1, <1>2
    <2> QED
      BY <2>3, <2>8, <2>9, <1>4 DEF Agree
  <1>8. ASSUME NEW k \in (b + 1)..n PROVE F[k] = L[w][k]
    <2>1. n > b
      BY <1>1
    <2>2. Matches(L, l, w, n)
      BY <2>1, <1>1 DEF LogFits
    <2> QED
      BY <2>2, <1>1, <1>4 DEF Matches
  <1>9. Begins(F, L[w])
    <2>1. \A k \in 1..n : k \in 1..b \/ k \in (b + 1)..n
      BY <1>1
    <2> QED
      BY <2>1, <1>4, <1>6, <1>7, <1>8 DEF Begins
  <1>10. ASSUME NEW t, NEW x, Choosable(L, A, T, t, x), t < R
         PROVE  x \in 1..Len(F) /\ F[x].term = t
    <2>1. Covers(w, n, t, x)
      BY <1>1, <1>10 DEF LogCovers
    <2>2. x <= n /\ L[w][x] = L[t][x] /\ x \in 1..Len(L[w])
      BY <2>1, <1>3, <1>10, CoversLonger
    <2>3. x \in 1..n /\ L[t][x].term = t
      BY <2>2, <1>1, <1>6, <1>10 DEF Choosable, Node
    <2> QED
      BY <2>2, <2>3, <1>4, <1>9 DEF Begins
  <1>11. Inherits(L, A, T, F, R)
    BY <1>4, <1>5, <1>9, <1>10 DEF Inherits
  <1> QED
    BY <1>11 DEF F

(* The log of the winner of a new term joins the tree as a copy of a branch: *)
(* it adds no node.                                                          *)
Wins(L, L2, R, F) ==
    R \notin DOMAIN L /\ L2 = [t \in DOMAIN L \cup {R} |-> IF t = R THEN F ELSE L[t]]

(* The leaders' logs stay a tree.                                            *)
LEMMA WinsTree ==
    ASSUME NEW L, NEW A, NEW T, NEW L2, NEW R \in Nat, NEW F,
           HistoryType(L, A, T), LogTree(L), Inherits(L, A, T, F, R), Wins(L, L2, R, F)
    PROVE  /\ LogTree(L2) /\ HistoryType(L2, A, T) /\ Extends(L, L2)
           /\ \A x : ~ Node(L2, R, x)
           /\ \A t, x : Node(L2, t, x) => Node(L, t, x)
  <1>1. DOMAIN L2 = DOMAIN L \cup {R} /\ L2[R] = F /\ \A t \in DOMAIN L : L2[t] = L[t] /\ t # R
    BY DEF Wins
  <1>2. PICK w \in DOMAIN L : w < R /\ Begins(F, L[w])
    BY DEF Inherits
  <1>3. /\ F \in Seq(Entry) /\ Len(F) \in Nat /\ w \in Nat /\ Len(L[w]) \in Nat
        /\ Len(F) <= Len(L[w]) /\ \A k \in 1..Len(F) : F[k] = L[w][k]
    BY <1>2, LeaderLogType, LenProperties DEF Inherits, Begins
  <1>4. HistoryType(L2, A, T)
    <2>1. \A t \in DOMAIN L2 : L2[t] \in Seq(Entry)
      BY <1>1, <1>3, LeaderLogType
    <2>2. L2 \in [DOMAIN L2 -> Seq(Entry)]
      BY <2>1 DEF Wins
    <2> QED
      BY <2>2, <1>1 DEF HistoryType
  <1>5. Extends(L, L2)
    <2>1. \A t \in DOMAIN L : Len(L[t]) \in Nat
      BY LeaderLogType
    <2> QED
      BY <2>1, <1>1 DEF Extends
  <1>6. ASSUME NEW k \in 1..Len(F)
        PROVE  /\ F[k].index = k /\ F[k].term \in DOMAIN L /\ F[k].term <= R /\ F[k].term # R
               /\ Agree(L2, R, F[k].term, k) /\ \A j \in 1..k : F[j].term <= F[k].term
    <2>1. k \in 1..Len(L[w]) /\ F[k] = L[w][k]
      BY <1>3
    <2>2. PICK u : u = L[w][k].term
      OBVIOUS
    <2>3. /\ L[w][k].index = k /\ u \in DOMAIN L /\ u <= w /\ Agree(L, w, u, k)
          /\ \A j \in 1..k : L[w][j].term <= u
      BY <2>1, <2>2 DEF LogTree
    <2>4. u \in Nat /\ u < R
      BY <2>3, <1>2, <1>3, LeaderLogType
    <2>5. \A j \in 1..k : j \in 1..Len(F)
      BY <1>3
    <2>6. k <= Len(L[u]) /\ \A j \in 1..k : F[j] = L[u][j]
      BY <2>3, <2>5, <1>3 DEF Agree
    <2>7. Agree(L2, R, u, k)
      BY <2>3, <2>6, <1>1, <1>3 DEF Agree
    <2> QED
      BY <2>1, <2>2, <2>3, <2>4, <2>5, <2>7, <1>3
  <1>7. ASSUME NEW s \in DOMAIN L2, NEW k \in 1..Len(L2[s])
        PROVE  /\ L2[s][k].index = k
               /\ L2[s][k].term \in DOMAIN L2 /\ L2[s][k].term <= s /\ Agree(L2, s, L2[s][k].term, k)
               /\ \A j \in 1..k : L2[s][j].term <= L2[s][k].term
    <2>1. CASE s = R
      BY <2>1, <1>1, <1>6
    <2>2. CASE s \in DOMAIN L
      <3>1. L2[s] = L[s]
        BY <2>2, <1>1
      <3>2. PICK u : u = L[s][k].term
        OBVIOUS
      <3>3. /\ L[s][k].index = k /\ u \in DOMAIN L /\ u <= s /\ Agree(L, s, u, k)
            /\ \A j \in 1..k : L[s][j].term <= u
        BY <3>1, <3>2, <2>2 DEF LogTree
      <3>4. Agree(L2, s, u, k)
        BY <3>1, <3>3, <1>1 DEF Agree
      <3> QED
        BY <3>1, <3>2, <3>3, <3>4, <1>1
    <2> QED
      BY <2>1, <2>2, <1>1
  <1>8. LogTree(L2)
    BY <1>1, <1>7 DEF LogTree
  <1>9. \A x : ~ Node(L2, R, x)
    BY <1>1, <1>6 DEF Node
  <1>10. \A t, x : Node(L2, t, x) => Node(L, t, x)
    BY <1>1, <1>9 DEF Node
  <1> QED
    BY <1>4, <1>5, <1>8, <1>9, <1>10

(* Later leaders stay complete: the winner has what can be chosen.           *)
LEMMA WinsStep ==
    ASSUME NEW L, NEW A, NEW T, NEW C, NEW L2, NEW R \in Nat, NEW F,
           HistoryType(L, A, T), LogTree(L), Complete(L, A, T),
           Inherits(L, A, T, F, R), Wins(L, L2, R, F)
    PROVE  HistoryStep(L, A, C, T, L2, A, C, T) /\ Complete(L2, A, T)
  <1>1. /\ HistoryType(L2, A, T) /\ Extends(L, L2)
        /\ \A x : ~ Node(L2, R, x)
        /\ \A t, x : Node(L2, t, x) => Node(L, t, x)
    BY WinsTree
  <1>2. DOMAIN L2 = DOMAIN L \cup {R} /\ L2[R] = F /\ \A t \in DOMAIN L : L2[t] = L[t] /\ t # R
    BY DEF Wins
  <1>3. ASSUME NEW t, NEW x, Choosable(L2, A, T, t, x) PROVE Choosable(L, A, T, t, x)
    BY <1>1, <1>3 DEF Choosable
  <1>4. HistoryStep(L, A, C, T, L2, A, C, T)
    <2>1. \A v \in Server : T[v] <= T[v]
      BY DEF HistoryType
    <2> QED
      BY <2>1, <1>1, <1>3 DEF HistoryStep, HistoryGrows
  <1>5. ASSUME NEW s \in DOMAIN L2, NEW u \in DOMAIN L2, NEW x \in 1..Len(L2[s]),
               Choosable(L2, A, T, s, x), s < u
        PROVE  x <= Len(L2[u]) /\ L2[u][x].term = s
    <2>1. Choosable(L, A, T, s, x)
      BY <1>3, <1>5
    <2>2. s \in DOMAIN L
      BY <2>1 DEF Choosable, Node
    <2>3. CASE u = R
      <3>1. x \in 1..Len(F) /\ F[x].term = s
        BY <2>1, <2>3, <1>5 DEF Inherits
      <3>2. Len(F) \in Nat
        BY LenProperties DEF Inherits
      <3> QED
        BY <3>1, <3>2, <2>3, <1>2
    <2>4. CASE u # R
      <3>1. u \in DOMAIN L /\ x \in 1..Len(L[s])
        BY <2>2, <2>4, <1>2, <1>5
      <3>2. x <= Len(L[u]) /\ L[u][x].term = s
        BY <3>1, <2>1, <2>2, <1>5 DEF Complete
      <3> QED
        BY <3>1, <3>2, <1>2
    <2> QED
      BY <2>3, <2>4
  <1> QED
    BY <1>4, <1>5 DEF Complete

-----------------------------------------------------------------------------
(* What the steps of one server do to what is known of its log.              *)

(* A log that is that of a leader up to an entry at n of term w covers every *)
(* node of that log up to n.                                                 *)
LEMMA MatchCovers ==
    ASSUME NEW L, NEW A, NEW T, HistoryType(L, A, T), LogTree(L),
           NEW u \in DOMAIN L, NEW n \in 1..Len(L[u]), NEW x \in 1..n
    PROVE  Covers(L[u][n].term, n, L[u][x].term, x)
  <1>1. Len(L[u]) \in Nat /\ x \in 1..Len(L[u]) /\ x \in Nat /\ n \in Nat /\ x <= n
    BY LeaderLogType
  <1>2. PICK p \in Nat, q \in Nat : p = L[u][n].term /\ q = L[u][x].term
    BY <1>1, LeaderLogType
  <1>3. q <= p
    BY <1>2, TermsAscend
  <1>4. Covers(p, n, q, x)
    BY <1>1, <1>3 DEF Covers
  <1> QED
    BY <1>2, <1>4

(* Server v with log l records nothing, or the entries of leader u up to n.  *)
Stores(A, A2, v, l, u, n) ==
    \A a \in A2 : a.server = v => a \in A \/ (a.term = u /\ a.index = n /\ n > Base(l))

(* AppendEntries gives up nothing its server stored in its term, and nothing *)
(* that can still be chosen.                                                 *)
LEMMA MergeAcks ==
    ASSUME NEW L, NEW A, NEW T, NEW C, NEW A2, NEW T2,
           HistoryStep(L, A, C, T, L, A2, C, T2), LogTree(L), Complete(L, A, T),
           NEW m \in AppendReq, RequestFits(L, A, C, T, m), Follows(m.entries, m.prevIndex),
           NEW v \in Server, T[v] <= m.term, T2[v] = m.term,
           NEW l \in Log, Contiguous(l), NEW s \in Seq(Entry),
           LogFits(L, A, C, T[v], l, s), ~ PrevConflict(m, l), AckFits(L, A, T, v, l),
           NEW n \in Nat, n = m.prevIndex + Len(m.entries),
           Stores(A, A2, v, l, m.term, n)
    PROVE  AckFits(L, A2, T2, v, Merge(l, m.entries))
  <1> DEFINE l2 == Merge(l, m.entries)
  <1>0. HistoryType(L, A, T) /\ HistoryType(L, A2, T2)
    BY DEF HistoryStep
  <1>1. PICK u \in Nat, b \in Nat, c \in Nat, r \in Nat :
          u = m.term /\ b = Base(l) /\ c = LastIndex(l) /\ r = T[v] /\ b <= c
    BY <1>0, IndexRange DEF AppendReq, HistoryType
  <1>2. u \in DOMAIN L /\ n <= Len(L[u]) /\ Len(L[u]) \in Nat /\ r <= u /\ T2[v] = u
    BY <1>0, <1>1, LeaderLogType DEF RequestFits
  <1>3. (l2 = l /\ Reaches(L, l, u, n)) \/ Replaces(L, l, l2, u, n)
    BY <1>0, <1>1, MergeFits
  <1>4. /\ l2 \in Log /\ Base(l2) = b
        /\ n > b => n <= LastIndex(l2) /\ Matches(L, l2, u, n)
        /\ LastIndex(l2) \in Nat
    <2>1. l2 \in Log => LastIndex(l2) \in Nat
      BY LogFacts DEF LastIndex
    <2> QED
      BY <2>1, <1>1, <1>3 DEF Reaches, Replaces
  <1>5. l2 = l \/ (/\ n > b /\ LastIndex(l2) = n /\ LogTail(l2).term = L[u][n].term
                   /\ \A x \in Nat : x <= c /\ Matches(L, l, u, x) => x <= n)
    BY <1>1, <1>3 DEF Replaces
  <1>6. \A a \in A2 : a.server = v => a \in A \/ (a.term = u /\ a.index = n /\ n > b)
    BY <1>1 DEF Stores
  <1> HIDE DEF l2
  <1>7. ASSUME NEW a \in A, a.server = v
        PROVE  /\ a.term \in Nat /\ a.term <= r /\ a.term \in DOMAIN L /\ a.index \in Nat
               /\ a.index \in 1..Len(L[a.term])
               /\ a.term = u => \/ a.index <= b
                                \/ a.index <= LastIndex(l2) /\ Matches(L, l2, u, a.index)
               /\ a.term = u /\ l2 # l => a.index <= n
    <2>1. a.term \in Nat /\ a.index \in Nat
      BY <1>0 DEF HistoryType
    <2>2. /\ a.term <= r /\ a.term \in DOMAIN L /\ a.index \in 1..Len(L[a.term])
          /\ a.term = r => a.index <= b \/ (a.index <= c /\ Matches(L, l, a.term, a.index))
      BY <1>1, <1>7 DEF AckFits
    <2>3. a.term = u => a.term = r
      BY <2>1, <2>2, <1>1, <1>2
    <2>4. CASE a.term # u \/ a.index <= b
      <3>1. l2 # l => n > b
        BY <1>5
      <3> QED
        BY <3>1, <2>1, <2>2, <2>4, <1>1
    <2>5. CASE a.term = u /\ a.index <= c /\ Matches(L, l, u, a.index)
      <3>1. CASE l2 = l
        BY <3>1, <2>1, <2>2, <2>5, <1>1
      <3>2. CASE l2 # l
        <4>1. a.index <= n /\ n > b /\ LastIndex(l2) = n
          BY <3>2, <2>1, <2>5, <1>5
        <4>2. Matches(L, l2, u, a.index)
          <5>1. \A x \in (b + 1)..(a.index) : x \in (b + 1)..n
            BY <4>1, <2>1, <1>1
          <5>2. a.index <= Len(L[u])
            BY <4>1, <2>1, <1>2
          <5> QED
            BY <5>1, <5>2, <4>1, <1>4 DEF Matches
        <4> QED
          BY <4>1, <4>2, <2>1, <2>2
      <3> QED
        BY <3>1, <3>2
    <2> QED
      BY <2>2, <2>3, <2>4, <2>5
  <1>8. ASSUME NEW a \in A2, a.server = v
        PROVE  /\ a.term <= u /\ a.term \in DOMAIN L /\ a.index \in 1..Len(L[a.term])
               /\ a.term = u => \/ a.index <= b
                                \/ a.index <= LastIndex(l2) /\ Matches(L, l2, u, a.index)
               /\ a.term = u /\ l2 # l => a.index <= n
               /\ a \in A \/ (a.term = u /\ a.index = n /\ n > b)
    <2>1. CASE a \in A
      BY <2>1, <1>1, <1>2, <1>7, <1>8
    <2>2. CASE a.term = u /\ a.index = n /\ n > b
      <3>1. n \in 1..Len(L[u])
        BY <2>2, <1>1, <1>2
      <3> QED
        BY <3>1, <2>2, <1>1, <1>2, <1>4
    <2> QED
      BY <2>1, <2>2, <1>6, <1>8
  <1>9. ASSUME NEW t \in DOMAIN L, NEW x \in 1..Len(L[t]),
               v \in Acks(A2, t, x), Choosable(L, A2, T2, t, x)
        PROVE  LogCovers(l2, t, x)
    <2>1. Choosable(L, A, T, t, x) /\ L[t][x].term = t
      BY <1>9, StepChoosable DEF Choosable, Node
    <2>2. PICK a \in A2 : a.server = v /\ a.term = t /\ a.index >= x
      BY <1>9 DEF Acks
    <2>3. t \in Nat /\ Len(L[t]) \in Nat /\ x \in Nat /\ t <= u /\ a.index \in Nat
      BY <2>2, <1>0, <1>8, LeaderLogType, SMTT(20) DEF HistoryType
    <2>4. L[u][x].term = t /\ x \in 1..Len(L[u])
      BY <2>1, <2>3, <1>0, <1>2, ChoosableKept
    <2>5. CASE l2 = l
      <3>1. CASE a \in A
        <4>1. v \in Acks(A, t, x)
          BY <3>1, <2>2 DEF Acks
        <4> QED
          BY <4>1, <2>1, <2>5 DEF AckFits
      <3>2. CASE a.term = u /\ a.index = n /\ n > b
        <4>1. n <= c /\ Matches(L, l, u, n) /\ c > b
          BY <3>2, <2>5, <1>1, <1>4
        <4>2. PICK w \in Nat : w = LogTail(l).term
          BY IndexRange
        <4>3. Node(L, w, c) /\ Matches(L, l, w, c)
          BY <4>1, <4>2, <1>1 DEF LogFits
        <4>4. w \in DOMAIN L /\ c \in 1..Len(L[w]) /\ L[w][c].term = w /\ Len(L[w]) \in Nat
          BY <4>3, <1>0, LeaderLogType DEF Node
        <4>5. n \in (b + 1)..c /\ n \in (b + 1)..n /\ n \in 1..Len(L[u]) /\ n \in 1..c
          BY <4>1, <3>2, <1>1, <1>2
        <4>6. L[w][n] = L[u][n]
          BY <4>1, <4>3, <4>5, <1>1 DEF Matches
        <4>7. PICK q \in Nat : q = L[u][n].term
          BY <4>5, <1>0, <1>2, LeaderLogType
        <4>8. q <= w
          BY <4>4, <4>5, <4>6, <4>7, TermsAscend
        <4>9. x \in 1..n
          BY <3>2, <2>2, <2>3
        <4>10. u <= q
          BY <4>5, <4>7, <4>9, <3>2, <2>2, <2>4, <1>2, TermsAscend
        <4>11. w >= t /\ c >= x
          BY <4>5, <4>8, <4>9, <4>10, <3>2, <2>2, <1>1
        <4>12. Covers(w, c, t, x)
          BY <4>11, <2>3 DEF Covers
        <4> QED
          BY <4>2, <4>12, <2>5, <1>1 DEF LogCovers
      <3> QED
        BY <3>1, <3>2, <2>2, <1>8
    <2>6. CASE l2 # l
      <3>1. x <= n
        <4>1. CASE t = u
          <5>1. a.index <= n
            BY <4>1, <2>2, <2>6, <1>8
          <5> QED
            BY <5>1, <2>2, <2>3
        <4>2. CASE t < u
          BY <4>2, <2>1, <1>1 DEF RequestFits
        <4> QED
          BY <4>1, <4>2, <2>3, <1>1
      <3>2. n \in 1..Len(L[u]) /\ x \in 1..n
        BY <3>1, <2>3, <1>2
      <3>3. Covers(L[u][n].term, n, t, x)
        BY <3>2, <2>4, <1>0, <1>2, MatchCovers
      <3> QED
        BY <3>3, <2>6, <1>5 DEF LogCovers
    <2> QED
      BY <2>5, <2>6
  <1>10. AckFits(L, A2, T2, v, l2)
    BY <1>2, <1>4, <1>8, <1>9 DEF AckFits
  <1> QED
    BY <1>10 DEF l2

(* Log l2 is what is left of l when a snapshot of term t replaces it up to x:*)
(* the same tail, or nothing.                                                *)
Shortened(l, l2, x, t) ==
    /\ l2 \in Log /\ Contiguous(l2) /\ Cut(l, l2) /\ Base(l2) = x /\ l2[1].term = t
    /\ \/ LastIndex(l2) = LastIndex(l) /\ LogTail(l2).term = LogTail(l).term
       \/ LastIndex(l2) = x /\ LogTail(l2).term = t /\ x >= LastIndex(l)

(* As far as nodes that can still be chosen go, l2 is as up-to-date as l.    *)
CoversKept(L, A, T, l, l2) ==
    \A t, x : Choosable(L, A, T, t, x) /\ LogCovers(l, t, x) => LogCovers(l2, t, x)

(* A snapshot of what is decided replaces no entry that is newer.            *)
LEMMA ShortenedCovers ==
    ASSUME NEW L, NEW A, NEW T, NEW C, HistoryType(L, A, T), LogTree(L), Complete(L, A, T),
           NEW r \in Nat, NEW l \in Log, Contiguous(l), NEW s \in Seq(Entry), LogFits(L, A, C, r, l, s),
           NEW s2 \in Seq(Entry), NEW x \in Nat, NEW w \in Nat, SnapshotFits(L, A, C, r, s2, x, w),
           NEW l2, Shortened(l, l2, x, w)
    PROVE  CoversKept(L, A, T, l, l2)
  <1> SUFFICES ASSUME NEW t, NEW y, Choosable(L, A, T, t, y), LogCovers(l, t, y)
               PROVE  LogCovers(l2, t, y)
    BY DEF CoversKept
  <1>1. CASE LastIndex(l2) = LastIndex(l) /\ LogTail(l2).term = LogTail(l).term
    BY <1>1 DEF LogCovers
  <1>2. CASE LastIndex(l2) = x /\ LogTail(l2).term = w /\ x >= LastIndex(l)
    <2>1. EndsIn(L, LogTail(l).term, LastIndex(l)) /\ LastIndex(l) \in Nat
      BY LogEnds, IndexRange
    <2>2. y <= LastIndex(l)
      BY <2>1, CoversLonger DEF LogCovers
    <2>3. t \in Nat /\ y \in Nat /\ y > 0
      BY LeaderLogType DEF Choosable, Node
    <2>4. y <= x
      BY <2>1, <2>2, <2>3, <1>2
    <2>5. Len(s2) = x /\ Decided(L, A, C, r, s2) /\ w = s2[x].term
      BY <2>3, <2>4 DEF SnapshotFits
    <2>6. s2[Len(s2)].term >= t
      BY <2>4, <2>5, DecidedContains
    <2>7. Covers(w, x, t, y)
      BY <2>3, <2>4, <2>5, <2>6 DEF Covers
    <2> QED
      BY <2>7, <1>2 DEF LogCovers
  <1> QED
    BY <1>1, <1>2 DEF Shortened

(* A snapshot's term is no later than that of the server that has it.        *)
LEMMA SnapshotTerm ==
    ASSUME NEW L, NEW A, NEW T, NEW C, HistoryType(L, A, T), LogTree(L),
           NEW r \in Nat, NEW s \in Seq(Entry), NEW x \in Nat, NEW w, SnapshotFits(L, A, C, r, s, x, w)
    PROVE  w \in Nat /\ w <= r
  <1>1. CASE x = 0
    BY <1>1 DEF SnapshotFits
  <1>2. CASE x > 0
    <2>1. Len(s) = x /\ w = s[x].term /\ Decided(L, A, C, r, s)
      BY <1>2 DEF SnapshotFits
    <2>2. PICK t \in DOMAIN L : \E y \in 1..Len(L[t]) :
            t <= r /\ Len(s) <= y /\ \A k \in 1..Len(s) : s[k] = L[t][k]
      BY <2>1, <1>2 DEF Decided
    <2>3. PICK y \in 1..Len(L[t]) : t <= r /\ Len(s) <= y /\ \A k \in 1..Len(s) : s[k] = L[t][k]
      BY <2>2
    <2>4. t \in Nat /\ Len(L[t]) \in Nat
      BY LeaderLogType
    <2>5. x \in 1..Len(s) /\ x \in 1..Len(L[t])
      BY <2>1, <2>3, <2>4, <1>2
    <2>6. L[t][x].term <= t /\ L[t][x].term \in Nat
      BY <2>5, LeaderLogType DEF LogTree
    <2>7. w = L[t][x].term
      BY <2>1, <2>3, <2>5
    <2> QED
      BY <2>3, <2>4, <2>6, <2>7
  <1> QED
    BY <1>1, <1>2

(* The shortened log continues the snapshot, if the log was one that fits.   *)
LEMMA ShortenedLog ==
    ASSUME NEW L, NEW A, NEW T, NEW C, HistoryType(L, A, T), LogTree(L),
           NEW r \in Nat, NEW l \in Log, Contiguous(l), NEW s \in Seq(Entry), LogFits(L, A, C, r, l, s),
           NEW s2 \in Seq(Entry), NEW x \in Nat, NEW w \in Nat, SnapshotFits(L, A, C, r, s2, x, w),
           NEW l2, Shortened(l, l2, x, w)
    PROVE  LogFits(L, A, C, r, l2, s2)
  <1>1. l2 \in Log /\ Cut(l, l2) /\ Base(l2) = x /\ l2[1].term = w
    BY DEF Shortened
  <1>2. LogTail(l2).term <= r
    <2>1. w <= r
      BY SnapshotTerm
    <2>2. LogTail(l).term <= r
      BY DEF LogFits
    <2> QED
      BY <2>1, <2>2 DEF Shortened
  <1>3. ASSUME LastIndex(l2) > x
        PROVE  Node(L, LogTail(l2).term, LastIndex(l2)) /\ Matches(L, l2, LogTail(l2).term, LastIndex(l2))
    <2>1. LastIndex(l2) = LastIndex(l) /\ LogTail(l2).term = LogTail(l).term
      BY <1>3 DEF Shortened
    <2>2. Base(l) \in Nat /\ LastIndex(l) \in Nat
      BY IndexRange
    <2>3. LastIndex(l) > Base(l)
      BY <2>1, <2>2, <1>1, <1>3 DEF Cut
    <2>4. Node(L, LogTail(l).term, LastIndex(l)) /\ Matches(L, l, LogTail(l).term, LastIndex(l))
      BY <2>3 DEF LogFits
    <2>5. Matches(L, l2, LogTail(l).term, LastIndex(l))
      BY <2>2, <2>4, <1>1, CutMatches
    <2> QED
      BY <2>1, <2>4, <2>5
  <1> QED
    BY <1>1, <1>2, <1>3 DEF LogFits

(* What the server stored stays stored.                                      *)
LEMMA ShortenedAcks ==
    ASSUME NEW L, NEW A, NEW T, NEW C, HistoryType(L, A, T),
           NEW v \in Server, NEW l \in Log, Contiguous(l), AckFits(L, A, T, v, l),
           NEW x \in Nat, NEW w, NEW l2, Shortened(l, l2, x, w), CoversKept(L, A, T, l, l2)
    PROVE  AckFits(L, A, T, v, l2)
  <1>1. l2 \in Log /\ Cut(l, l2) /\ Base(l2) = x /\ Base(l) <= x
    BY DEF Shortened, Cut
  <1>2. PICK b \in Nat, c \in Nat : b = Base(l) /\ c = LastIndex(l) /\ b <= x
    BY <1>1, IndexRange
  <1>3. ASSUME NEW a \in A, a.server = v
        PROVE  /\ a.term <= T[v] /\ a.term \in DOMAIN L /\ a.index \in 1..Len(L[a.term])
               /\ a.term = T[v] => a.index <= x \/ (a.index <= LastIndex(l2) /\ Matches(L, l2, a.term, a.index))
    <2>1. /\ a.term <= T[v] /\ a.term \in DOMAIN L /\ a.index \in 1..Len(L[a.term])
          /\ a.term = T[v] => a.index <= b \/ (a.index <= c /\ Matches(L, l, a.term, a.index))
      BY <1>2, <1>3 DEF AckFits
    <2>2. a.index \in Nat
      BY DEF HistoryType
    <2>3. CASE a.term # T[v] \/ a.index <= x
      BY <2>1, <2>3
    <2>4. CASE a.term = T[v] /\ ~ (a.index <= x)
      <3>1. a.index <= c /\ Matches(L, l, a.term, a.index)
        BY <2>1, <2>2, <2>4, <1>2
      <3>2. LastIndex(l2) = c
        BY <3>1, <2>2, <2>4, <1>2 DEF Shortened
      <3>3. Matches(L, l2, a.term, a.index)
        BY <3>1, <2>2, <1>1, <1>2, CutMatches
      <3> QED
        BY <3>1, <3>2, <3>3, <2>1
    <2> QED
      BY <2>3, <2>4
  <1>4. ASSUME NEW t \in DOMAIN L, NEW y \in 1..Len(L[t]), v \in Acks(A, t, y), Choosable(L, A, T, t, y)
        PROVE  LogCovers(l2, t, y)
    <2>1. LogCovers(l, t, y)
      BY <1>4 DEF AckFits
    <2> QED
      BY <2>1, <1>4 DEF CoversKept
  <1> QED
    BY <1>1, <1>3, <1>4 DEF AckFits

(* A leader's log keeps its end: no snapshot goes past it.                   *)
LEMMA ShortenedLeader ==
    ASSUME NEW L, NEW A, NEW T, NEW C, HistoryType(L, A, T), LogTree(L), Complete(L, A, T),
           NEW r \in Nat, NEW l \in Log, Contiguous(l), NEW i, LeaderFits(L, A, i, r, l),
           NEW s2 \in Seq(Entry), NEW x \in Nat, NEW w, SnapshotFits(L, A, C, r, s2, x, w),
           NEW l2, Shortened(l, l2, x, w)
    PROVE  LeaderFits(L, A, i, r, l2) /\ LastIndex(l2) = LastIndex(l)
  <1>1. r \in DOMAIN L /\ LastIndex(l) = Len(L[r]) /\ Matches(L, l, r, LastIndex(l))
    BY DEF LeaderFits
  <1>2. LastIndex(l) \in Nat
    BY IndexRange
  <1>3. x <= LastIndex(l)
    <2>1. Begins(s2, L[r])
      BY <1>1, DecidedKept DEF SnapshotFits
    <2> QED
      BY <2>1, <1>1 DEF Begins, SnapshotFits
  <1>4. LastIndex(l2) = LastIndex(l)
    BY <1>2, <1>3 DEF Shortened
  <1>5. Matches(L, l2, r, LastIndex(l))
    BY <1>1, <1>2, CutMatches DEF Shortened
  <1> QED
    BY <1>1, <1>4, <1>5 DEF LeaderFits

(* A commit index at or above the snapshot stays one.                        *)
LEMMA ShortenedCommit ==
    ASSUME NEW L, NEW A, NEW C, NEW r, NEW l \in Log, Contiguous(l), NEW c \in Nat,
           CommitFits(L, A, C, r, l, c), NEW x \in Nat, NEW w, NEW l2, Shortened(l, l2, x, w), x <= c
    PROVE  CommitFits(L, A, C, r, l2, c)
  <1>1. l2 \in Log /\ Cut(l, l2) /\ Base(l2) = x
    BY DEF Shortened
  <1>2. LastIndex(l) \in Nat /\ c <= LastIndex(l)
    BY IndexRange DEF CommitFits
  <1>3. c <= LastIndex(l2)
    BY <1>2 DEF Shortened
  <1>4. ASSUME NEW t, Matches(L, l, t, c) PROVE Matches(L, l2, t, c)
    BY <1>1, <1>2, <1>4, CutMatches
  <1>5. c > 0 => \E t \in DOMAIN L : \E y \in 1..Len(L[t]) :
          Sealed(L, A, C, t, y) /\ t <= r /\ c <= y /\ Matches(L, l2, t, c)
    BY <1>4 DEF CommitFits
  <1> QED
    BY <1>1, <1>3, <1>5 DEF CommitFits

(* The base of a log is committed: what its snapshot replaced was decided.   *)
LEMMA BaseCommitted ==
    ASSUME NEW L, NEW A, NEW T, NEW C, HistoryType(L, A, T),
           NEW r \in Nat, NEW l \in Log, Contiguous(l), NEW s \in Seq(Entry), LogFits(L, A, C, r, l, s)
    PROVE  CommitFits(L, A, C, r, l, Base(l)) /\ (Base(l) > 0 => SealedUpTo(L, A, C, r, Base(l)))
  <1>1. PICK b \in Nat : b = Base(l) /\ b <= LastIndex(l)
    BY IndexRange
  <1>2. Len(s) = b /\ Decided(L, A, C, r, s)
    BY <1>1 DEF LogFits, SnapshotFits
  <1>3. CASE b = 0
    BY <1>1, <1>3 DEF CommitFits
  <1>4. CASE b > 0
    <2>1. PICK t \in DOMAIN L : \E y \in 1..Len(L[t]) : Sealed(L, A, C, t, y) /\ t <= r /\ b <= y
      BY <1>2, <1>4 DEF Decided
    <2>2. PICK y \in 1..Len(L[t]) : Sealed(L, A, C, t, y) /\ t <= r /\ b <= y
      BY <2>1
    <2>3. Len(L[t]) \in Nat /\ b <= Len(L[t])
      BY <2>2, LeaderLogType
    <2>4. Matches(L, l, t, b)
      BY <2>3, <1>1 DEF Matches
    <2> QED
      BY <2>2, <2>4, <1>1 DEF CommitFits, SealedUpTo
  <1> QED
    BY <1>3, <1>4

(* Up to the commit index, a log agrees with whatever was decided.           *)
LEMMA CommittedEntry ==
    ASSUME NEW L, NEW A, NEW T, NEW C, HistoryType(L, A, T), LogTree(L), Complete(L, A, T),
           NEW r, NEW l \in Log, Contiguous(l), NEW c \in Nat, CommitFits(L, A, C, r, l, c),
           NEW q, NEW z \in Seq(Entry), Decided(L, A, C, q, z), Len(z) <= c,
           NEW x \in (Base(l) + 1)..Len(z)
    PROVE  GetLogAtIndex(l, x) = z[x]
  <1>1. Base(l) \in Nat /\ Len(z) \in Nat
    BY IndexRange, LenProperties
  <1>2. c > 0 /\ x \in 1..Len(z) /\ x \in (Base(l) + 1)..c
    BY <1>1
  <1>3. PICK t \in DOMAIN L : \E y \in 1..Len(L[t]) : Sealed(L, A, C, t, y) /\ c <= y /\ Matches(L, l, t, c)
    BY <1>2 DEF CommitFits
  <1>4. PICK y \in 1..Len(L[t]) : Sealed(L, A, C, t, y) /\ c <= y /\ Matches(L, l, t, c)
    BY <1>3
  <1>5. Choosable(L, A, T, t, y) /\ Len(z) <= y
    <2>1. y \in Nat
      BY LeaderLogType
    <2> QED
      BY <2>1, <1>1, <1>4, ChosenChoosable DEF Sealed
  <1>6. Begins(z, L[t])
    BY <1>5, DecidedSealed
  <1> QED
    BY <1>2, <1>4, <1>6 DEF Begins, Matches

(* The next committed entry of a log continues the state of its service.     *)
LEMMA ApplyNext ==
    ASSUME NEW L, NEW A, NEW T, NEW C, HistoryType(L, A, T), LogTree(L), Complete(L, A, T),
           NEW r \in Nat, NEW l \in Log, Contiguous(l), NEW c \in Nat, CommitFits(L, A, C, r, l, c),
           NEW s \in Seq(Entry), Decided(L, A, C, r, s), Base(l) <= Len(s), Len(s) < c,
           NEW e, e = GetLogAtIndex(l, Len(s) + 1)
    PROVE  e \in Entry /\ e.index = Len(s) + 1 /\ Decided(L, A, C, r, Append(s, e))
  <1>1. PICK n \in Nat, b \in Nat : n = Len(s) /\ b = Base(l) /\ b <= n
    BY IndexRange, LenProperties
  <1>2. c > 0 /\ n + 1 \in (b + 1)..c /\ n + 1 <= c
    BY <1>1
  <1>3. PICK t \in DOMAIN L : \E y \in 1..Len(L[t]) :
          Sealed(L, A, C, t, y) /\ t <= r /\ c <= y /\ Matches(L, l, t, c)
    BY <1>2 DEF CommitFits
  <1>4. PICK y \in 1..Len(L[t]) : Sealed(L, A, C, t, y) /\ t <= r /\ c <= y /\ Matches(L, l, t, c)
    BY <1>3
  <1>5. Len(L[t]) \in Nat /\ n + 1 \in 1..Len(L[t]) /\ n + 1 <= y /\ n <= y
    BY <1>1, <1>2, <1>4, LeaderLogType
  <1>6. Choosable(L, A, T, t, y)
    BY <1>4, ChosenChoosable DEF Sealed
  <1>7. \A k \in 1..n : s[k] = L[t][k]
    <2>1. Begins(s, L[t])
      BY <1>1, <1>5, <1>6, DecidedSealed
    <2> QED
      BY <2>1, <1>1 DEF Begins
  <1>8. e = L[t][n + 1]
    BY <1>1, <1>2, <1>4 DEF Matches
  <1>9. e \in Entry /\ e.index = n + 1
    <2>1. L[t] \in Seq(Entry)
      BY LeaderLogType
    <2>2. L[t][n + 1] \in Entry
      BY <2>1, <1>5
    <2>3. \A k \in 1..Len(L[t]) : L[t][k].index = k
      BY Zenon DEF LogTree
    <2>4. L[t][n + 1].index = n + 1
      BY <2>3, <1>5
    <2> QED
      BY <2>2, <2>4, <1>8
  <1>10. Len(Append(s, e)) = n + 1 /\ \A k \in 1..(n + 1) : Append(s, e)[k] = L[t][k]
    <2>1. Len(Append(s, e)) = n + 1 /\ Append(s, e)[n + 1] = e /\ \A k \in 1..n : Append(s, e)[k] = s[k]
      BY <1>1, <1>9, AppendProperties
    <2>2. \A k \in 1..(n + 1) : k \in 1..n \/ k = n + 1
      BY <1>1
    <2> QED
      BY <2>1, <2>2, <1>7, <1>8
  <1>11. Decided(L, A, C, r, Append(s, e))
    BY <1>4, <1>5, <1>10 DEF Decided
  <1> QED
    BY <1>1, <1>9, <1>11

(* Start extends the leader's log, in memory as in the history.              *)
LEMMA StartFits ==
    ASSUME NEW L, NEW A, NEW T, NEW C, NEW L2, NEW A2, NEW i, NEW t, NEW e,
           HistoryType(L, A, T), LogTree(L), HistoryStep(L, A, C, T, L2, A2, C, T),
           Appends(L, A, T, L2, A2, i, t, e),
           NEW l \in Log, Contiguous(l), LeaderFits(L, A, i, t, l)
    PROVE  LeaderFits(L2, A2, i, t, Append(l, e))
  <1> DEFINE l2 == Append(l, e)
  <1>1. /\ HistoryType(L2, A2, T) /\ Extends(L, L2) /\ DOMAIN L2 = DOMAIN L
        /\ Len(L2[t]) = Len(L[t]) + 1 /\ L2[t][Len(L[t]) + 1] = e
        /\ \A k \in 1..Len(L[t]) : L2[t][k] = L[t][k]
    BY AppendsLogs
  <1>2. PICK n \in Nat, b \in Nat : n = Len(L[t]) /\ b = Base(l) /\ LastIndex(l) = n /\ b <= n
    BY IndexRange DEF LeaderFits
  <1>3. t \in DOMAIN L /\ e \in Entry /\ e.index = n + 1 /\ e.term = t
        /\ i \in Server /\ A2 = A \cup {[server |-> i, term |-> t, index |-> n + 1]}
    BY <1>2 DEF Appends
  <1>4. /\ l2 \in Log /\ Cut(l, l2) /\ Base(l2) = b /\ LastIndex(l2) = n + 1
        /\ GetLogAtIndex(l2, n + 1) = e
    BY <1>2, <1>3, AppendFacts
  <1> HIDE DEF l2
  <1>5. Matches(L, l, t, n)
    BY <1>2 DEF LeaderFits
  <1>6. Matches(L2, l2, t, n + 1)
    <2> SUFFICES ASSUME NEW x \in (b + 1)..(n + 1) PROVE GetLogAtIndex(l2, x) = L2[t][x]
      BY <1>1, <1>2, <1>4 DEF Matches
    <2>1. CASE x = n + 1
      BY <2>1, <1>1, <1>2, <1>4
    <2>2. CASE x # n + 1
      <3>1. x \in (b + 1)..n /\ x \in 1..n
        BY <2>2, <1>2
      <3>2. Matches(L, l2, t, n)
        BY <1>2, <1>4, <1>5, CutMatches
      <3> QED
        BY <3>1, <3>2, <1>1, <1>2, <1>4 DEF Matches
    <2> QED
      BY <2>1, <2>2
  <1>7. ASSUME NEW x \in 1..Len(L2[t]), Node(L2, t, x) PROVE i \in Acks(A2, t, x)
    <2> DEFINE a == [server |-> i, term |-> t, index |-> n + 1]
    <2>1. a \in A2 /\ a.server = i /\ a.term = t /\ a.index >= x
      BY <1>1, <1>2, <1>3
    <2> QED
      BY <2>1, <1>3 DEF Acks
  <1>8. LeaderFits(L2, A2, i, t, l2)
    BY <1>1, <1>2, <1>3, <1>4, <1>6, <1>7 DEF LeaderFits
  <1> QED
    BY <1>8 DEF l2

(* The rest of what is known of that log.                                    *)
LEMMA StartKeeps ==
    ASSUME NEW L, NEW A, NEW T, NEW C, NEW L2, NEW A2, NEW i, NEW t, NEW e,
           HistoryType(L, A, T), LogTree(L), HistoryStep(L, A, C, T, L2, A2, C, T),
           Appends(L, A, T, L2, A2, i, t, e),
           NEW l \in Log, Contiguous(l), LeaderFits(L, A, i, t, l),
           NEW s \in Seq(Entry), LogFits(L, A, C, t, l, s), AckFits(L, A, T, i, l),
           NEW c \in Nat, CommitFits(L, A, C, t, l, c)
    PROVE  /\ LogFits(L2, A2, C, t, Append(l, e), s)
           /\ CommitFits(L2, A2, C, t, Append(l, e), c)
           /\ AckFits(L2, A2, T, i, Append(l, e))
  <1> DEFINE l2 == Append(l, e)
  <1>1. /\ HistoryType(L2, A2, T) /\ Extends(L, L2) /\ DOMAIN L2 = DOMAIN L
        /\ Len(L2[t]) = Len(L[t]) + 1 /\ L2[t][Len(L[t]) + 1] = e
    BY AppendsLogs
  <1>2. PICK n \in Nat, b \in Nat : n = Len(L[t]) /\ b = Base(l) /\ LastIndex(l) = n /\ b <= n
    BY IndexRange DEF LeaderFits
  <1>3. t \in DOMAIN L /\ e \in Entry /\ e.index = n + 1 /\ e.term = t /\ t \in Nat /\ T[i] = t
        /\ i \in Server /\ A2 = A \cup {[server |-> i, term |-> t, index |-> n + 1]}
    BY <1>2, LeaderLogType DEF Appends
  <1>4. /\ l2 \in Log /\ Contiguous(l2) /\ Cut(l, l2) /\ Base(l2) = b /\ LastIndex(l2) = n + 1
        /\ LogTail(l2) = e /\ l2[1] = l[1]
    BY <1>2, <1>3, AppendFacts
  <1>5. LeaderFits(L2, A2, i, t, l2)
    BY StartFits
  <1>6. Matches(L2, l2, t, n + 1) /\ LastIndex(l2) = Len(L2[t])
    BY <1>4, <1>5 DEF LeaderFits
  <1> HIDE DEF l2
  <1>7. LogFits(L2, A2, C, t, l2, s)
    <2>1. SnapshotFits(L2, A2, C, t, s, b, l[1].term)
      BY <1>2, <1>3, SnapshotStays DEF LogFits
    <2>2. Node(L2, t, n + 1)
      BY <1>1, <1>2, <1>3 DEF Node
    <2> QED
      BY <2>1, <2>2, <1>3, <1>4, <1>6 DEF LogFits
  <1>8. ASSUME NEW u \in DOMAIN L, NEW x \in Nat, x <= n, Matches(L, l, u, x)
        PROVE  Matches(L2, l2, u, x)
    <2>1. Matches(L2, l, u, x)
      BY <1>8, MatchesStays
    <2> QED
      BY <2>1, <1>2, <1>4, <1>8, CutMatches
  <1>9. CommitFits(L2, A2, C, t, l2, c)
    <2>1. b <= c /\ c <= n
      BY <1>2 DEF CommitFits
    <2>2. ASSUME c > 0
          PROVE  \E u \in DOMAIN L2 : \E y \in 1..Len(L2[u]) :
                   Sealed(L2, A2, C, u, y) /\ u <= t /\ c <= y /\ Matches(L2, l2, u, c)
      <3>1. PICK u \in DOMAIN L : \E y \in 1..Len(L[u]) :
              Sealed(L, A, C, u, y) /\ u <= t /\ c <= y /\ Matches(L, l, u, c)
        BY <2>2 DEF CommitFits
      <3>2. PICK y \in 1..Len(L[u]) :
              Sealed(L, A, C, u, y) /\ u <= t /\ c <= y /\ Matches(L, l, u, c)
        BY <3>1
      <3>3. Sealed(L2, A2, C, u, y) /\ u \in DOMAIN L2 /\ y \in 1..Len(L2[u])
        BY <3>2, SealedStays
      <3>4. Matches(L2, l2, u, c)
        BY <3>2, <2>1, <1>8
      <3> QED
        BY <3>2, <3>3, <3>4
    <2> QED
      BY <2>1, <2>2, <1>2, <1>4 DEF CommitFits
  <1>10. ASSUME NEW a \in A2, a.server = i
         PROVE  /\ a.term \in Nat /\ a.term <= t /\ a.term \in DOMAIN L2 /\ a.index \in 1..Len(L2[a.term])
                /\ a.term = t => a.index <= b \/ (a.index <= n + 1 /\ Matches(L2, l2, t, a.index))
    <2>1. CASE a \in A
      <3>1. /\ a.term <= t /\ a.term \in DOMAIN L /\ a.index \in 1..Len(L[a.term])
            /\ a.term = t => a.index <= b \/ (a.index <= n /\ Matches(L, l, t, a.index))
        BY <2>1, <1>2, <1>3, <1>10 DEF AckFits
      <3>2. a.index \in Nat /\ a.term \in Nat /\ Len(L[a.term]) \in Nat /\ Len(L2[a.term]) \in Nat
            /\ Len(L[a.term]) <= Len(L2[a.term])
        BY <3>1, <2>1, <1>1, LeaderLogType DEF HistoryType, Extends
      <3>3. a.term = t => a.index <= b \/ (a.index <= n + 1 /\ Matches(L2, l2, t, a.index))
        BY <3>1, <3>2, <1>2, <1>3, <1>8
      <3> QED
        BY <3>1, <3>2, <3>3, <1>1
    <2>2. CASE a = [server |-> i, term |-> t, index |-> n + 1]
      BY <2>2, <1>1, <1>2, <1>3, <1>6
    <2> QED
      BY <2>1, <2>2, <1>3
  <1>11. ASSUME NEW u \in DOMAIN L2, NEW x \in 1..Len(L2[u]), i \in Acks(A2, u, x)
         PROVE  LogCovers(l2, u, x)
    <2>1. u <= t /\ u \in Nat
      BY <1>10, <1>11 DEF Acks
    <2>2. u = t => x <= n + 1
      BY <1>1, <1>2
    <2>3. Covers(t, n + 1, u, x)
      BY <2>1, <2>2, <1>2, <1>3 DEF Covers
    <2> QED
      BY <2>3, <1>3, <1>4 DEF LogCovers
  <1>12. AckFits(L2, A2, T, i, l2)
    BY <1>3, <1>4, <1>10, <1>11 DEF AckFits
  <1> QED
    BY <1>7, <1>9, <1>12 DEF l2

(* The entries Sync commits when the commit index moves to x.                *)
Committing(l, x) == {e \in {l[k] : k \in 2..Len(l)} : e.index <= x}

(* They are the entries of the log above its base, up to x.                  *)
LEMMA CommittingFacts ==
    ASSUME NEW l \in Log, Contiguous(l), NEW x \in Nat
    PROVE  /\ \A y \in (Base(l) + 1)..LastIndex(l) : y <= x => GetLogAtIndex(l, y) \in Committing(l, x)
           /\ \A e \in Committing(l, x) :
                /\ e.index \in (Base(l) + 1)..LastIndex(l) /\ e.index <= x
                /\ e = GetLogAtIndex(l, e.index)
  <1>1. PICK b \in Nat, n \in Nat, d \in Nat :
          b = Base(l) /\ n = LastIndex(l) /\ d = Len(l) /\ n = b + d - 1 /\ d > 0
    BY IndexRange
  <1>2. \A k \in 1..d : l[k].index = b + k - 1
    BY <1>1, LogFacts DEF Contiguous
  <1>3. ASSUME NEW y \in (b + 1)..n, y <= x PROVE GetLogAtIndex(l, y) \in Committing(l, x)
    <2> DEFINE k == y - b + 1
    <2>1. k \in 2..d /\ k \in 1..d /\ b + k - 1 = y
      BY <1>1
    <2>2. GetLogAtIndex(l, y) = l[k] /\ l[k].index = y
      BY <2>1, <1>1, <1>2 DEF GetLogAtIndex, LogIndexToSubscript
    <2> QED
      BY <2>1, <2>2, <1>1, <1>3 DEF Committing
  <1>4. ASSUME NEW e \in Committing(l, x)
        PROVE  e.index \in (b + 1)..n /\ e.index <= x /\ e = GetLogAtIndex(l, e.index)
    <2>1. PICK k \in 2..d : e = l[k] /\ e.index <= x
      BY <1>1, <1>4 DEF Committing
    <2>2. e.index = b + k - 1 /\ k \in 1..d
      BY <2>1, <1>1, <1>2
    <2>3. e.index - b + 1 = k /\ e.index \in (b + 1)..n
      BY <2>2, <1>1
    <2> QED
      BY <2>1, <2>3, <1>1 DEF GetLogAtIndex, LogIndexToSubscript
  <1> QED
    BY <1>1, <1>3, <1>4

(* A commit index never moves back, and moves only to an entry of the        *)
(* leader's term that a majority is known to have.                           *)
LEMMA NewCommitFacts ==
    ASSUME NEW l, NEW match, NEW t, NEW commit \in Nat, NEW last \in Nat
    PROVE  LET x == NewCommit(l, commit, match, t, last) IN
           /\ x \in Nat /\ x >= commit
           /\ x > commit => /\ x <= last /\ GetLogAtIndex(l, x).term = t
                            /\ IsMajority({p \in Server : match[p] >= x})
  <1> DEFINE agreed == {x \in commit..last : /\ IsMajority({p \in Server : match[p] >= x})
                                             /\ GetLogAtIndex(l, x).term = t}
             S == agreed \cup {commit}
             x == NewCommit(l, commit, match, t, last)
  <1>1. PICK b \in Nat : S \in SUBSET (0..b)
    <2>1. CASE commit <= last
      <3>1. S \in SUBSET (0..last)
        BY <2>1
      <3> QED
        BY <3>1
    <2>2. CASE commit > last
      <3>1. S \in SUBSET (0..commit)
        BY <2>2
      <3> QED
        BY <3>1
    <2> QED
      BY <2>1, <2>2
  <1>2. x = Max(S)
    BY DEF NewCommit
  <1>3. x \in S /\ \A y \in S : x >= y
    BY <1>1, <1>2, NatMax
  <1> HIDE DEF x
  <1>4. x \in Nat /\ x >= commit
    BY <1>1, <1>3
  <1>5. x > commit => x \in agreed
    BY <1>3, <1>4
  <1> QED
    BY <1>4, <1>5 DEF x

(* What a leader of u commits, with x in its own term and majority P knowing *)
(* it or having it below a snapshot, is sealed.                              *)
LEMMA CommitSeals ==
    ASSUME NEW L, NEW A, NEW T, NEW C, HistoryType(L, A, T), LogTree(L), Complete(L, A, T),
           NEW i, NEW u \in Nat, NEW l \in Log, Contiguous(l), LeaderFits(L, A, i, u, l),
           NEW s \in Seq(Entry), LogFits(L, A, C, u, l, s),
           NEW x \in Nat, x \in (Base(l) + 1)..LastIndex(l), GetLogAtIndex(l, x).term = u,
           NEW P \in SUBSET Server, IsMajority(P),
           \A p \in P : p \in Acks(A, u, x) \/ SealedUpTo(L, A, C, u, x)
    PROVE  \E y \in 1..Len(L[u]) : x <= y /\ Sealed(L, A, C \cup Committing(l, x), u, y)
  <1> DEFINE C2 == C \cup Committing(l, x)
  <1>1. PICK b \in Nat, n \in Nat : b = Base(l) /\ n = LastIndex(l) /\ b <= n
    BY IndexRange
  <1>2. u \in DOMAIN L /\ n = Len(L[u]) /\ Matches(L, l, u, n)
    BY <1>1 DEF LeaderFits
  <1>3. x \in (b + 1)..n /\ x \in 1..Len(L[u]) /\ L[u][x] = GetLogAtIndex(l, x) /\ L[u][x].term = u
    BY <1>1, <1>2 DEF Matches
  <1>4. CASE SealedUpTo(L, A, C, u, x)
    <2>1. PICK t \in DOMAIN L : \E y \in 1..Len(L[t]) : Sealed(L, A, C, t, y) /\ t <= u /\ x <= y
      BY <1>4 DEF SealedUpTo
    <2>2. PICK y \in 1..Len(L[t]) : Sealed(L, A, C, t, y) /\ t <= u /\ x <= y
      BY <2>1
    <2>3. t \in Nat /\ Len(L[t]) \in Nat /\ x \in 1..Len(L[t]) /\ x \in 1..y
      BY <2>2, <1>3, LeaderLogType
    <2>4. Choosable(L, A, T, t, y)
      BY <2>2, ChosenChoosable DEF Sealed
    <2>5. Agree(L, u, t, y)
      BY <2>2, <2>4, <1>2, ChoosableKept
    <2>6. L[t][x].term = u
      BY <2>3, <2>5, <1>3 DEF Agree
    <2>7. u <= t
      BY <2>3, <2>6 DEF LogTree
    <2>8. t = u
      BY <2>2, <2>3, <2>7
    <2>9. Sealed(L, A, C2, u, y)
      BY <2>2, <2>8 DEF Sealed
    <2> QED
      BY <2>2, <2>8, <2>9
  <1>5. CASE ~ SealedUpTo(L, A, C, u, x)
    <2>1. P \subseteq Acks(A, u, x) /\ Acks(A, u, x) \in SUBSET Server
      BY <1>5 DEF Acks
    <2>2. Chosen(L, A, u, x)
      BY <2>1, <1>2, <1>3, MajorityGrows DEF Chosen, Node
    <2>3. ASSUME NEW k \in 1..x PROVE L[u][k] \in C2
      <3>1. CASE k > b
        <4>1. k \in (b + 1)..n /\ k <= x
          BY <3>1, <1>3
        <4>2. L[u][k] = GetLogAtIndex(l, k)
          BY <4>1, <1>1, <1>2 DEF Matches
        <4> QED
          BY <4>1, <4>2, <1>1, CommittingFacts
      <3>2. CASE k <= b
        <4>1. Len(s) = b /\ Decided(L, A, C, u, s) /\ b > 0
          BY <3>2, <1>1 DEF LogFits, SnapshotFits
        <4>2. PICK t \in DOMAIN L : \E y \in 1..Len(L[t]) : Sealed(L, A, C, t, y) /\ t <= u /\ b <= y
          BY <4>1 DEF Decided
        <4>3. PICK y \in 1..Len(L[t]) : Sealed(L, A, C, t, y) /\ t <= u /\ b <= y
          BY <4>2
        <4>4. Choosable(L, A, T, t, y)
          BY <4>3, ChosenChoosable DEF Sealed
        <4>5. Agree(L, u, t, y)
          BY <4>3, <4>4, <1>2, ChoosableKept
        <4>6. y \in Nat /\ k \in 1..y
          BY <4>3, <3>2, <1>1, LeaderLogType
        <4> QED
          BY <4>3, <4>5, <4>6 DEF Agree, Sealed
      <3> QED
        BY <3>1, <3>2, <1>1
    <2>4. Sealed(L, A, C2, u, x)
      BY <2>2, <2>3 DEF Sealed
    <2> QED
      BY <2>4, <1>3
  <1> QED
    BY <1>4, <1>5

(* So the leader's commit index fits, and what it commits lies on the way to *)
(* the sealed node.                                                          *)
LEMMA CommitAdvances ==
    ASSUME NEW L, NEW A, NEW T, NEW C, HistoryType(L, A, T), LogTree(L), Complete(L, A, T),
           NEW i, NEW u \in Nat, NEW l \in Log, Contiguous(l), LeaderFits(L, A, i, u, l),
           NEW s \in Seq(Entry), LogFits(L, A, C, u, l, s),
           NEW x \in Nat, x \in (Base(l) + 1)..LastIndex(l), GetLogAtIndex(l, x).term = u,
           NEW P \in SUBSET Server, IsMajority(P),
           \A p \in P : p \in Acks(A, u, x) \/ SealedUpTo(L, A, C, u, x)
    PROVE  LET C2 == C \cup Committing(l, x) IN
           /\ CommitFits(L, A, C2, u, l, x)
           /\ \A e \in Committing(l, x) : OnWay(L, A, C2, e)
  <1> DEFINE C2 == C \cup Committing(l, x)
  <1>1. PICK y \in 1..Len(L[u]) : x <= y /\ Sealed(L, A, C2, u, y)
    BY CommitSeals
  <1>2. PICK b \in Nat, n \in Nat : b = Base(l) /\ n = LastIndex(l) /\ b <= n
    BY IndexRange
  <1>3. u \in DOMAIN L /\ n = Len(L[u]) /\ Matches(L, l, u, n) /\ x \in (b + 1)..n /\ y \in Nat
    BY <1>2, LeaderLogType DEF LeaderFits
  <1>4. Matches(L, l, u, x)
    <2>1. \A k \in (b + 1)..x : k \in (b + 1)..n
      BY <1>2, <1>3
    <2> QED
      BY <2>1, <1>2, <1>3 DEF Matches
  <1>5. CommitFits(L, A, C2, u, l, x)
    BY <1>1, <1>2, <1>3, <1>4 DEF CommitFits
  <1>6. ASSUME NEW e \in Committing(l, x) PROVE OnWay(L, A, C2, e)
    <2>1. e.index \in (b + 1)..n /\ e.index <= x /\ e = GetLogAtIndex(l, e.index)
      BY <1>2, CommittingFacts
    <2>2. e.index \in 1..y
      BY <2>1, <1>1, <1>2, <1>3
    <2>3. e = L[u][e.index]
      BY <2>1, <1>2, <1>3 DEF Matches
    <2> QED
      BY <2>2, <2>3, <1>1, <1>3 DEF OnWay
  <1> QED
    BY <1>5, <1>6

(* What Replicate sends is a piece of the leader's log.                      *)
LEMMA RequestSent ==
    ASSUME NEW L, NEW A, NEW T, NEW C, HistoryType(L, A, T), LogTree(L), Complete(L, A, T),
           NEW i, NEW u \in Nat, NEW l \in Log, Contiguous(l), LeaderFits(L, A, i, u, l),
           NEW s \in Seq(Entry), LogFits(L, A, C, u, l, s),
           NEW c \in Nat, CommitFits(L, A, C, u, l, c),
           NEW p \in Nat, p \in Base(l)..LastIndex(l),
           NEW m, m.term = u, m.prevIndex = p, m.prevTerm = GetLogAtIndex(l, p).term,
           m.entries = SubSeq(l, LogIndexToSubscript(l, p + 1), Len(l)), m.leaderCommit = c
    PROVE  RequestFits(L, A, C, T, m)
  <1>1. PICK b \in Nat, n \in Nat : b = Base(l) /\ n = LastIndex(l) /\ b <= n
    BY IndexRange
  <1>2. u \in DOMAIN L /\ n = Len(L[u]) /\ \A x \in (b + 1)..n : GetLogAtIndex(l, x) = L[u][x]
    BY <1>1 DEF LeaderFits, Matches
  <1>3. PICK es \in Seq(Entry), d \in Nat : /\ es = m.entries /\ d = Len(es) /\ d = n - p
            /\ \A k \in 1..d : es[k] = GetLogAtIndex(l, p + k)
    <2>1. n - p \in Nat
      BY <1>1
    <2> DEFINE es == SubSeq(l, LogIndexToSubscript(l, p + 1), Len(l))
    <2>2. /\ es \in Seq(Entry) /\ Len(es) = LastIndex(l) - p
          /\ \A k \in 1..Len(es) : es[k] = GetLogAtIndex(l, p + k)
      BY EntriesFacts
    <2>3. es = m.entries
      OBVIOUS
    <2> HIDE DEF es
    <2> QED
      BY <2>1, <2>2, <2>3, <1>1
  <1>4. p + d = n /\ p \in b..n
    <2>1. p \in b..n /\ d = n - p
      BY <1>1, <1>3
    <2> QED
      BY ONLY <2>1, p \in Nat, d \in Nat, n \in Nat
  <1>5. ASSUME NEW k \in 1..d PROVE es[k] = L[u][p + k]
    <2>1. p + k \in (b + 1)..n
      BY <1>1, <1>4
    <2> QED
      BY <2>1, <1>2, <1>3
  <1>6. ASSUME p > 0 PROVE L[u][p].term = m.prevTerm
    <2>1. CASE p > b
      <3>1. p \in (b + 1)..n
        BY <2>1, <1>4
      <3> QED
        BY <3>1, <1>2
    <2>2. CASE p = b
      <3>1. GetLogAtIndex(l, p) = l[1]
        BY <2>2, <1>1, IndexRange
      <3>2. Len(s) = b /\ Decided(L, A, C, u, s) /\ l[1].term = s[b].term
        BY <2>2, <1>1, <1>6 DEF LogFits, SnapshotFits
      <3>3. Begins(s, L[u])
        BY <3>2, <1>2, DecidedKept
      <3>4. b \in 1..Len(s)
        BY <3>2, <2>2, <1>6
      <3> QED
        BY <3>1, <3>2, <3>3, <3>4, <2>2 DEF Begins
    <2> QED
      BY <2>1, <2>2, <1>4
  <1>7. c <= n /\ (c > 0 => SealedUpTo(L, A, C, u, c))
    BY <1>1 DEF CommitFits, SealedUpTo
  <1>8. ASSUME NEW t \in DOMAIN L, NEW x \in 1..Len(L[t]), Choosable(L, A, T, t, x), t < u
        PROVE  x <= n
    BY <1>2, <1>8 DEF Complete
  <1> QED
    BY <1>2, <1>3, <1>4, <1>5, <1>6, <1>7, <1>8, SMTT(20) DEF RequestFits

(* The winner of a term has the log recorded for it.                         *)
LEMMA WinnerLeads ==
    ASSUME NEW L, NEW A, NEW T, NEW L2, NEW R \in Nat, NEW l \in Log, Contiguous(l),
           NEW s \in Seq(Entry), Len(s) = Base(l), NEW F, F = s \o SubSeq(l, 2, Len(l)),
           HistoryType(L, A, T), LogTree(L), Inherits(L, A, T, F, R), Wins(L, L2, R, F), NEW i
    PROVE  LeaderFits(L2, A, i, R, l)
  <1>1. R \in DOMAIN L2 /\ L2[R] = F
    BY DEF Wins
  <1>2. Len(F) = LastIndex(l) /\ \A k \in (Base(l) + 1)..LastIndex(l) : F[k] = GetLogAtIndex(l, k)
    BY SpliceFacts
  <1>3. Matches(L2, l, R, LastIndex(l))
    <2>1. LastIndex(l) \in Nat
      BY IndexRange
    <2> QED
      BY <2>1, <1>1, <1>2 DEF Matches
  <1>4. \A x : ~ Node(L2, R, x)
    <2>1. /\ HistoryType(L2, A, T) /\ Extends(L, L2)
          /\ \A x : ~ Node(L2, R, x)
          /\ \A t, x : Node(L2, t, x) => Node(L, t, x)
      BY WinsTree
    <2> QED
      BY <2>1
  <1> QED
    BY <1>1, <1>2, <1>3, <1>4 DEF LeaderFits

(* Sync never moves nextIndex up on a failure.                               *)
LEMMA BackOffLower ==
    ASSUME NEW l, NEW m, m.conflict.index \in Nat, NEW next \in Nat \ {0}, BackOff(next, m, l) \in Nat,
           \A k \in 2..Len(l) : l[k].index \in Nat, Len(l) \in Nat
    PROVE  BackOff(next, m, l) <= next
  <1>1. ASSUME NEW p \in Nat PROVE Min({next, p}) \in Nat /\ Min({next, p}) <= next
    <2>1. {next, p} \in SUBSET Nat /\ {next, p} # {} /\ next \in {next, p}
      OBVIOUS
    <2> QED
      BY <2>1, NatMin
  <1>2. ASSUME NEW p \in Nat, p <= next PROVE Max({p, 1}) <= next
    <2>1. {p, 1} \in SUBSET (0..next) /\ {p, 1} # {}
      BY <1>2
    <2>2. Max({p, 1}) \in {p, 1}
      BY <2>1, NatMax
    <2> QED
      BY <2>2, <1>2
  <1> DEFINE same == {k \in 2..Len(l) : l[k].term = m.conflict.term}
  <1>3. CASE m.conflict.term > 0 /\ same # {}
    <2>1. same \in SUBSET (0..Len(l))
      OBVIOUS
    <2>2. Max(same) \in same
      BY <2>1, <1>3, NatMax
    <2>3. l[Max(same)].index + 1 \in Nat
      BY <2>2
    <2>4. BackOff(next, m, l) = Min({next, l[Max(same)].index + 1})
      BY <1>3 DEF BackOff
    <2> QED
      BY <2>3, <2>4, <1>1
  <1>4. CASE ~ (m.conflict.term > 0 /\ same # {})
    <2>1. BackOff(next, m, l) = Max({Min({next, m.conflict.index}), 1})
      BY <1>4 DEF BackOff
    <2> QED
      BY <2>1, <1>1, <1>2
  <1> QED
    BY <1>3, <1>4
=============================================================================
