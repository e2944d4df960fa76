------------------------------ MODULE KVProofs ------------------------------
(* The key/value server answers as one copy of the map would, for any number *)
(* of servers, clerks, keys, requests, elections and restarts.               *)
EXTENDS KVServer, FiniteSetTheorems, SequenceTheorems, WellFoundedInduction, TLAPS

(* The two kinds of commands, as Request makes them.                         *)
GetCommand == [op : {"Get"}, key : Key]
WriteCommand == [op : {"Put", "Append"}, key : Key, client : Client, id : Nat]
Command == GetCommand \cup WriteCommand

Entry == [term : Nat, command : Command]
Values == [Key -> Seq(Nat)]
Dedup == [Client -> Nat \cup {Nil}]
Snapshots == [index : Nat, kv : Values, dedup : Dedup]
CallType == [pc : {"idle", "started", "waiting", "answered"}, server : Server \cup {Nil},
             index : Nat, term : Nat, value : Seq(Nat)]

(* Every variable keeps its type.                                            *)
ClerksTyped ==
    /\ current \in [Client -> Command \cup {Nil}] /\ since \in [Client -> Nat]
    /\ call \in [Client -> CallType] /\ requests \in 0..MaxRequests

RaftTyped ==
    /\ rlog \in [Server -> Seq(Entry)] /\ lead \in [Server -> Nat] /\ decided \in Seq(Entry)
    /\ elections \in 0..MaxElections /\ starts \in 0..MaxStarts

ServersTyped ==
    /\ next \in [Server -> Nat] /\ overtaken \in [Server -> Nat] /\ lastApplied \in [Server -> Nat]
    /\ kv \in [Server -> Values] /\ dedup \in [Server -> Dedup]
    /\ persister \in [Server -> Snapshots] /\ restarts \in 0..MaxRestarts

Typed == ClerksTyped /\ RaftTyped /\ ServersTyped

(* The command at place x of log l is a write of client c.                   *)
WriteOf(l, x, c) == ~IsGet(l[x].command) /\ l[x].command.client = c

(* A write of client c is not newer than what the clerk does now.            *)
NotAhead(m, c) ==
    m.id <= requests /\ (current[c] # Nil /\ ~IsGet(current[c]) => m = current[c] \/ m.id < current[c].id)

(* The writes of a clerk stand in a log in the order it was asked for them.  *)
Ordered(l) ==
    \A c \in Client : \A x \in DOMAIN l :
        WriteOf(l, x, c) =>
            /\ NotAhead(l[x].command, c)
            /\ \A y \in 1..x : WriteOf(l, y, c) =>
                   l[y].command = l[x].command \/ l[y].command.id < l[x].command.id

(* What is in a log with the term of a leader is in the log of that leader,  *)
(* at the same place.                                                        *)
FromLeaders(l) ==
    \A x \in DOMAIN l :
        /\ l[x].term \in 1..elections
        /\ \A i \in Server : lead[i] = l[x].term => x \in DOMAIN rlog[i] /\ rlog[i][x] = l[x]

LogOK(l) == Ordered(l) /\ FromLeaders(l) /\ Len(l) <= starts

ClerkOK(c) ==
    current[c] # Nil /\ ~IsGet(current[c]) => current[c].client = c /\ current[c].id \in 1..requests

(* A term has one leader, and the newest one holds everything decided.       *)
LeadersOK ==
    \A i \in Server :
        /\ lead[i] <= elections
        /\ \A j \in Server : lead[i] # 0 /\ lead[i] = lead[j] => i = j
        /\ Leads(i) => IsPrefix(decided, rlog[i])

(* d remembers the newest write of each client among the first n entries.    *)
Remembers(d, n) ==
    \A c \in Client :
        /\ d[c] = Nil => \A x \in 1..n : ~WriteOf(decided, x, c)
        /\ d[c] # Nil => /\ \E x \in 1..n : WriteOf(decided, x, c) /\ decided[x].command.id = d[c]
                         /\ \A x \in 1..n : WriteOf(decided, x, c) => decided[x].command.id <= d[c]

(* Server i, and its snapshot, are what a prefix of the decided entries      *)
(* makes of them; the server's log holds what it has applied.                *)
ServerOK(i) ==
    /\ next[i] <= Len(decided) /\ lastApplied[i] <= next[i] /\ overtaken[i] <= next[i]
    /\ next[i] <= Len(rlog[i]) /\ \A x \in 1..next[i] : rlog[i][x] = decided[x]
    /\ kv[i] = Replay(next[i]) /\ Remembers(dedup[i], next[i])
    /\ persister[i].index <= next[i]
    /\ persister[i].kv = Replay(persister[i].index) /\ Remembers(persister[i].dedup, persister[i].index)

(* The entry that a call waits for.                                          *)
Awaited(c) == [term |-> call[c].term, command |-> current[c]]

(* What the reply OK of a call says is so.                                   *)
Right(c) ==
    IF IsGet(current[c])
    THEN \E n \in since[c]..Len(decided) : call[c].value = Replay(n)[current[c].key]
    ELSE \E x \in 1..Len(decided) : Decided(x) = current[c]

(* A call that is under way at a leader has its entry in that leader's log,  *)
(* and the entry was decided after the clerk was asked, if it is decided.    *)
CallOK(c) ==
    /\ since[c] <= Len(decided) /\ call[c].index <= starts
    /\ call[c].pc # "idle" => current[c] # Nil
    /\ call[c].pc \in {"started", "waiting"} =>
         LET i == call[c].server
             x == call[c].index IN
         /\ i \in Server /\ x > 0
         /\ lead[i] # 0 => x <= Len(rlog[i]) /\ rlog[i][x] = Awaited(c)
         /\ x <= since[c] => decided[x] # Awaited(c)
    /\ call[c].pc = "answered" => Right(c)

(* The inductive invariant.                                                  *)
KVInv ==
    /\ Typed
    /\ LogOK(decided) /\ (\A i \in Server : LogOK(rlog[i])) /\ LeadersOK
    /\ \A i \in Server : ServerOK(i)
    /\ \A c \in Client : ClerkOK(c) /\ CallOK(c)

-----------------------------------------------------------------------------
(* Ranks in sets of places.                                                  *)

(* Every set of numbers has a least one.                                     *)
LEMMA LeastNat ==
    ASSUME NEW S \in SUBSET Nat, S # {}
    PROVE  \E n \in S : \A m \in S : n <= m
  <1>1. PICK x \in S : \A y \in S : ~ (<<y, x>> \in OpToRel(<, Nat))
    BY WFMin, NatLessThanWellFounded
  <1>2. ASSUME NEW y \in S, y < x PROVE FALSE
    <2>1. <<y, x>> \in Nat \X Nat
      OBVIOUS
    <2>2. <<y, x>> \in OpToRel(<, Nat)
      BY <2>1, <1>2 DEF OpToRel
    <2> QED
      BY <2>2, <1>1
  <1>3. \A y \in S : x <= y
    BY <1>2
  <1> QED
    BY <1>3

(* Places up to n have a last one.                                           *)
LEMMA LastPlace ==
    ASSUME NEW n \in Nat, NEW T \in SUBSET (1..n), T # {}
    PROVE  \E x \in T : \A y \in T : y <= x
  <1> DEFINE above == {m \in Nat : \A y \in T : y <= m}
  <1>1. n \in above
    OBVIOUS
  <1>2. PICK m \in above : \A k \in above : m <= k
    BY <1>1, LeastNat
  <1>3. CASE m \in T
    BY <1>2, <1>3
  <1>4. CASE m \notin T
    <2>1. PICK t \in T : t \in 1..n /\ t <= m
      BY <1>2
    <2>2. m - 1 \in Nat /\ \A y \in T : y <= m - 1
      BY <2>1, <1>2, <1>4
    <2>3. m <= m - 1
      BY <2>2, <1>2
    <2> QED
      BY <2>3, <1>2
  <1> QED
    BY <1>3, <1>4

(* The places up to x.                                                       *)
UpTo(T, x) == {y \in T : y <= x}

(* Places are finite in number.                                              *)
LEMMA PlacesFinite ==
    ASSUME NEW n \in Nat, NEW T \in SUBSET (1..n)
    PROVE  /\ IsFiniteSet(T) /\ Cardinality(T) \in Nat
           /\ \A x : IsFiniteSet(UpTo(T, x)) /\ Cardinality(UpTo(T, x)) \in Nat
                     /\ Cardinality(UpTo(T, x)) <= Cardinality(T)
  <1>1. IsFiniteSet(1..n)
    BY FS_Interval
  <1>2. IsFiniteSet(T) /\ Cardinality(T) \in Nat
    BY <1>1, FS_Subset, FS_CardinalityType
  <1>3. ASSUME NEW x
        PROVE  IsFiniteSet(UpTo(T, x)) /\ Cardinality(UpTo(T, x)) \in Nat /\ Cardinality(UpTo(T, x)) <= Cardinality(T)
    <2>1. UpTo(T, x) \subseteq T
      BY DEF UpTo
    <2> QED
      BY <2>1, <1>2, FS_Subset, FS_CardinalityType
  <1> QED
    BY <1>2, <1>3

(* A place behind all others has the last rank, and changes no other.        *)
LEMMA RankOfNext ==
    ASSUME NEW n \in Nat, NEW T \in SUBSET (1..n), NEW z \in Nat, \A y \in T : y < z
    PROVE  /\ IsFiniteSet(T \cup {z}) /\ Cardinality(T \cup {z}) = Cardinality(T) + 1
           /\ Cardinality(UpTo(T \cup {z}, z)) = Cardinality(T) + 1
           /\ \A x \in T : UpTo(T \cup {z}, x) = UpTo(T, x)
  <1>1. IsFiniteSet(T) /\ z \notin T
    <2>1. IsFiniteSet(T)
      BY PlacesFinite
    <2>2. ~ (z < z)
      OBVIOUS
    <2> QED
      BY <2>1, <2>2
  <1>2. IsFiniteSet(T \cup {z}) /\ Cardinality(T \cup {z}) = Cardinality(T) + 1
    BY <1>1, FS_AddElement
  <1>3. UpTo(T \cup {z}, z) = T \cup {z}
    <2>1. \A y \in T \cup {z} : y <= z
      <3>1. \A y \in T : y \in Nat /\ y < z
        OBVIOUS
      <3> QED
        BY <3>1
    <2> QED
      BY <2>1 DEF UpTo
  <1>4. ASSUME NEW x \in T PROVE UpTo(T \cup {z}, x) = UpTo(T, x)
    <2>1. x < z /\ x \in Nat
      OBVIOUS
    <2>2. ~ (z <= x)
      BY <2>1
    <2> QED
      BY <2>2 DEF UpTo
  <1> QED
    BY <1>2, <1>3, <1>4

(* Some place has each rank.                                                 *)
RanksTaken(T) == \A p \in 1..Cardinality(T) : \E x \in T : Cardinality(UpTo(T, x)) = p

(* By the least number of places for which none would have some rank.        *)
LEMMA RankExists ==
    ASSUME NEW n \in Nat, NEW T \in SUBSET (1..n)
    PROVE  RanksTaken(T)
  <1> DEFINE Bad == {k \in Nat : \E S \in SUBSET (1..n) : Cardinality(S) = k /\ ~ RanksTaken(S)}
  <1> SUFFICES ASSUME ~ RanksTaken(T) PROVE FALSE
    OBVIOUS
  <1>1. Cardinality(T) \in Bad
    BY PlacesFinite
  <1>2. PICK k \in Bad : \A j \in Bad : k <= j
    BY <1>1, LeastNat
  <1>3. PICK S \in SUBSET (1..n) : Cardinality(S) = k /\ ~ RanksTaken(S)
    BY <1>2
  <1>4. S # {}
    <2>1. Cardinality({}) = 0
      BY FS_EmptySet
    <2> QED
      BY <2>1, <1>3 DEF RanksTaken
  <1>5. PICK z \in S : \A y \in S : y <= z
    BY <1>4, LastPlace
  <1>6. PICK R \in SUBSET (1..n) : R = S \ {z}
    BY <1>3
  <1>7. S = R \cup {z} /\ z \in Nat /\ \A y \in R : y < z
    <2>1. S = R \cup {z} /\ \A y \in R : y <= z /\ y # z /\ y \in 1..n
      BY <1>3, <1>5, <1>6
    <2>2. z \in 1..n
      BY <1>3, <1>5
    <2> QED
      BY <2>1, <2>2
  <1>8. /\ Cardinality(S) = Cardinality(R) + 1 /\ Cardinality(UpTo(S, z)) = Cardinality(S)
        /\ \A x \in R : UpTo(S, x) = UpTo(R, x)
    <2>1. /\ Cardinality(R \cup {z}) = Cardinality(R) + 1
          /\ Cardinality(UpTo(R \cup {z}, z)) = Cardinality(R) + 1
          /\ \A x \in R : UpTo(R \cup {z}, x) = UpTo(R, x)
      BY <1>7, RankOfNext
    <2> QED
      BY <2>1, <1>7
  <1>9. Cardinality(R) \in Nat
    BY PlacesFinite
  <1>10. RanksTaken(R)
    <2> SUFFICES ASSUME ~ RanksTaken(R) PROVE FALSE
      OBVIOUS
    <2>1. Cardinality(R) \in Bad
      BY <1>9
    <2>2. k <= Cardinality(R)
      BY <2>1, <1>2
    <2> QED
      BY <2>2, <1>3, <1>8, <1>9
  <1>11. ASSUME NEW p \in 1..Cardinality(S) PROVE \E x \in S : Cardinality(UpTo(S, x)) = p
    <2>1. CASE p = Cardinality(S)
      BY <2>1, <1>5, <1>8
    <2>2. CASE p # Cardinality(S)
      <3>1. p \in 1..Cardinality(R)
        BY <2>2, <1>8, <1>9
      <3>2. PICK x \in R : Cardinality(UpTo(R, x)) = p
        BY <3>1, <1>10 DEF RanksTaken
      <3> QED
        BY <3>2, <1>7, <1>8
    <2> QED
      BY <2>1, <2>2
  <1> QED
    BY <1>3, <1>11 DEF RanksTaken

(* Only one place has it.                                                    *)
LEMMA RankUnique ==
    ASSUME NEW n \in Nat, NEW T \in SUBSET (1..n), NEW x \in T, NEW y \in T,
           Cardinality(UpTo(T, x)) = Cardinality(UpTo(T, y))
    PROVE  x = y
  <1>0. x \in Nat /\ y \in Nat /\ T \subseteq Nat
    OBVIOUS
  <1>1. ASSUME NEW u \in T, NEW v \in T, u < v, Cardinality(UpTo(T, u)) = Cardinality(UpTo(T, v)) PROVE FALSE
    <2>1. UpTo(T, u) \subseteq UpTo(T, v)
      <3>1. u \in Nat /\ v \in Nat
        OBVIOUS
      <3>2. \A w \in T : w <= u => w <= v
        BY <3>1, <1>1
      <3> QED
        BY <3>2 DEF UpTo
    <2>2. IsFiniteSet(UpTo(T, v))
      BY PlacesFinite
    <2>3. UpTo(T, u) = UpTo(T, v)
      BY <2>1, <2>2, <1>1, FS_Subset
    <2>4. v \in UpTo(T, v)
      BY <1>0 DEF UpTo
    <2>5. v <= u
      BY <2>3, <2>4 DEF UpTo
    <2> QED
      BY <2>5, <1>0, <1>1
  <1>2. x < y \/ y < x \/ x = y
    BY <1>0
  <1> QED
    BY <1>1, <1>2

(* The place with rank p.                                                    *)
Ranked(T, p) == CHOOSE x \in T : Cardinality(UpTo(T, x)) = p

(* It is one of the places, and any place with that rank is it.              *)
LEMMA RankedIs ==
    ASSUME NEW n \in Nat, NEW T \in SUBSET (1..n), NEW p \in 1..Cardinality(T)
    PROVE  /\ Ranked(T, p) \in T
           /\ \A x \in T : Cardinality(UpTo(T, x)) = p => Ranked(T, p) = x
  <1>1. \E x \in T : Cardinality(UpTo(T, x)) = p
    BY RankExists DEF RanksTaken
  <1>2. Ranked(T, p) \in T /\ Cardinality(UpTo(T, Ranked(T, p))) = p
    BY <1>1 DEF Ranked
  <1> QED
    BY <1>2, RankUnique

(* Content in these words.                                                   *)
LEMMA ContentIs ==
    ASSUME NEW T
    PROVE  Content(T) = [p \in 1..Cardinality(T) |-> Decided(Ranked(T, p)).id]
  <1> QED
    BY DEF Content, Ranked, UpTo

(* Content is a sequence of ids.                                             *)
LEMMA ContentTyped ==
    ASSUME NEW n \in Nat, NEW T \in SUBSET (1..n), \A x \in T : Decided(x).id \in Nat
    PROVE  Content(T) \in Seq(Nat) /\ Len(Content(T)) = Cardinality(T)
  <1>1. \A p \in 1..Cardinality(T) : Decided(Ranked(T, p)).id \in Nat
    BY RankedIs
  <1>2. Content(T) \in [1..Cardinality(T) -> Nat] /\ Cardinality(T) \in Nat
    BY <1>1, ContentIs, PlacesFinite
  <1> QED
    BY <1>2

(* A write behind all others is added at the end.                            *)
LEMMA ContentNext ==
    ASSUME NEW n \in Nat, NEW T \in SUBSET (1..n), \A x \in T : Decided(x).id \in Nat,
           NEW z \in Nat, z = n + 1, Decided(z).id \in Nat
    PROVE  Content(T \cup {z}) = Append(Content(T), Decided(z).id)
  <1>1. PICK k \in Nat : k = Cardinality(T)
    BY PlacesFinite
  <1>2. \A y \in T : y < z
    OBVIOUS
  <1>3. PICK S \in SUBSET (1..z) : S = T \cup {z}
    <2>1. T \cup {z} \subseteq 1..z
      OBVIOUS
    <2> QED
      BY <2>1
  <1>4. /\ Cardinality(S) = k + 1 /\ Cardinality(UpTo(S, z)) = k + 1
        /\ \A x \in T : UpTo(S, x) = UpTo(T, x)
    <2>1. /\ Cardinality(T \cup {z}) = Cardinality(T) + 1
          /\ Cardinality(UpTo(T \cup {z}, z)) = Cardinality(T) + 1
          /\ \A x \in T : UpTo(T \cup {z}, x) = UpTo(T, x)
      BY <1>2, RankOfNext
    <2> QED
      BY <2>1, <1>1, <1>3
  <1>5. Ranked(S, k + 1) = z
    <2>1. z \in S /\ k + 1 \in 1..Cardinality(S)
      BY <1>1, <1>3, <1>4
    <2> QED
      BY <2>1, <1>4, RankedIs
  <1>6. ASSUME NEW p \in 1..k PROVE Ranked(S, p) = Ranked(T, p)
    <2>1. p \in 1..Cardinality(T) /\ p \in 1..Cardinality(S)
      BY <1>1, <1>4
    <2>2. PICK x \in T : Cardinality(UpTo(T, x)) = p
      BY <2>1, RankExists DEF RanksTaken
    <2>3. x \in S /\ Cardinality(UpTo(S, x)) = p
      BY <2>2, <1>3, <1>4
    <2>4. Ranked(T, p) = x
      BY <2>1, <2>2, RankedIs
    <2>5. Ranked(S, p) = x
      BY <2>1, <2>3, RankedIs
    <2> QED
      BY <2>4, <2>5
  <1>7. Content(S) = [p \in 1..(k + 1) |-> Decided(Ranked(S, p)).id]
    BY <1>4, ContentIs
  <1>8. Content(T) = [p \in 1..k |-> Decided(Ranked(T, p)).id]
    BY <1>1, ContentIs
  <1>9. Content(T) \in Seq(Nat) /\ Len(Content(T)) = k
    BY <1>1, ContentTyped
  <1>10. PICK s \in Seq(Nat) : s = Content(T)
    BY <1>9
  <1>11. PICK e \in Nat : e = Decided(z).id
    OBVIOUS
  <1>12. Append(s, e) = [p \in 1..(k + 1) |-> IF p = k + 1 THEN e ELSE s[p]]
    <2>1. /\ Append(s, e) \in Seq(Nat) /\ Len(Append(s, e)) = k + 1
          /\ \A p \in 1..Len(s) : Append(s, e)[p] = s[p]
          /\ Append(s, e)[Len(s) + 1] = e
      BY <1>9, <1>10, AppendProperties
    <2>2. Append(s, e) = [p \in 1..(k + 1) |-> Append(s, e)[p]]
      BY <2>1, LenProperties
    <2>3. \A p \in 1..(k + 1) : p = k + 1 \/ p \in 1..k
      BY <1>1
    <2> QED
      BY <2>1, <2>2, <2>3, <1>9, <1>10
  <1>13. \A p \in 1..(k + 1) : Decided(Ranked(S, p)).id = IF p = k + 1 THEN e ELSE s[p]
    <2>1. \A p \in 1..k : s[p] = Decided(Ranked(S, p)).id
      BY <1>6, <1>8, <1>10
    <2>2. \A p \in 1..(k + 1) : p = k + 1 \/ p \in 1..k
      BY <1>1
    <2> QED
      BY <2>1, <2>2, <1>5, <1>11
  <1> QED
    BY <1>3, <1>7, <1>10, <1>11, <1>12, <1>13

-----------------------------------------------------------------------------
(* What the decided entries stand for, entry by entry.                       *)

(* The types of a decided entry.                                             *)
LEMMA DecidedTyped ==
    ASSUME Typed, NEW x \in 1..Len(decided)
    PROVE  /\ decided[x] \in Entry /\ Decided(x) \in Command /\ Decided(x).key \in Key
           /\ ~ IsGet(Decided(x)) => Decided(x) \in WriteCommand /\ Decided(x).id \in Nat
                                     /\ Decided(x).client \in Client /\ Decided(x).op \in {"Put", "Append"}
  <1>1. decided \in Seq(Entry)
    BY DEF Typed, RaftTyped
  <1>2. decided[x] \in Entry
    BY <1>1
  <1>3. Decided(x) \in Command
    BY <1>2 DEF Decided, Entry
  <1> QED
    BY <1>2, <1>3 DEF Command, GetCommand, WriteCommand, IsGet

(* A write stands at x for the first time.                                   *)
FirstAt(x) == ~ IsGet(Decided(x)) /\ \A y \in 1..(x - 1) : Decided(y) # Decided(x)

(* The writes that stand first are places up to n, all with ids.             *)
LEMMA FirstsTyped ==
    ASSUME Typed, NEW n \in Nat, n <= Len(decided)
    PROVE  /\ Firsts(n) \in SUBSET (1..n) /\ \A x \in Firsts(n) : FirstAt(x) /\ Decided(x).id \in Nat
           /\ \A k : Live(n, k) \in SUBSET (1..n) /\ \A x \in Live(n, k) : Decided(x).id \in Nat
  <1>0. Len(decided) \in Nat
    BY DEF Typed, RaftTyped
  <1>1. Firsts(n) \subseteq 1..n
    BY DEF Firsts
  <1>2. ASSUME NEW x \in Firsts(n) PROVE FirstAt(x) /\ Decided(x).id \in Nat
    <2>1. FirstAt(x) /\ x \in 1..n
      BY DEF Firsts, FirstAt
    <2>2. x \in 1..Len(decided)
      BY <2>1, <1>0
    <2> QED
      BY <2>1, <2>2, DecidedTyped DEF FirstAt
  <1>3. \A k : Live(n, k) \subseteq Firsts(n)
    BY DEF Live
  <1> QED
    BY <1>1, <1>2, <1>3

(* The next entry is a first place or adds none.                             *)
LEMMA FirstsNext ==
    ASSUME NEW n \in Nat, NEW x \in Nat, x = n + 1
    PROVE  Firsts(x) = IF FirstAt(x) THEN Firsts(n) \cup {x} ELSE Firsts(n)
  <1>1. 1..x = (1..n) \cup {x}
    OBVIOUS
  <1>2. \A y : y \in Firsts(x) <=> y \in 1..x /\ FirstAt(y)
    BY DEF Firsts, FirstAt
  <1>3. \A y : y \in Firsts(n) <=> y \in 1..n /\ FirstAt(y)
    BY DEF Firsts, FirstAt
  <1>4. CASE FirstAt(x)
    BY <1>1, <1>2, <1>3, <1>4
  <1>5. CASE ~ FirstAt(x)
    BY <1>1, <1>2, <1>3, <1>5
  <1> QED
    BY <1>4, <1>5

(* A Put starts its key anew, an Append adds to it.                          *)
LEMMA LiveNext ==
    ASSUME Typed, NEW n \in Nat, NEW x \in Nat, x = n + 1, x <= Len(decided), FirstAt(x), NEW k
    PROVE  Live(x, k) = IF Decided(x).key # k THEN Live(n, k)
                        ELSE IF Decided(x).op = "Put" THEN {x} ELSE Live(n, k) \cup {x}
  <1>1. Firsts(x) = Firsts(n) \cup {x}
    BY FirstsNext
  <1>2. Len(decided) \in Nat
    BY DEF Typed, RaftTyped
  <1>3. \A y \in Firsts(n) : y \in Nat /\ y < x
    <2>1. Firsts(n) \subseteq 1..n
      BY DEF Firsts
    <2> QED
      BY <2>1
  <1>4. \A y : y \in Live(x, k) <=> /\ y \in Firsts(x) /\ Decided(y).key = k
                                    /\ \A z \in Firsts(x) : Decided(z).key = k /\ Decided(z).op = "Put" => z <= y
    BY DEF Live
  <1>5. \A y : y \in Live(n, k) <=> /\ y \in Firsts(n) /\ Decided(y).key = k
                                    /\ \A z \in Firsts(n) : Decided(z).key = k /\ Decided(z).op = "Put" => z <= y
    BY DEF Live
  <1>6. \A y \in Firsts(n) : ~ (x <= y) /\ y <= x
    BY <1>3
  <1>7. x <= x /\ x \notin Firsts(n)
    BY <1>6
  <1>8. CASE Decided(x).key # k
    BY <1>1, <1>4, <1>5, <1>7, <1>8
  <1>9. CASE Decided(x).key = k /\ Decided(x).op = "Put"
    <2>1. \A y : y \in Live(x, k) <=> y = x
      BY <1>1, <1>4, <1>6, <1>7, <1>9
    <2> QED
      BY <2>1, <1>9
  <1>10. CASE Decided(x).key = k /\ Decided(x).op # "Put"
    <2>1. \A y : y \in Live(x, k) <=> y = x \/ y \in Live(n, k)
      BY <1>1, <1>4, <1>5, <1>6, <1>7, <1>10
    <2> QED
      BY <2>1, <1>10
  <1> QED
    BY <1>8, <1>9, <1>10

(* An entry that repeats a write, or reads, stands for nothing.              *)
LEMMA ReplayRepeated ==
    ASSUME NEW n \in Nat, NEW x \in Nat, x = n + 1, ~ FirstAt(x)
    PROVE  Replay(x) = Replay(n)
  <1>1. Firsts(x) = Firsts(n)
    BY FirstsNext
  <1>2. \A k : Live(x, k) = Live(n, k)
    BY <1>1 DEF Live
  <1> QED
    BY <1>2 DEF Replay

(* A write that stands first does what apply does.                           *)
LEMMA ReplayNext ==
    ASSUME Typed, NEW n \in Nat, NEW x \in Nat, x = n + 1, x <= Len(decided), FirstAt(x),
           NEW m \in WriteCommand, m = Decided(x)
    PROVE  Replay(x) = [Replay(n) EXCEPT ![m.key] = Written(@, m)]
  <1>0. n <= Len(decided) /\ m.id \in Nat /\ m.op \in {"Put", "Append"} /\ m.key \in Key /\ Len(decided) \in Nat
    <2>1. Len(decided) \in Nat
      BY DEF Typed, RaftTyped
    <2> QED
      BY <2>1 DEF WriteCommand
  <1>1. ASSUME NEW k \in Key
        PROVE  Content(Live(x, k)) = IF k = m.key THEN Written(Content(Live(n, k)), m) ELSE Content(Live(n, k))
    <2>1. Live(n, k) \in SUBSET (1..n) /\ \A y \in Live(n, k) : Decided(y).id \in Nat
      BY <1>0, FirstsTyped
    <2>2. CASE k # m.key
      BY <2>2, LiveNext
    <2>3. CASE k = m.key /\ m.op = "Put"
      <3>1. Live(x, k) = {x}
        BY <2>3, LiveNext
      <3>2. Content({} \cup {x}) = Append(Content({}), m.id)
        BY <1>0, ContentNext
      <3>3. Content({}) = << >>
        <4>1. Content({}) \in Seq(Nat) /\ Len(Content({})) = Cardinality({})
          BY ContentTyped
        <4>2. Cardinality({}) = 0
          BY FS_EmptySet
        <4> QED
          BY <4>1, <4>2, EmptySeq
      <3>4. Append(<< >>, m.id) = <<m.id>> /\ {} \cup {x} = {x}
        OBVIOUS
      <3> QED
        BY <3>1, <3>2, <3>3, <3>4, <2>3 DEF Written
    <2>4. CASE k = m.key /\ m.op # "Put"
      <3>1. Live(x, k) = Live(n, k) \cup {x}
        <4>1. Live(x, k) = IF Decided(x).key # k THEN Live(n, k)
                           ELSE IF Decided(x).op = "Put" THEN {x} ELSE Live(n, k) \cup {x}
          BY LiveNext
        <4> QED
          BY <4>1, <2>4
      <3>2. Content(Live(n, k) \cup {x}) = Append(Content(Live(n, k)), m.id)
        BY <2>1, <1>0, ContentNext
      <3> QED
        BY <3>1, <3>2, <2>4 DEF Written
    <2> QED
      BY <2>2, <2>3, <2>4
  <1> QED
    BY <1>0, <1>1 DEF Replay

(* More entries change nothing about what the first ones stand for.          *)
LEMMA ReplaySame ==
    ASSUME NEW n \in Nat, \A x \in 1..n : decided'[x] = decided[x]
    PROVE  Replay(n)' = Replay(n)
  <1>1. \A x \in 1..n : Decided(x)' = Decided(x)
    BY DEF Decided
  <1>2. \A x \in 1..n : \A y \in 1..(x - 1) : y \in 1..n
    OBVIOUS
  <1>3. Firsts(n)' = Firsts(n)
    BY <1>1, <1>2 DEF Firsts
  <1>4. Firsts(n) \subseteq 1..n
    BY DEF Firsts
  <1>5. \A k : Live(n, k)' = Live(n, k)
    BY <1>1, <1>3, <1>4 DEF Live
  <1>6. ASSUME NEW T \in SUBSET (1..n) PROVE Content(T)' = Content(T)
    <2>1. Content(T)' = [p \in 1..Cardinality(T) |-> Decided(Ranked(T, p))'.id]
      BY DEF Content, Ranked, UpTo
    <2>2. \A p \in 1..Cardinality(T) : Ranked(T, p) \in 1..n
      BY RankedIs
    <2>3. \A p \in 1..Cardinality(T) : Decided(Ranked(T, p))' = Decided(Ranked(T, p))
      BY <2>2, <1>1
    <2> QED
      BY <2>1, <2>3, ContentIs
  <1>7. \A k : Live(n, k) \in SUBSET (1..n)
    BY <1>4 DEF Live
  <1>8. ASSUME NEW k PROVE Content(Live(n, k))' = Content(Live(n, k))
    <2>1. PICK T \in SUBSET (1..n) : T = Live(n, k)
      BY <1>7
    <2>2. T = Live(n, k)'
      BY <2>1, <1>5
    <2>3. Content(T)' = Content(T)
      BY <1>6
    <2>4. Content(Live(n, k))' = Content(T)'
      BY <2>2 DEF Content
    <2> QED
      BY <2>1, <2>3, <2>4
  <1> QED
    BY <1>8 DEF Replay

-----------------------------------------------------------------------------
(* What a step leaves alone.                                                 *)

(* Nothing decided is lost.                                                  *)
DecidedKept == Len(decided) <= Len(decided') /\ \A x \in 1..Len(decided) : decided'[x] = decided[x]

(* Who leads after the step led before, and its log lost nothing.            *)
LogsKept ==
    \A i \in Server : lead'[i] # 0 =>
        /\ lead'[i] = lead[i] /\ Len(rlog[i]) <= Len(rlog'[i])
        /\ \A x \in 1..Len(rlog[i]) : rlog'[i][x] = rlog[i][x]

(* The parts of the invariant in one place.                                  *)
LEMMA KVFacts ==
    ASSUME KVInv
    PROVE  /\ Typed /\ LogOK(decided) /\ (\A i \in Server : LogOK(rlog[i])) /\ LeadersOK
           /\ (\A i \in Server : ServerOK(i)) /\ (\A c \in Client : ClerkOK(c) /\ CallOK(c))
  <1> QED
    BY DEF KVInv

(* The types of the logs.                                                    *)
LEMMA LogsTyped ==
    ASSUME Typed
    PROVE  /\ decided \in Seq(Entry) /\ Len(decided) \in Nat /\ DOMAIN decided = 1..Len(decided)
           /\ \A i \in Server : /\ rlog[i] \in Seq(Entry) /\ Len(rlog[i]) \in Nat
                                /\ DOMAIN rlog[i] = 1..Len(rlog[i]) /\ lead[i] \in Nat
                                /\ next[i] \in Nat /\ lastApplied[i] \in Nat /\ overtaken[i] \in Nat
           /\ elections \in Nat /\ starts \in Nat /\ requests \in Nat /\ restarts \in Nat
           /\ MaxElections \in Nat /\ MaxStarts \in Nat /\ MaxRequests \in Nat /\ MaxRestarts \in Nat
  <1>1. MaxElections \in Nat /\ MaxStarts \in Nat /\ MaxRequests \in Nat /\ MaxRestarts \in Nat
    BY KVAssumption
  <1>2. elections \in Nat /\ starts \in Nat /\ requests \in Nat /\ restarts \in Nat
    BY <1>1 DEF Typed, RaftTyped, ClerksTyped, ServersTyped
  <1>3. decided \in Seq(Entry) /\ \A i \in Server : rlog[i] \in Seq(Entry) /\ lead[i] \in Nat
    BY DEF Typed, RaftTyped
  <1>4. \A i \in Server : next[i] \in Nat /\ lastApplied[i] \in Nat /\ overtaken[i] \in Nat
    BY DEF Typed, ServersTyped
  <1> QED
    BY <1>1, <1>2, <1>3, <1>4, LenProperties

(* The types of a call.                                                      *)
LEMMA CallTyped ==
    ASSUME Typed, NEW c \in Client
    PROVE  /\ call[c] \in CallType /\ call[c].index \in Nat /\ call[c].term \in Nat /\ since[c] \in Nat
           /\ current[c] \in Command \cup {Nil}
  <1>1. call[c] \in CallType /\ since[c] \in Nat /\ current[c] \in Command \cup {Nil}
    BY DEF Typed, ClerksTyped
  <1> QED
    BY <1>1 DEF CallType

(* An answer stays right.                                                    *)
LEMMA RightStays ==
    ASSUME Typed, DecidedKept, Len(decided') \in Nat, NEW c \in Client, Right(c),
           call'[c] = call[c], current'[c] = current[c], since'[c] = since[c]
    PROVE  Right(c)'
  <1>0. Len(decided) \in Nat /\ since[c] \in Nat /\ Len(decided) <= Len(decided')
    BY LogsTyped, CallTyped DEF DecidedKept
  <1>1. CASE IsGet(current[c])
    <2>1. PICK n \in since[c]..Len(decided) : call[c].value = Replay(n)[current[c].key]
      BY <1>1 DEF Right
    <2>2. n \in Nat /\ 1..n \subseteq 1..Len(decided) /\ n \in since[c]..Len(decided')
      BY <2>1, <1>0
    <2>3. Replay(n)' = Replay(n)
      BY <2>2, ReplaySame DEF DecidedKept
    <2>4. PICK r : r = Replay(n)
      OBVIOUS
    <2>5. call'[c].value = Replay(n)'[current'[c].key]
      BY <2>1, <2>3
    <2>6. n \in since'[c]..Len(decided') /\ IsGet(current[c])'
      BY <2>2, <1>1 DEF IsGet
    <2> QED
      BY <2>5, <2>6 DEF Right
  <1>2. CASE ~ IsGet(current[c])
    <2>1. PICK x \in 1..Len(decided) : Decided(x) = current[c]
      BY <1>2 DEF Right
    <2>2. x \in 1..Len(decided') /\ Decided(x)' = current'[c]
      BY <2>1, <1>0 DEF DecidedKept, Decided
    <2>3. ~ IsGet(current[c])'
      BY <1>2 DEF IsGet
    <2> QED
      BY <2>2, <2>3 DEF Right
  <1> QED
    BY <1>1, <1>2

(* A call that the step leaves alone stays in order.                         *)
LEMMA CallStays ==
    ASSUME KVInv, DecidedKept, Len(decided') \in Nat, LogsKept, starts <= starts', starts' \in Nat,
           \A i \in Server : Len(rlog'[i]) \in Nat,
           NEW c \in Client, call'[c] = call[c], current'[c] = current[c], since'[c] = since[c]
    PROVE  CallOK(c)'
  <1>0. Typed /\ CallOK(c)
    BY KVFacts
  <1>1. PICK d : d = call[c]
    OBVIOUS
  <1>2. /\ d.index \in Nat /\ since[c] \in Nat /\ Len(decided) \in Nat /\ starts \in Nat
        /\ \A i \in Server : Len(rlog[i]) \in Nat
    BY <1>0, <1>1, CallTyped, LogsTyped
  <1>3. since[c] <= Len(decided) /\ d.index <= starts /\ (d.pc # "idle" => current[c] # Nil)
    BY <1>0, <1>1 DEF CallOK
  <1>4. since'[c] <= Len(decided') /\ d.index <= starts'
    BY <1>2, <1>3 DEF DecidedKept
  <1>5. Awaited(c)' = Awaited(c)
    BY DEF Awaited
  <1>6. ASSUME d.pc \in {"started", "waiting"}
        PROVE  /\ d.server \in Server /\ d.index > 0
               /\ lead'[d.server] # 0 => d.index <= Len(rlog'[d.server]) /\ rlog'[d.server][d.index] = Awaited(c)
               /\ d.index <= since[c] => decided'[d.index] # Awaited(c)
    <2>1. /\ d.server \in Server /\ d.index > 0
          /\ lead[d.server] # 0 => d.index <= Len(rlog[d.server]) /\ rlog[d.server][d.index] = Awaited(c)
          /\ d.index <= since[c] => decided[d.index] # Awaited(c)
      BY <1>0, <1>1, <1>6 DEF CallOK
    <2>2. PICK i \in Server : i = d.server
      BY <2>1
    <2>3. d.index <= since[c] => d.index \in 1..Len(decided)
      BY <2>1, <1>2, <1>3
    <2>4. ASSUME lead'[i] # 0 PROVE d.index <= Len(rlog'[i]) /\ rlog'[i][d.index] = Awaited(c)
      <3>1. /\ lead[i] # 0 /\ Len(rlog[i]) <= Len(rlog'[i])
            /\ \A x \in 1..Len(rlog[i]) : rlog'[i][x] = rlog[i][x]
        BY <2>4 DEF LogsKept
      <3>2. d.index \in 1..Len(rlog[i]) /\ rlog[i][d.index] = Awaited(c)
        BY <3>1, <2>1, <2>2, <1>2
      <3> QED
        BY <3>1, <3>2, <1>2
    <2> QED
      BY <2>1, <2>2, <2>3, <2>4 DEF DecidedKept
  <1>7. ASSUME d.pc = "answered" PROVE Right(c)'
    <2>1. Right(c)
      BY <1>0, <1>1, <1>7 DEF CallOK
    <2> QED
      BY <2>1, <1>0, RightStays
  <1> QED
    BY <1>1, <1>3, <1>4, <1>5, <1>6, <1>7 DEF CallOK

(* A clerk without a call.                                                   *)
LEMMA CallIdle ==
    ASSUME NEW c \in Client, call'[c].pc = "idle", call'[c].index <= starts', since'[c] <= Len(decided')
    PROVE  CallOK(c)'
  <1> QED
    BY DEF CallOK

(* Idle is a call.                                                           *)
LEMMA IdleTyped == Idle \in CallType /\ Idle.pc = "idle" /\ Idle.index = 0
  <1>1. << >> \in Seq(Nat)
    OBVIOUS
  <1> QED
    BY <1>1 DEF Idle, CallType

(* A server that the step leaves alone, apart from a log that keeps what was *)
(* applied.                                                                  *)
LEMMA ServerStays ==
    ASSUME KVInv, DecidedKept, Len(decided') \in Nat, NEW i \in Server,
           next'[i] = next[i], lastApplied'[i] = lastApplied[i], overtaken'[i] = overtaken[i],
           kv'[i] = kv[i], dedup'[i] = dedup[i], persister'[i] = persister[i],
           next[i] <= Len(rlog'[i]), \A x \in 1..next[i] : rlog'[i][x] = decided[x]
    PROVE  ServerOK(i)'
  <1>0. Typed /\ ServerOK(i)
    BY KVFacts
  <1>1. /\ next[i] \in Nat /\ Len(decided) \in Nat /\ persister[i] \in Snapshots
    BY <1>0, LogsTyped DEF Typed, ServersTyped
  <1>2. PICK s \in Snapshots : s = persister[i]
    BY <1>1
  <1>3. s.index \in Nat
    BY DEF Snapshots
  <1>4. /\ next[i] <= Len(decided) /\ lastApplied[i] <= next[i] /\ overtaken[i] <= next[i] /\ s.index <= next[i]
        /\ kv[i] = Replay(next[i]) /\ Remembers(dedup[i], next[i])
        /\ s.kv = Replay(s.index) /\ Remembers(s.dedup, s.index)
    BY <1>0, <1>2 DEF ServerOK
  <1>5. ASSUME NEW n \in Nat, n <= next[i]
        PROVE  Replay(n)' = Replay(n) /\ \A x \in 1..n : decided'[x] = decided[x]
    <2>1. \A x \in 1..n : decided'[x] = decided[x]
      BY <1>1, <1>4, <1>5 DEF DecidedKept
    <2> QED
      BY <2>1, ReplaySame
  <1>6. ASSUME NEW n \in Nat, n <= next[i], NEW d, Remembers(d, n) PROVE Remembers(d, n)'
    BY <1>5, <1>6, SMTT(20) DEF Remembers, WriteOf
  <1>7. PICK n \in Nat : n = next[i]
    BY <1>1
  <1>8. kv'[i] = Replay(n)' /\ Remembers(dedup[i], n)'
    <2>1. PICK d : d = dedup[i]
      OBVIOUS
    <2>2. Remembers(d, n)'
      BY <2>1, <1>4, <1>6, <1>7
    <2>3. d = dedup'[i]
      BY <2>1
    <2> QED
      BY <2>2, <2>3, <1>4, <1>5, <1>7 DEF Remembers
  <1>9. s.kv = Replay(s.index)' /\ Remembers(s.dedup, s.index)'
    BY <1>3, <1>4, <1>5, <1>6
  <1>10. next'[i] <= Len(decided') /\ \A x \in 1..next[i] : rlog'[i][x] = decided'[x]
    BY <1>1, <1>4, <1>5, <1>7 DEF DecidedKept
  <1>11. kv'[i] = Replay(next[i])' /\ Remembers(dedup[i], next[i])'
    <2>1. n = next'[i]
      BY <1>7
    <2> QED
      BY <2>1, <1>8 DEF Replay, Live, Firsts, Remembers
  <1>12. s = persister'[i]
    BY <1>2
  <1> QED
    BY <1>4, <1>9, <1>10, <1>11, <1>12 DEF ServerOK

(* A log that is somewhere before and after the step.                        *)
LEMMA LogStays ==
    ASSUME KVInv, NEW l \in Seq(Entry), LogOK(l), UNCHANGED <<current, requests>>, LogsKept,
           elections <= elections', elections' \in Nat, starts <= starts', starts' \in Nat,
           \A i \in Server : rlog'[i] \in Seq(Entry)
    PROVE  LogOK(l)'
  <1>0. Typed /\ elections \in Nat /\ starts \in Nat /\ Len(l) \in Nat
    BY KVFacts, LogsTyped, LenProperties
  <1>1. Ordered(l)'
    BY DEF LogOK, Ordered, NotAhead
  <1>2. ASSUME NEW x \in DOMAIN l
        PROVE  /\ l[x].term \in 1..elections'
               /\ \A i \in Server : lead'[i] = l[x].term => x \in DOMAIN rlog'[i] /\ rlog'[i][x] = l[x]
    <2>1. /\ l[x].term \in 1..elections
          /\ \A i \in Server : lead[i] = l[x].term => x \in DOMAIN rlog[i] /\ rlog[i][x] = l[x]
      BY DEF LogOK, FromLeaders
    <2>2. l[x].term # 0
      BY <2>1
    <2>3. ASSUME NEW i \in Server, lead'[i] = l[x].term PROVE x \in DOMAIN rlog'[i] /\ rlog'[i][x] = l[x]
      <3>1. /\ lead[i] = lead'[i] /\ Len(rlog[i]) <= Len(rlog'[i])
            /\ \A y \in 1..Len(rlog[i]) : rlog'[i][y] = rlog[i][y]
        BY <2>2, <2>3 DEF LogsKept
      <3>2. DOMAIN rlog[i] = 1..Len(rlog[i]) /\ Len(rlog[i]) \in Nat
        BY <1>0, LogsTyped
      <3>3. DOMAIN rlog'[i] = 1..Len(rlog'[i]) /\ Len(rlog'[i]) \in Nat
        BY LenProperties
      <3> QED
        BY <3>1, <3>2, <3>3, <2>1, <2>3
    <2> QED
      BY <2>1, <2>3, <1>0
  <1>3. FromLeaders(l)'
    BY <1>2 DEF FromLeaders
  <1>4. Len(l) <= starts'
    BY <1>0 DEF LogOK
  <1> QED
    BY <1>1, <1>3, <1>4 DEF LogOK

-----------------------------------------------------------------------------
(* The clerks and their calls.                                               *)

(* A step that neither Raft nor the servers take.                            *)
LEMMA RestSame ==
    ASSUME KVInv, UNCHANGED <<raftVars, stateVars, deliveryVars>>
    PROVE  DecidedKept /\ LogsKept /\ LeadersOK' /\ \A i \in Server : ServerOK(i)'
  <1>0. UNCHANGED <<rlog, lead, elections, decided, kv, dedup, lastApplied, next, overtaken, persister>>
    BY DEF raftVars, stateVars, deliveryVars
  <1>1. Typed /\ LeadersOK /\ Len(decided) \in Nat /\ \A i \in Server : Len(rlog[i]) \in Nat
    BY KVFacts, LogsTyped
  <1>2. DecidedKept /\ LogsKept
    BY <1>0, <1>1 DEF DecidedKept, LogsKept
  <1>3. LeadersOK'
    BY <1>0, <1>1 DEF LeadersOK, Leads, GetState
  <1>4. ASSUME NEW i \in Server PROVE ServerOK(i)'
    <2>1. next[i] <= Len(rlog'[i]) /\ \A x \in 1..next[i] : rlog'[i][x] = decided[x]
      BY <1>0, KVFacts DEF ServerOK
    <2> QED
      BY <2>1, <1>0, <1>1, <1>2, ServerStays
  <1> QED
    BY <1>2, <1>3, <1>4

(* The invariant after a step of calls alone.                                *)
LEMMA CallsStep ==
    ASSUME KVInv, UNCHANGED <<clerkVars, requests, starts, raftVars, stateVars, deliveryVars, restarts>>,
           call' \in [Client -> CallType], \A c \in Client : call'[c] = call[c] \/ CallOK(c)'
    PROVE  KVInv'
  <1>0. UNCHANGED <<current, since, requests, starts, rlog, lead, elections, decided, kv, dedup, lastApplied,
                    next, overtaken, persister, restarts>>
    BY DEF clerkVars, raftVars, stateVars, deliveryVars
  <1>1. Typed /\ Typed'
    BY <1>0, KVFacts DEF Typed, ClerksTyped, RaftTyped, ServersTyped
  <1>2. DecidedKept /\ LogsKept /\ LeadersOK' /\ \A i \in Server : ServerOK(i)'
    BY RestSame
  <1>3. /\ decided \in Seq(Entry) /\ \A i \in Server : rlog[i] \in Seq(Entry) /\ Len(rlog[i]) \in Nat
        /\ Len(decided) \in Nat /\ elections \in Nat /\ starts \in Nat
    BY <1>1, LogsTyped
  <1>4. ASSUME NEW l \in Seq(Entry), LogOK(l) PROVE LogOK(l)'
    BY <1>0, <1>2, <1>3, <1>4, LogStays
  <1>5. LogOK(decided)' /\ \A i \in Server : LogOK(rlog[i])'
    <2>1. LogOK(decided)'
      <3>1. PICK l \in Seq(Entry) : l = decided
        BY <1>3
      <3>2. LogOK(l)' /\ l = decided'
        BY <3>1, <1>0, <1>4, KVFacts
      <3> QED
        BY <3>2
    <2>2. ASSUME NEW i \in Server PROVE LogOK(rlog[i])'
      <3>1. PICK l \in Seq(Entry) : l = rlog[i]
        BY <1>3
      <3>2. LogOK(l)' /\ l = rlog'[i]
        BY <3>1, <1>0, <1>4, KVFacts
      <3> QED
        BY <3>2
    <2> QED
      BY <2>1, <2>2
  <1>6. ASSUME NEW c \in Client PROVE ClerkOK(c)' /\ CallOK(c)'
    <2>1. ClerkOK(c)'
      BY <1>0, KVFacts DEF ClerkOK
    <2>2. CASE call'[c] = call[c]
      BY <2>1, <2>2, <1>0, <1>2, <1>3, CallStays
    <2> QED
      BY <2>1, <2>2
  <1> QED
    BY <1>1, <1>2, <1>5, <1>6 DEF KVInv

(* The clerk gives a call up: WrongLeader, Timeout, ReplyLost.               *)
LEMMA TryAgainKeeps ==
    ASSUME KVInv, NEW c \in Client, TryAgain(c)
    PROVE  KVInv'
  <1>1. /\ call' = [call EXCEPT ![c] = Idle]
        /\ UNCHANGED <<clerkVars, requests, starts, raftVars, stateVars, deliveryVars, restarts>>
    BY DEF TryAgain
  <1>2. call \in [Client -> CallType]
    BY KVFacts DEF Typed, ClerksTyped
  <1>3. call' \in [Client -> CallType] /\ call'[c] = Idle /\ \A d \in Client : d # c => call'[d] = call[d]
    BY <1>1, <1>2, IdleTyped
  <1>4. CallOK(c)'
    <2>1. since'[c] <= Len(decided') /\ starts' \in Nat
      <3>1. since[c] <= Len(decided) /\ starts \in Nat
        BY KVFacts, LogsTyped DEF CallOK
      <3> QED
        BY <3>1, <1>1 DEF clerkVars, raftVars
    <2> QED
      BY <2>1, <1>3, IdleTyped, CallIdle
  <1> QED
    BY <1>1, <1>3, <1>4, CallsStep

(* The channel enters the table, and may push another one out.               *)
LEMMA RegisterKeeps ==
    ASSUME KVInv, NEW c \in Client, Register(c)
    PROVE  KVInv'
  <1> DEFINE replaced == WaitingAt(call[c].server, call[c].index, IsGet(current[c]))
             w == [call[c] EXCEPT !.pc = "waiting"]
  <1>1. /\ call[c].pc = "started"
        /\ call' = [d \in Client |-> IF d = c THEN w ELSE IF d \in replaced THEN Idle ELSE call[d]]
        /\ UNCHANGED <<clerkVars, requests, starts, raftVars, stateVars, deliveryVars, restarts>>
    BY DEF Register
  <1> HIDE DEF replaced
  <1>2. call \in [Client -> CallType]
    BY KVFacts DEF Typed, ClerksTyped
  <1>3. /\ w \in CallType /\ w.pc = "waiting" /\ w.server = call[c].server /\ w.index = call[c].index
        /\ w.term = call[c].term
    BY <1>2 DEF CallType
  <1> HIDE DEF w
  <1>4. call' \in [Client -> CallType] /\ \A d \in Client : call'[d] = call[d] \/ call'[d] = Idle \/ d = c
    BY <1>1, <1>2, <1>3, IdleTyped
  <1>5. ASSUME NEW d \in Client, call'[d] = Idle PROVE CallOK(d)'
    <2>1. since'[d] <= Len(decided') /\ starts' \in Nat
      <3>1. since[d] <= Len(decided) /\ starts \in Nat
        BY KVFacts, LogsTyped DEF CallOK
      <3> QED
        BY <3>1, <1>1 DEF clerkVars, raftVars
    <2> QED
      BY <2>1, <1>5, IdleTyped, CallIdle
  <1>6. CallOK(c)'
    <2>1. CallOK(c)
      BY KVFacts
    <2>2. call'[c] = w
      BY <1>1
    <2>3. UNCHANGED <<current, since, starts, rlog, lead, decided>>
      BY <1>1 DEF clerkVars, raftVars
    <2>4. Awaited(c)' = Awaited(c)
      BY <2>2, <2>3, <1>3 DEF Awaited
    <2> QED
      BY <2>1, <2>2, <2>3, <2>4, <1>1, <1>3 DEF CallOK
  <1> QED
    BY <1>1, <1>4, <1>5, <1>6, CallsStep

(* What follows when one clerk's request begins or ends.                     *)
LEMMA ClerkStep ==
    ASSUME KVInv, NEW c \in Client, UNCHANGED <<starts, raftVars, stateVars, deliveryVars, restarts>>,
           requests' \in requests..MaxRequests, call' \in [Client -> CallType],
           call'[c].pc = "idle", call'[c].index <= starts,
           NEW m \in Command \cup {Nil}, current' = [current EXCEPT ![c] = m],
           NEW n \in Nat, n <= Len(decided), since' = [since EXCEPT ![c] = n],
           \A d \in Client : d # c => call'[d] = call[d],
           m # Nil /\ ~ IsGet(m) => m.client = c /\ m.id \in (requests + 1)..requests'
    PROVE  KVInv'
  <1>0. UNCHANGED <<starts, rlog, lead, elections, decided, kv, dedup, lastApplied,
                    next, overtaken, persister, restarts>>
    BY DEF raftVars, stateVars, deliveryVars
  <1>1. Typed /\ requests \in Nat /\ requests' \in Nat /\ requests <= requests' /\ requests' <= MaxRequests
        /\ Len(decided) \in Nat /\ starts \in Nat /\ elections \in Nat
        /\ \A i \in Server : Len(rlog[i]) \in Nat /\ DOMAIN rlog[i] = 1..Len(rlog[i]) /\ rlog[i] \in Seq(Entry)
    BY KVFacts, LogsTyped
  <1>2. current \in [Client -> Command \cup {Nil}] /\ since \in [Client -> Nat]
    BY <1>1 DEF Typed, ClerksTyped
  <1>3. /\ current' \in [Client -> Command \cup {Nil}] /\ since' \in [Client -> Nat]
        /\ current'[c] = m /\ since'[c] = n
        /\ \A d \in Client : d # c => current'[d] = current[d] /\ since'[d] = since[d]
    BY <1>2
  <1>4. requests' \in 0..MaxRequests
    BY <1>1, LogsTyped
  <1>5. Typed'
    BY <1>0, <1>1, <1>3, <1>4 DEF Typed, ClerksTyped, RaftTyped, ServersTyped
  <1>6. DecidedKept /\ LogsKept /\ LeadersOK' /\ \A i \in Server : ServerOK(i)'
    BY RestSame
  <1>7. ASSUME NEW l \in Seq(Entry), LogOK(l) PROVE LogOK(l)'
    <2>1. FromLeaders(l)' /\ Len(l) <= starts'
      BY <1>0, <1>7 DEF LogOK, FromLeaders
    <2>2. ASSUME NEW d \in Client, NEW x \in DOMAIN l, WriteOf(l, x, d)
          PROVE  NotAhead(l[x].command, d)'
      <3>1. NotAhead(l[x].command, d)
        BY <2>2, <1>7 DEF LogOK, Ordered
      <3>2. PICK w \in Command : w = l[x].command
        <4>1. l[x] \in Entry
          BY LenProperties
        <4> QED
          BY <4>1 DEF Entry
      <3>3. w \in WriteCommand /\ w.id \in Nat
        BY <2>2, <3>2 DEF WriteOf, IsGet, Command, GetCommand, WriteCommand
      <3>4. w.id <= requests
        BY <3>1, <3>2 DEF NotAhead
      <3>5. w.id <= requests'
        BY <3>3, <3>4, <1>1
      <3>6. CASE d = c
        <4>1. m # Nil /\ ~ IsGet(m) => w.id < m.id
          BY <3>3, <3>4, <1>1
        <4> QED
          BY <4>1, <3>2, <3>5, <3>6, <1>3 DEF NotAhead, IsGet
      <3>7. CASE d # c
        BY <3>1, <3>2, <3>5, <3>7, <1>3 DEF NotAhead, IsGet
      <3> QED
        BY <3>6, <3>7
    <2>3. Ordered(l)'
      BY <2>2, <1>7 DEF LogOK, Ordered, WriteOf
    <2> QED
      BY <2>1, <2>3 DEF LogOK
  <1>8. LogOK(decided)'
    <2>1. PICK l \in Seq(Entry) : l = decided
      BY <1>1, LogsTyped
    <2>2. LogOK(l)' /\ l = decided'
      BY <2>1, <1>0, <1>7, KVFacts
    <2> QED
      BY <2>2
  <1>9. ASSUME NEW i \in Server PROVE LogOK(rlog[i])'
    <2>1. PICK l \in Seq(Entry) : l = rlog[i]
      BY <1>1
    <2>2. LogOK(l)' /\ l = rlog'[i]
      BY <2>1, <1>0, <1>7, KVFacts
    <2> QED
      BY <2>2
  <1>10. ASSUME NEW d \in Client PROVE ClerkOK(d)' /\ CallOK(d)'
    <2>1. CASE d = c
      <3>1. ClerkOK(c)'
        BY <1>1, <1>3 DEF ClerkOK, IsGet
      <3>2. CallOK(c)'
        BY <1>0, <1>1, <1>3, CallIdle
      <3> QED
        BY <3>1, <3>2, <2>1
    <2>2. CASE d # c
      <3>0. ClerkOK(d)
        BY KVFacts
      <3>1. current[d] # Nil /\ ~ IsGet(current[d]) => current[d].client = d /\ current[d].id \in 1..requests'
        BY <3>0, <1>1 DEF ClerkOK
      <3>2. ClerkOK(d)'
        BY <2>2, <3>1, <1>3 DEF ClerkOK, IsGet
      <3>3. CallOK(d)'
        BY <2>2, <1>0, <1>1, <1>3, <1>6, CallStays
      <3> QED
        BY <3>2, <3>3
    <2> QED
      BY <2>1, <2>2
  <1> QED
    BY <1>5, <1>6, <1>8, <1>9, <1>10 DEF KVInv

(* What Request makes.                                                       *)
LEMMA RequestMade ==
    ASSUME Typed, NEW c \in Client, NEW op \in Op, NEW k \in Key
    PROVE  /\ Request(c, op, k) \in Command
           /\ ~ IsGet(Request(c, op, k)) => Request(c, op, k).client = c /\ Request(c, op, k).id = requests + 1
  <1>1. requests + 1 \in Nat
    BY LogsTyped
  <1>2. CASE op = "Get"
    <2>1. Request(c, op, k) = [op |-> op, key |-> k]
      BY <1>2 DEF Request
    <2> QED
      BY <2>1, <1>2 DEF Command, GetCommand, IsGet
  <1>3. CASE op # "Get"
    <2>1. Request(c, op, k) = [op |-> op, key |-> k, client |-> c, id |-> requests + 1]
      BY <1>3 DEF Request
    <2>2. op \in {"Put", "Append"}
      BY <1>3, KVAssumption
    <2> QED
      BY <2>1, <2>2, <1>1 DEF Command, WriteCommand
  <1> QED
    BY <1>2, <1>3

(* The clerk is asked for something: it had no call.                         *)
LEMMA AskKeeps ==
    ASSUME KVInv, NEW c \in Client, NEW op \in Op, NEW k \in Key, Ask(c, op, k)
    PROVE  KVInv'
  <1>0. Typed /\ CallOK(c)
    BY KVFacts
  <1>1. PICK m \in Command : m = Request(c, op, k) /\ (~ IsGet(m) => m.client = c /\ m.id = requests + 1)
    BY <1>0, RequestMade
  <1>2. PICK n \in Nat : n = (IF op = "Get" THEN Len(decided) ELSE 0) /\ n <= Len(decided)
    <2>1. Len(decided) \in Nat /\ 0 \in Nat /\ Len(decided) <= Len(decided) /\ 0 <= Len(decided)
      BY <1>0, LogsTyped
    <2>2. CASE op = "Get"
      BY <2>1, <2>2
    <2>3. CASE op # "Get"
      BY <2>1, <2>3
    <2> QED
      BY <2>2, <2>3
  <1>3. /\ current[c] = Nil /\ requests < MaxRequests /\ requests' = requests + 1
        /\ current' = [current EXCEPT ![c] = m] /\ since' = [since EXCEPT ![c] = n]
        /\ UNCHANGED <<call, starts, raftVars, stateVars, deliveryVars, restarts>>
    BY <1>1, <1>2 DEF Ask
  <1>4. call \in [Client -> CallType]
    BY <1>0 DEF Typed, ClerksTyped
  <1>5. requests' \in requests..MaxRequests /\ requests + 1 \in (requests + 1)..requests'
    BY <1>0, <1>3, LogsTyped
  <1>6. call[c].pc = "idle" /\ call[c].index <= starts
    BY <1>0, <1>3 DEF CallOK
  <1>7. UNCHANGED <<starts, raftVars, stateVars, deliveryVars, restarts>> /\ call' = call
    BY <1>3
  <1> QED
    BY <1>1, <1>2, <1>3, <1>4, <1>5, <1>6, <1>7, ClerkStep, ZenonT(30)

(* The clerk has its answer.                                                 *)
LEMMA ReturnKeeps ==
    ASSUME KVInv, NEW c \in Client, Return(c)
    PROVE  KVInv'
  <1>0. Typed
    BY KVFacts
  <1>1. /\ call' = [call EXCEPT ![c] = Idle] /\ current' = [current EXCEPT ![c] = Nil]
        /\ since' = [since EXCEPT ![c] = 0]
        /\ UNCHANGED <<requests, starts, raftVars, stateVars, deliveryVars, restarts>>
    BY DEF Return
  <1>2. call \in [Client -> CallType]
    BY <1>0 DEF Typed, ClerksTyped
  <1>3. call' \in [Client -> CallType] /\ call'[c] = Idle /\ \A d \in Client : d # c => call'[d] = call[d]
    BY <1>1, <1>2, IdleTyped
  <1>4. requests' \in requests..MaxRequests /\ 0 \in Nat /\ 0 <= Len(decided)
    <2>1. requests \in 0..MaxRequests
      BY <1>0 DEF Typed, ClerksTyped
    <2> QED
      BY <2>1, <1>0, <1>1, LogsTyped
  <1>5. UNCHANGED <<starts, raftVars, stateVars, deliveryVars, restarts>>
    BY <1>1
  <1>6. PICK m \in Command \cup {Nil} : m = Nil
    OBVIOUS
  <1>7. PICK n \in Nat : n = 0
    OBVIOUS
  <1>8. call'[c].pc = "idle" /\ call'[c].index <= starts
    BY <1>0, <1>3, IdleTyped, LogsTyped
  <1> QED
    BY <1>1, <1>3, <1>4, <1>5, <1>6, <1>7, <1>8, ClerkStep

-----------------------------------------------------------------------------
(* Raft, as the server sees it.                                              *)

(* A prefix, place by place.                                                 *)
LEMMA PrefixPlaces ==
    ASSUME NEW s \in Seq(Entry), NEW t \in Seq(Entry)
    PROVE  IsPrefix(s, t) <=> Len(s) <= Len(t) /\ \A x \in 1..Len(s) : s[x] = t[x]
  <1>0. Len(s) \in Nat /\ Len(t) \in Nat
    BY LenProperties
  <1>1. SUFFICES ASSUME Len(s) <= Len(t)
                 PROVE  SubSeq(s, 1, Len(s)) = SubSeq(t, 1, Len(s)) <=> \A x \in 1..Len(s) : s[x] = t[x]
    BY DEF IsPrefix
  <1>2. /\ SubSeq(s, 1, Len(s)) = [x \in 1..Len(s) |-> s[x]]
        /\ SubSeq(t, 1, Len(s)) = [x \in 1..Len(s) |-> t[x]]
    BY <1>0, <1>1
  <1> QED
    BY <1>2

(* The beginning of a log, place by place.                                   *)
LEMMA BeginningOf ==
    ASSUME NEW s \in Seq(Entry), NEW n \in 0..Len(s)
    PROVE  /\ SubSeq(s, 1, n) \in Seq(Entry) /\ Len(SubSeq(s, 1, n)) = n
           /\ DOMAIN SubSeq(s, 1, n) = 1..n
           /\ \A x \in 1..n : SubSeq(s, 1, n)[x] = s[x]
  <1>0. Len(s) \in Nat /\ n \in Nat /\ n <= Len(s)
    BY LenProperties
  <1>1. SubSeq(s, 1, n) = [x \in 1..n |-> s[x]]
    BY <1>0
  <1>2. \A x \in 1..n : s[x] \in Entry
    BY <1>0
  <1>3. SubSeq(s, 1, n) \in Seq(Entry) /\ Len(SubSeq(s, 1, n)) = n
    BY <1>0, <1>1, <1>2
  <1> QED
    BY <1>1, <1>3

(* The beginning of a log that is in order is so.                            *)
LEMMA BeginningOK ==
    ASSUME NEW s \in Seq(Entry), NEW n \in 0..Len(s), LogOK(s), starts \in Nat
    PROVE  LogOK(SubSeq(s, 1, n))
  <1>0. Len(s) \in Nat /\ n \in Nat /\ n <= Len(s) /\ DOMAIN s = 1..Len(s)
    BY LenProperties
  <1>1. PICK l \in Seq(Entry) : l = SubSeq(s, 1, n)
    BY BeginningOf
  <1>2. DOMAIN l = 1..n /\ Len(l) = n /\ \A x \in 1..n : l[x] = s[x] /\ x \in DOMAIN s
    BY <1>0, <1>1, BeginningOf
  <1>3. \A x \in 1..n : \A y \in 1..x : y \in 1..n
    BY <1>0
  <1>4. Ordered(l)
    BY <1>2, <1>3 DEF LogOK, Ordered, WriteOf
  <1>5. FromLeaders(l)
    BY <1>2 DEF LogOK, FromLeaders
  <1>6. Len(l) <= starts
    BY <1>0, <1>2 DEF LogOK
  <1> QED
    BY <1>1, <1>4, <1>5, <1>6 DEF LogOK

(* The invariant after a step of Raft.                                       *)
LEMMA RaftStep ==
    ASSUME KVInv, UNCHANGED <<clerkVars, requests, stateVars, deliveryVars, restarts>>,
           RaftTyped', call' \in [Client -> CallType], DecidedKept, LeadersOK',
           LogOK(decided)', \A i \in Server : LogOK(rlog[i])',
           \A i \in Server : next[i] <= Len(rlog'[i]) /\ \A x \in 1..next[i] : rlog'[i][x] = decided[x],
           \A c \in Client : CallOK(c)'
    PROVE  KVInv'
  <1>0. UNCHANGED <<current, since, requests, kv, dedup, lastApplied, next, overtaken, persister, restarts>>
    BY DEF clerkVars, stateVars, deliveryVars
  <1>1. Typed'
    BY <1>0, KVFacts DEF Typed, ClerksTyped, ServersTyped
  <1>2. Len(decided') \in Nat
    BY LenProperties DEF RaftTyped
  <1>3. \A i \in Server : ServerOK(i)'
    BY <1>0, <1>2, ServerStays
  <1>4. \A c \in Client : ClerkOK(c)'
    BY <1>0, KVFacts DEF ClerkOK
  <1> QED
    BY <1>1, <1>3, <1>4 DEF KVInv

(* What a leader appends is the newest write of its client, or a Get.        *)
LEMMA AppendedOK ==
    ASSUME KVInv, NEW c \in Client, NEW i \in Server, NEW m \in Command, m = current[c], m # Nil,
           Appended(i, m), UNCHANGED <<clerkVars, requests>>
    PROVE  /\ RaftTyped' /\ DecidedKept /\ LogsKept /\ LeadersOK' /\ starts' = starts + 1
           /\ LogOK(decided)' /\ \A j \in Server : LogOK(rlog[j])'
           /\ \A j \in Server : next[j] <= Len(rlog'[j]) /\ \A x \in 1..next[j] : rlog'[j][x] = decided[x]
           /\ lead[i] # 0 /\ lead[i] \in Nat /\ UNCHANGED <<lead, decided>>
           /\ rlog'[i][Len(rlog[i]) + 1] = [term |-> lead[i], command |-> m]
           /\ Len(rlog'[i]) = Len(rlog[i]) + 1 /\ Len(rlog[i]) \in Nat /\ Len(rlog[i]) <= starts
           /\ \A j \in Server : rlog'[j] \in Seq(Entry)
  <1>0. Typed /\ LeadersOK /\ starts \in Nat /\ elections \in Nat /\ MaxStarts \in Nat /\ requests \in Nat
    BY KVFacts, LogsTyped
  <1>1. /\ lead[i] # 0 /\ starts < MaxStarts /\ starts' = starts + 1
        /\ rlog' = [rlog EXCEPT ![i] = Append(rlog[i], [term |-> lead[i], command |-> m])]
        /\ UNCHANGED <<lead, elections, decided, current, requests>>
    BY DEF Appended, GetState, clerkVars
  <1>2. /\ \A j \in Server : rlog[j] \in Seq(Entry) /\ Len(rlog[j]) \in Nat /\ DOMAIN rlog[j] = 1..Len(rlog[j])
                             /\ lead[j] \in Nat /\ next[j] \in Nat
        /\ decided \in Seq(Entry) /\ Len(decided) \in Nat
    BY <1>0, LogsTyped
  <1>3. PICK e \in Entry : e = [term |-> lead[i], command |-> m]
    BY <1>2 DEF Entry
  <1>4. e.term = lead[i] /\ e.command = m
    BY <1>3
  <1>5. PICK l \in Seq(Entry) : l = rlog[i]
    BY <1>2
  <1>6. PICK k \in Nat : k = Len(l)
    BY LenProperties
  <1>7. PICK a \in Seq(Entry) : a = Append(l, e) /\ Len(a) = k + 1 /\ a[k + 1] = e /\ \A x \in 1..k : a[x] = l[x]
    <2>1. /\ Append(l, e) \in Seq(Entry) /\ Len(Append(l, e)) = Len(l) + 1
          /\ Append(l, e)[Len(l) + 1] = e /\ \A x \in 1..Len(l) : Append(l, e)[x] = l[x]
      BY AppendProperties
    <2> QED
      BY <2>1, <1>6
  <1>8. /\ rlog' \in [Server -> Seq(Entry)] /\ rlog'[i] = a
        /\ \A j \in Server : j # i => rlog'[j] = rlog[j]
    <2>1. rlog \in [Server -> Seq(Entry)]
      BY <1>0 DEF Typed, RaftTyped
    <2> QED
      BY <2>1, <1>1, <1>3, <1>5, <1>7
  <1>9. RaftTyped'
    <2>1. starts' \in 0..MaxStarts
      BY <1>0, <1>1
    <2> QED
      BY <2>1, <1>0, <1>1, <1>8 DEF Typed, RaftTyped
  <1>10. DecidedKept
    BY <1>1, <1>2 DEF DecidedKept
  <1>11. \A j \in Server : Len(rlog[j]) <= Len(rlog'[j]) /\ \A x \in 1..Len(rlog[j]) : rlog'[j][x] = rlog[j][x]
    BY <1>2, <1>5, <1>6, <1>7, <1>8
  <1>12. LogsKept
    BY <1>1, <1>11 DEF LogsKept
  <1>13. LeadersOK'
    <2> SUFFICES ASSUME NEW j \in Server, Leads(j) PROVE IsPrefix(decided, rlog'[j])
      BY <1>0, <1>1 DEF LeadersOK, Leads, GetState
    <2>1. IsPrefix(decided, rlog[j])
      BY <1>0 DEF LeadersOK
    <2>2. Len(decided) <= Len(rlog[j]) /\ \A x \in 1..Len(decided) : decided[x] = rlog[j][x]
      BY <2>1, <1>2, PrefixPlaces
    <2>3. Len(decided) <= Len(rlog'[j]) /\ \A x \in 1..Len(decided) : decided[x] = rlog'[j][x]
      <3>1. rlog'[j] \in Seq(Entry) /\ Len(rlog'[j]) \in Nat
        BY <1>8, LenProperties
      <3> QED
        BY <3>1, <2>2, <1>2, <1>11
    <2> QED
      BY <2>3, <1>2, <1>8, PrefixPlaces
  <1>14. ASSUME NEW s \in Seq(Entry), LogOK(s) PROVE LogOK(s)'
    BY <1>0, <1>1, <1>8, <1>12, <1>14, LogStays
  <1>15. LogOK(l) /\ LogOK(l)'
    BY <1>5, <1>14, KVFacts
  <1>16. DOMAIN a = 1..(k + 1) /\ DOMAIN l = 1..k /\ \A x \in 1..(k + 1) : x \in 1..k \/ x = k + 1
    BY <1>6, <1>7, LenProperties
  <1>17. Ordered(a)'
    <2>1. ASSUME NEW d \in Client, NEW y \in 1..k, WriteOf(a, y, d)
          PROVE  NotAhead(a[y].command, d)
      <3>1. WriteOf(l, y, d) /\ a[y] = l[y]
        BY <2>1, <1>7 DEF WriteOf
      <3> QED
        BY <3>1, <1>15, <1>16 DEF LogOK, Ordered
    <2>2. ClerkOK(c)
      BY KVFacts
    <2>3. ASSUME NEW d \in Client, WriteOf(a, k + 1, d) PROVE d = c /\ NotAhead(m, d) /\ ~ IsGet(m)
      <3>1. ~ IsGet(m) /\ m.client = d
        BY <2>3, <1>4, <1>7 DEF WriteOf
      <3>2. m.client = c /\ m.id \in 1..requests
        BY <3>1, <2>2 DEF ClerkOK
      <3> QED
        BY <3>1, <3>2, <1>0 DEF NotAhead
    <2>4. ASSUME NEW d \in Client, NEW x \in DOMAIN a, WriteOf(a, x, d)
          PROVE  /\ NotAhead(a[x].command, d)
                 /\ \A y \in 1..x : WriteOf(a, y, d) =>
                       a[y].command = a[x].command \/ a[y].command.id < a[x].command.id
      <3>1. CASE x = k + 1
        <4>1. d = c /\ NotAhead(m, d) /\ ~ IsGet(m) /\ a[x].command = m
          BY <3>1, <2>3, <2>4, <1>4, <1>7
        <4>2. ASSUME NEW y \in 1..k, WriteOf(a, y, d) PROVE a[y].command = m \/ a[y].command.id < m.id
          <5>1. NotAhead(a[y].command, d)
            BY <4>2, <2>1
          <5> QED
            BY <5>1, <4>1 DEF NotAhead
        <4> QED
          BY <4>1, <4>2, <3>1, <1>16
      <3>2. CASE x \in 1..k
        <4>1. \A y \in 1..x : y \in 1..k /\ a[y] = l[y]
          BY <3>2, <1>7
        <4>2. WriteOf(l, x, d) /\ a[x] = l[x] /\ x \in DOMAIN l
          BY <2>4, <3>2, <1>7, <1>16 DEF WriteOf
        <4>3. \A y \in 1..x : WriteOf(l, y, d) =>
                 l[y].command = l[x].command \/ l[y].command.id < l[x].command.id
          BY <4>2, <1>15 DEF LogOK, Ordered
        <4>4. NotAhead(a[x].command, d)
          BY <3>2, <2>4, <2>1
        <4> QED
          BY <4>1, <4>2, <4>3, <4>4 DEF WriteOf
      <3> QED
        BY <3>1, <3>2, <1>16
    <2>5. ASSUME NEW w, NEW d \in Client, NotAhead(w, d) PROVE NotAhead(w, d)'
      BY <2>5, <1>1 DEF NotAhead
    <2> QED
      BY <2>4, <2>5 DEF Ordered, WriteOf
  <1>18. FromLeaders(a)'
    <2>1. ASSUME NEW x \in 1..k
          PROVE  /\ a[x].term \in 1..elections'
                 /\ \A j \in Server : lead'[j] = a[x].term => x \in DOMAIN rlog'[j] /\ rlog'[j][x] = a[x]
      BY <1>7, <1>15, <1>16 DEF LogOK, FromLeaders
    <2>2. lead[i] \in 1..elections'
      BY <1>0, <1>1, <1>2 DEF LeadersOK
    <2>3. \A j \in Server : lead'[j] = lead[i] => j = i
      BY <1>0, <1>1 DEF LeadersOK
    <2> QED
      BY <2>1, <2>2, <2>3, <1>4, <1>6, <1>7, <1>8, <1>16, ZenonT(30) DEF FromLeaders
  <1>19. Len(a) <= starts' /\ k <= starts
    BY <1>0, <1>1, <1>6, <1>7, <1>15 DEF LogOK
  <1>20. LogOK(a)'
    BY <1>17, <1>18, <1>19 DEF LogOK
  <1>21. \A j \in Server : LogOK(rlog[j])'
    <2> SUFFICES ASSUME NEW j \in Server PROVE LogOK(rlog[j])'
      OBVIOUS
    <2>1. CASE j = i
      <3>1. a = rlog'[j]
        BY <2>1, <1>8
      <3> QED
        BY <3>1, <1>20
    <2>2. CASE j # i
      <3>1. PICK s \in Seq(Entry) : s = rlog[j]
        BY <1>2
      <3>2. LogOK(s)' /\ s = rlog'[j]
        BY <3>1, <2>2, <1>8, <1>14, KVFacts
      <3> QED
        BY <3>2
    <2> QED
      BY <2>1, <2>2
  <1>22. LogOK(decided)'
    <2>1. PICK s \in Seq(Entry) : s = decided
      BY <1>2
    <2>2. LogOK(s)' /\ s = decided'
      BY <2>1, <1>1, <1>14, KVFacts
    <2> QED
      BY <2>2
  <1>23. ASSUME NEW j \in Server
         PROVE  next[j] <= Len(rlog'[j]) /\ \A x \in 1..next[j] : rlog'[j][x] = decided[x]
    <2>1. next[j] <= Len(rlog[j]) /\ \A x \in 1..next[j] : rlog[j][x] = decided[x]
      BY KVFacts DEF ServerOK
    <2>2. Len(rlog'[j]) \in Nat
      BY <1>8, LenProperties
    <2> QED
      BY <2>1, <2>2, <1>2, <1>11
  <1>24. /\ rlog'[i][Len(rlog[i]) + 1] = [term |-> lead[i], command |-> m]
         /\ Len(rlog'[i]) = Len(rlog[i]) + 1 /\ Len(rlog[i]) <= starts
    BY <1>3, <1>5, <1>6, <1>7, <1>8, <1>19
  <1> QED
    BY <1>1, <1>2, <1>8, <1>9, <1>10, <1>12, <1>13, <1>21, <1>22, <1>23, <1>24

(* A handler at a leader calls Start.                                        *)
LEMMA StartKeeps ==
    ASSUME KVInv, NEW c \in Client, NEW i \in Server, Start(c, i)
    PROVE  KVInv'
  <1>0. Typed /\ call \in [Client -> CallType] /\ since[c] \in Nat /\ CallOK(c) /\ LogOK(decided)
    BY KVFacts, CallTyped DEF Typed, ClerksTyped
  <1>1. /\ current[c] # Nil /\ Appended(i, current[c])
        /\ UNCHANGED <<clerkVars, requests, stateVars, deliveryVars, restarts>>
        /\ call' = [call EXCEPT ![c] = [Idle EXCEPT !.pc = "started", !.server = i,
                                                    !.index = Len(rlog[i]) + 1, !.term = lead[i]]]
    BY DEF Start, Trying
  <1>2. PICK m \in Command : m = current[c] /\ m # Nil
    BY <1>0, <1>1, CallTyped
  <1>3. Appended(i, m) /\ UNCHANGED <<clerkVars, requests>>
    BY <1>1, <1>2
  <1>4. /\ RaftTyped' /\ DecidedKept /\ LogsKept /\ LeadersOK' /\ starts' = starts + 1
        /\ LogOK(decided)' /\ \A j \in Server : LogOK(rlog[j])'
        /\ \A j \in Server : next[j] <= Len(rlog'[j]) /\ \A x \in 1..next[j] : rlog'[j][x] = decided[x]
        /\ \A j \in Server : rlog'[j] \in Seq(Entry)
    BY <1>2, <1>3, AppendedOK
  <1>5. /\ lead[i] # 0 /\ lead[i] \in Nat /\ UNCHANGED <<lead, decided>>
        /\ rlog'[i][Len(rlog[i]) + 1] = [term |-> lead[i], command |-> m]
        /\ Len(rlog'[i]) = Len(rlog[i]) + 1 /\ Len(rlog[i]) \in Nat /\ Len(rlog[i]) <= starts
    BY <1>2, <1>3, AppendedOK
  <1>6. PICK k \in Nat : k = Len(rlog[i])
    BY <1>5
  <1>7. PICK z \in Nat : z = Len(rlog[i]) + 1 /\ z = k + 1
    BY <1>6
  <1>8. PICK n \in CallType :
          /\ n = [Idle EXCEPT !.pc = "started", !.server = i, !.index = Len(rlog[i]) + 1, !.term = lead[i]]
          /\ n.pc = "started" /\ n.server = i /\ n.index = k + 1 /\ n.term = lead[i]
    <2>0. PICK t \in Nat : t = lead[i]
      BY <1>5
    <2>1. PICK n : n = [Idle EXCEPT !.pc = "started", !.server = i, !.index = z, !.term = t]
      OBVIOUS
    <2>2. n \in CallType
      <3>1. << >> \in Seq(Nat)
        OBVIOUS
      <3> QED
        BY <3>1, <2>1 DEF Idle, CallType
    <2>3. n.pc = "started" /\ n.server = i /\ n.index = z /\ n.term = t
      BY <2>1 DEF Idle
    <2> QED
      BY <2>0, <2>1, <2>2, <2>3, <1>7
  <1>9. call' \in [Client -> CallType] /\ call'[c] = n /\ \A d \in Client : d # c => call'[d] = call[d]
    BY <1>0, <1>1, <1>8
  <1>10. starts \in Nat /\ starts' \in Nat /\ starts <= starts' /\ Len(decided) \in Nat /\ Len(decided') \in Nat
         /\ DOMAIN decided = 1..Len(decided) /\ DOMAIN rlog[i] = 1..k
    BY <1>0, <1>4, <1>5, <1>6, LogsTyped, SMTT(20)
  <1>11. ASSUME k + 1 <= since[c], decided[k + 1] = [term |-> lead[i], command |-> m] PROVE FALSE
    <2>1. since[c] <= Len(decided)
      BY <1>0 DEF CallOK
    <2>2. k + 1 \in DOMAIN decided
      BY <2>1, <1>0, <1>10, <1>11
    <2>3. decided[k + 1].term = lead[i]
      BY <1>11
    <2>4. k + 1 \in DOMAIN rlog[i]
      BY <2>2, <2>3, <1>0 DEF LogOK, FromLeaders
    <2> QED
      BY <2>4, <1>10
  <1>12. CallOK(c)'
    <2>1. since'[c] = since[c] /\ current'[c] = m /\ since[c] <= Len(decided) /\ decided' = decided /\ lead'[i] = lead[i]
      BY <1>0, <1>1, <1>2, <1>5 DEF clerkVars, CallOK
    <2>2. Awaited(c)' = [term |-> lead[i], command |-> m]
      BY <2>1, <1>8, <1>9 DEF Awaited
    <2>3. k + 1 <= starts' /\ k + 1 > 0 /\ k + 1 <= Len(rlog'[i]) /\ rlog'[i][k + 1] = Awaited(c)'
      BY <2>2, <1>4, <1>5, <1>6, <1>10
    <2>4. k + 1 <= since'[c] => decided'[k + 1] # Awaited(c)'
      BY <2>1, <2>2, <1>11
    <2>5. /\ since'[c] <= Len(decided') /\ call'[c].index <= starts' /\ current'[c] # Nil
          /\ call'[c].server = i /\ call'[c].index = k + 1 /\ call'[c].pc = "started"
      BY <2>1, <2>3, <1>2, <1>8, <1>9
    <2> QED
      BY <2>3, <2>4, <2>5 DEF CallOK
  <1>13. ASSUME NEW d \in Client PROVE CallOK(d)'
    <2>1. CASE d = c
      BY <2>1, <1>12
    <2>2. CASE d # c
      <3>1. \A j \in Server : Len(rlog'[j]) \in Nat
        BY <1>4, LenProperties
      <3>2. call'[d] = call[d] /\ current'[d] = current[d] /\ since'[d] = since[d]
        BY <2>2, <1>1, <1>9 DEF clerkVars
      <3> QED
        BY <3>1, <3>2, <1>4, <1>10, CallStays
    <2> QED
      BY <2>1, <2>2
  <1> QED
    BY <1>1, <1>4, <1>9, <1>13, RaftStep

(* The handler of an earlier call does so.                                   *)
LEMMA OrphanStartsKeeps ==
    ASSUME KVInv, NEW c \in Client, NEW i \in Server, OrphanStarts(c, i)
    PROVE  KVInv'
  <1>0. Typed /\ call \in [Client -> CallType] /\ CallOK(c)
    BY KVFacts DEF Typed, ClerksTyped
  <1>1. /\ call[c].pc # "idle" /\ Appended(i, current[c])
        /\ UNCHANGED <<clerkVars, requests, stateVars, deliveryVars, restarts, call>>
    BY DEF OrphanStarts
  <1>2. PICK m \in Command : m = current[c] /\ m # Nil
    BY <1>0, <1>1, CallTyped DEF CallOK
  <1>3. Appended(i, m) /\ UNCHANGED <<clerkVars, requests>>
    BY <1>1, <1>2
  <1>4. /\ RaftTyped' /\ DecidedKept /\ LogsKept /\ LeadersOK' /\ starts' = starts + 1
        /\ LogOK(decided)' /\ \A j \in Server : LogOK(rlog[j])'
        /\ \A j \in Server : next[j] <= Len(rlog'[j]) /\ \A x \in 1..next[j] : rlog'[j][x] = decided[x]
        /\ \A j \in Server : rlog'[j] \in Seq(Entry)
        /\ UNCHANGED decided
    BY <1>2, <1>3, AppendedOK
  <1>5. starts \in Nat /\ starts' \in Nat /\ starts <= starts' /\ Len(decided') \in Nat
    BY <1>0, <1>4, LogsTyped
  <1>6. \A j \in Server : Len(rlog'[j]) \in Nat
    BY <1>4, LenProperties
  <1>7. ASSUME NEW d \in Client PROVE CallOK(d)'
    <2>1. call'[d] = call[d] /\ current'[d] = current[d] /\ since'[d] = since[d]
      BY <1>1 DEF clerkVars
    <2> QED
      BY <2>1, <1>4, <1>5, <1>6, CallStays
  <1> QED
    BY <1>0, <1>1, <1>4, <1>7, RaftStep

(* A leader of a new term leads in a term that no entry has.                 *)
LEMMA ElectKeeps ==
    ASSUME KVInv, NEW i \in Server, Elect(i)
    PROVE  KVInv'
  <1>0. /\ Typed /\ LeadersOK /\ elections \in Nat /\ MaxElections \in Nat /\ Len(decided) \in Nat
        /\ decided \in Seq(Entry)
        /\ \A j \in Server : lead[j] \in Nat /\ rlog[j] \in Seq(Entry) /\ Len(rlog[j]) \in Nat
    BY KVFacts, LogsTyped
  <1>1. /\ elections < MaxElections /\ IsPrefix(decided, rlog[i]) /\ CallsTimedOut(i)
        /\ elections' = elections + 1 /\ lead' = [lead EXCEPT ![i] = elections + 1]
        /\ UNCHANGED <<clerkVars, call, requests, starts, rlog, decided, stateVars, deliveryVars, restarts>>
    BY DEF Elect
  <1>2. lead' \in [Server -> Nat] /\ lead'[i] = elections + 1 /\ \A j \in Server : j # i => lead'[j] = lead[j]
    BY <1>0, <1>1 DEF Typed, RaftTyped
  <1>3. RaftTyped'
    BY <1>0, <1>1, <1>2 DEF Typed, RaftTyped
  <1>4. DecidedKept /\ call' \in [Client -> CallType]
    BY <1>0, <1>1 DEF DecidedKept, Typed, ClerksTyped
  <1>5. LeadersOK'
    <2>1. \A j \in Server : lead[j] <= elections /\ \A k \in Server : lead[j] # 0 /\ lead[j] = lead[k] => j = k
      BY <1>0 DEF LeadersOK
    <2>2. ASSUME NEW j \in Server PROVE lead'[j] <= elections' /\ \A k \in Server : lead'[j] # 0 /\ lead'[j] = lead'[k] => j = k
      BY <2>1, <1>0, <1>1, <1>2
    <2>3. ASSUME NEW j \in Server, lead'[j] = elections' PROVE IsPrefix(decided, rlog[j])
      <3>1. j = i
        BY <2>1, <2>3, <1>0, <1>1, <1>2
      <3> QED
        BY <3>1, <1>1
    <2> QED
      BY <2>2, <2>3, <1>1 DEF LeadersOK, Leads
  <1>6. ASSUME NEW l \in Seq(Entry), LogOK(l) PROVE LogOK(l)'
    <2>1. Ordered(l)' /\ Len(l) <= starts'
      BY <1>1, <1>6 DEF LogOK, Ordered, NotAhead, clerkVars
    <2>2. ASSUME NEW x \in DOMAIN l
          PROVE  /\ l[x].term \in 1..elections'
                 /\ \A j \in Server : lead'[j] = l[x].term => x \in DOMAIN rlog'[j] /\ rlog'[j][x] = l[x]
      <3>1. /\ l[x].term \in 1..elections
            /\ \A j \in Server : lead[j] = l[x].term => x \in DOMAIN rlog[j] /\ rlog[j][x] = l[x]
        BY <1>6 DEF LogOK, FromLeaders
      <3>2. l[x].term \in 1..elections' /\ l[x].term # elections + 1
        BY <3>1, <1>0, <1>1
      <3> QED
        BY <3>1, <3>2, <1>1, <1>2
    <2>3. FromLeaders(l)'
      BY <2>2 DEF FromLeaders
    <2> QED
      BY <2>1, <2>3 DEF LogOK
  <1>7. \A j \in Server : LogOK(rlog[j])'
    <2> SUFFICES ASSUME NEW j \in Server PROVE LogOK(rlog[j])'
      OBVIOUS
    <2>1. PICK s \in Seq(Entry) : s = rlog[j] /\ s = rlog'[j]
      BY <1>0, <1>1
    <2>2. LogOK(s)'
      BY <2>1, <1>6, KVFacts
    <2> QED
      BY <2>1, <2>2
  <1>8. LogOK(decided)'
    <2>1. PICK s \in Seq(Entry) : s = decided /\ s = decided'
      BY <1>0, <1>1
    <2>2. LogOK(s)'
      BY <2>1, <1>6, KVFacts
    <2> QED
      BY <2>1, <2>2
  <1>9. \A j \in Server : next[j] <= Len(rlog'[j]) /\ \A x \in 1..next[j] : rlog'[j][x] = decided[x]
    BY <1>1, KVFacts DEF ServerOK
  <1>10. ASSUME NEW c \in Client PROVE CallOK(c)'
    <2>1. CallOK(c) /\ call'[c] = call[c] /\ current'[c] = current[c] /\ since'[c] = since[c]
      BY <1>1, KVFacts DEF clerkVars
    <2>2. Awaited(c)' = Awaited(c) /\ Awaited(c) = [term |-> call[c].term, command |-> current[c]]
      BY <2>1 DEF Awaited
    <2>3. ASSUME call[c].pc \in {"started", "waiting"}, lead'[call[c].server] # 0
          PROVE  call[c].index <= Len(rlog[call[c].server]) /\ rlog[call[c].server][call[c].index] = Awaited(c)
      <3>1. CASE call[c].server = i
        BY <3>1, <2>2, <2>3, <1>1 DEF CallsTimedOut
      <3>2. CASE call[c].server # i
        <4>1. call[c].server \in Server
          BY <2>1, <2>3 DEF CallOK
        <4>2. lead[call[c].server] # 0
          BY <4>1, <3>2, <2>3, <1>2
        <4> QED
          BY <4>2, <2>1, <2>3 DEF CallOK
      <3> QED
        BY <3>1, <3>2
    <2>4. ASSUME call[c].pc = "answered" PROVE Right(c)'
      <3>1. Right(c) /\ Len(decided') \in Nat
        BY <2>1, <2>4, <1>0, <1>1 DEF CallOK
      <3> QED
        BY <3>1, <2>1, <1>0, <1>4, RightStays
    <2>5. /\ since[c] <= Len(decided) /\ call[c].index <= starts /\ (call[c].pc # "idle" => current[c] # Nil)
          /\ call[c].pc \in {"started", "waiting"} =>
                /\ call[c].server \in Server /\ call[c].index > 0
                /\ call[c].index <= since[c] => decided[call[c].index] # Awaited(c)
      BY <2>1 DEF CallOK
    <2>6. decided' = decided /\ rlog' = rlog /\ starts' = starts
      BY <1>1
    <2> QED
      BY <2>1, <2>2, <2>3, <2>4, <2>5, <2>6 DEF CallOK
  <1> QED
    BY <1>1, <1>3, <1>4, <1>5, <1>7, <1>8, <1>9, <1>10, RaftStep

(* The invariant after a step of Raft that elects nobody: who still leads    *)
(* has kept its log.                                                         *)
LEMMA RaftKeeps ==
    ASSUME KVInv, UNCHANGED <<clerkVars, call, requests, starts, elections, stateVars, deliveryVars, restarts>>,
           NEW r \in [Server -> Seq(Entry)], rlog' = r, NEW d \in Seq(Entry), decided' = d,
           lead' \in [Server -> Nat], DecidedKept, LogsKept, LeadersOK',
           LogOK(d), \A i \in Server : LogOK(r[i]),
           \A i \in Server : next[i] <= Len(r[i]) /\ \A x \in 1..next[i] : r[i][x] = decided[x]
    PROVE  KVInv'
  <1>0. Typed /\ elections \in Nat /\ starts \in Nat
    BY KVFacts, LogsTyped
  <1>1. RaftTyped' /\ call' \in [Client -> CallType]
    BY <1>0 DEF Typed, RaftTyped, ClerksTyped
  <1>2. /\ elections <= elections' /\ elections' \in Nat /\ starts <= starts' /\ starts' \in Nat
        /\ UNCHANGED <<current, requests>> /\ \A i \in Server : rlog'[i] \in Seq(Entry)
    BY <1>0 DEF clerkVars
  <1>3. ASSUME NEW l \in Seq(Entry), LogOK(l) PROVE LogOK(l)'
    BY <1>2, <1>3, LogStays
  <1>4. \A i \in Server : LogOK(rlog[i])'
    <2> SUFFICES ASSUME NEW i \in Server PROVE LogOK(rlog[i])'
      OBVIOUS
    <2>1. PICK s \in Seq(Entry) : s = r[i] /\ s = rlog'[i]
      OBVIOUS
    <2>2. LogOK(s)'
      BY <2>1, <1>3
    <2> QED
      BY <2>1, <2>2
  <1>5. LogOK(decided)'
    <2>1. LogOK(d)'
      BY <1>3
    <2> QED
      BY <2>1
  <1>6. /\ \A i \in Server : Len(rlog'[i]) \in Nat
        /\ Len(decided') \in Nat
    BY <1>2, LenProperties
  <1>7. ASSUME NEW c \in Client PROVE CallOK(c)'
    <2>1. call'[c] = call[c] /\ current'[c] = current[c] /\ since'[c] = since[c]
      BY DEF clerkVars
    <2> QED
      BY <2>1, <1>2, <1>6, CallStays
  <1>8. UNCHANGED <<clerkVars, requests, stateVars, deliveryVars, restarts>>
    OBVIOUS
  <1>9. \A i \in Server : next[i] <= Len(rlog'[i]) /\ \A x \in 1..next[i] : rlog'[i][x] = decided[x]
    OBVIOUS
  <1> QED
    BY <1>1, <1>4, <1>5, <1>7, <1>8, <1>9, RaftStep

(* A former leader steps down.                                               *)
LEMMA StepDownKeeps ==
    ASSUME KVInv, NEW i \in Server, StepDown(i)
    PROVE  KVInv'
  <1>0. Typed /\ LeadersOK /\ lead \in [Server -> Nat] /\ \A j \in Server : Len(rlog[j]) \in Nat
    BY KVFacts, LogsTyped DEF Typed, RaftTyped
  <1>1. /\ lead' = [lead EXCEPT ![i] = 0]
        /\ UNCHANGED <<clerkVars, call, requests, starts, rlog, elections, decided, stateVars, deliveryVars, restarts>>
    BY DEF StepDown
  <1>2. PICK r \in [Server -> Seq(Entry)] : r = rlog
    BY <1>0 DEF Typed, RaftTyped
  <1>3. PICK d \in Seq(Entry) : d = decided
    BY <1>0 DEF Typed, RaftTyped
  <1>4. lead' \in [Server -> Nat] /\ \A j \in Server : lead'[j] # 0 => lead'[j] = lead[j]
    BY <1>0, <1>1
  <1>5. LogsKept /\ DecidedKept
    <2>1. DecidedKept
      BY <1>0, <1>1, LogsTyped DEF DecidedKept
    <2> QED
      BY <2>1, <1>0, <1>1, <1>4 DEF LogsKept
  <1>6. LeadersOK'
    <2>1. \A j \in Server : lead'[j] <= elections
      <3>1. elections \in Nat /\ \A j \in Server : lead[j] \in Nat /\ lead[j] <= elections
        BY <1>0, LogsTyped DEF LeadersOK
      <3> QED
        BY <3>1, <1>0, <1>1
    <2> QED
      BY <2>1, <1>0, <1>1, <1>4 DEF LeadersOK, Leads, GetState
  <1>7. LogOK(d) /\ (\A j \in Server : LogOK(r[j]))
        /\ \A j \in Server : next[j] <= Len(r[j]) /\ \A x \in 1..next[j] : r[j][x] = decided[x]
    BY <1>2, <1>3, KVFacts DEF ServerOK
  <1> QED
    BY <1>1, <1>2, <1>3, <1>4, <1>5, <1>6, <1>7, RaftKeeps

(* A server takes over the log of the newest leader.                         *)
LEMMA AppendEntriesKeeps ==
    ASSUME KVInv, NEW l \in Server, NEW j \in Server, AppendEntries(l, j)
    PROVE  KVInv'
  <1>0. Typed /\ LeadersOK /\ lead \in [Server -> Nat] /\ rlog \in [Server -> Seq(Entry)] /\ decided \in Seq(Entry)
    BY KVFacts DEF Typed, RaftTyped
  <1>1. /\ Leads(l) /\ l # j /\ lead' = [lead EXCEPT ![j] = 0]
        /\ rlog' = [rlog EXCEPT ![j] = IF IsPrefix(rlog[l], rlog[j]) THEN rlog[j] ELSE rlog[l]]
        /\ UNCHANGED <<clerkVars, call, requests, starts, elections, decided, stateVars, deliveryVars, restarts>>
    BY DEF AppendEntries
  <1>2. PICK w \in {rlog[j], rlog[l]} : rlog' = [rlog EXCEPT ![j] = w]
    BY <1>1
  <1>3. PICK r \in [Server -> Seq(Entry)] : r = rlog' /\ r[j] = w /\ \A k \in Server : k # j => r[k] = rlog[k]
    <2>1. w \in Seq(Entry)
      BY <1>0
    <2> QED
      BY <2>1, <1>0, <1>2
  <1>4. PICK d \in Seq(Entry) : d = decided /\ d = decided'
    BY <1>0, <1>1
  <1>5. lead' \in [Server -> Nat] /\ lead'[j] = 0 /\ \A k \in Server : k # j => lead'[k] = lead[k]
    BY <1>0, <1>1
  <1>6. LogsKept /\ DecidedKept
    <2>1. DecidedKept
      BY <1>0, <1>1, LogsTyped DEF DecidedKept
    <2>2. \A k \in Server : Len(rlog[k]) \in Nat
      BY <1>0, LogsTyped
    <2> QED
      BY <2>1, <2>2, <1>3, <1>5 DEF LogsKept
  <1>7. LeadersOK'
    <2>1. \A k \in Server : lead'[k] <= elections
      <3>1. elections \in Nat /\ \A k \in Server : lead[k] \in Nat /\ lead[k] <= elections
        BY <1>0, LogsTyped DEF LeadersOK
      <3>2. ASSUME NEW k \in Server PROVE lead'[k] <= elections
        <4>1. CASE k = j
          <5>1. 0 <= elections
            BY <3>1
          <5> QED
            BY <5>1, <4>1, <1>5
        <4>2. CASE k # j
          BY <4>2, <3>1, <1>5
        <4> QED
          BY <4>1, <4>2
      <3> QED
        BY <3>2
    <2> QED
      BY <2>1, <1>0, <1>1, <1>3, <1>4, <1>5 DEF LeadersOK, Leads, GetState
  <1>8. LogOK(d) /\ (\A k \in Server : LogOK(r[k]))
    BY <1>2, <1>3, <1>4, KVFacts
  <1>9. ASSUME NEW k \in Server PROVE next[k] <= Len(r[k]) /\ \A x \in 1..next[k] : r[k][x] = decided[x]
    <2>1. next[k] <= Len(rlog[k]) /\ (\A x \in 1..next[k] : rlog[k][x] = decided[x]) /\ next[k] <= Len(decided)
      BY KVFacts DEF ServerOK
    <2>2. CASE r[k] = rlog[k]
      BY <2>1, <2>2
    <2>3. CASE r[k] = rlog[l]
      <3>1. IsPrefix(decided, rlog[l])
        BY <1>0, <1>1 DEF LeadersOK
      <3>2. Len(decided) <= Len(rlog[l]) /\ \A x \in 1..Len(decided) : decided[x] = rlog[l][x]
        BY <3>1, <1>0, PrefixPlaces
      <3>3. next[k] \in Nat /\ Len(decided) \in Nat /\ Len(rlog[l]) \in Nat
        BY <1>0, LogsTyped
      <3> QED
        BY <3>2, <3>3, <2>1, <2>3
    <2> QED
      BY <2>2, <2>3, <1>2, <1>3
  <1> QED
    BY <1>1, <1>3, <1>4, <1>5, <1>6, <1>7, <1>8, <1>9, RaftKeeps

(* The newest leader commits more: it holds what was decided.                *)
LEMMA CommitKeeps ==
    ASSUME KVInv, NEW l \in Server, NEW n \in 1..Len(rlog[l]), Commit(l, n)
    PROVE  KVInv'
  <1>0. Typed /\ LeadersOK /\ lead \in [Server -> Nat] /\ rlog \in [Server -> Seq(Entry)] /\ decided \in Seq(Entry)
    BY KVFacts DEF Typed, RaftTyped
  <1>1. /\ Leads(l) /\ n > Len(decided) /\ decided' = SubSeq(rlog[l], 1, n)
        /\ UNCHANGED <<clerkVars, call, requests, starts, rlog, lead, elections, stateVars, deliveryVars, restarts>>
    BY DEF Commit
  <1>2. Len(decided) \in Nat /\ n \in Nat /\ n \in 0..Len(rlog[l]) /\ starts \in Nat
        /\ \A k \in Server : Len(rlog[k]) \in Nat
    BY <1>0, LogsTyped
  <1>3. PICK s \in Seq(Entry) : s = rlog[l]
    BY <1>0
  <1>4. PICK d \in Seq(Entry) : d = SubSeq(s, 1, n) /\ Len(d) = n /\ \A x \in 1..n : d[x] = s[x]
    BY <1>2, <1>3, BeginningOf
  <1>5. PICK r \in [Server -> Seq(Entry)] : r = rlog
    BY <1>0
  <1>6. LogOK(d) /\ \A k \in Server : LogOK(r[k])
    <2>1. LogOK(s) /\ \A k \in Server : LogOK(r[k])
      BY <1>3, <1>5, KVFacts
    <2> QED
      BY <2>1, <1>2, <1>3, <1>4, BeginningOK
  <1>7. Len(decided) <= Len(s) /\ \A x \in 1..Len(decided) : decided[x] = s[x]
    <2>1. IsPrefix(decided, s)
      BY <1>0, <1>1, <1>3 DEF LeadersOK
    <2> QED
      BY <2>1, <1>0, <1>3, PrefixPlaces
  <1>8. DecidedKept
    BY <1>1, <1>2, <1>3, <1>4, <1>7 DEF DecidedKept
  <1>9. LogsKept
    BY <1>1, <1>2 DEF LogsKept
  <1>10. LeadersOK'
    <2>1. Len(d) <= Len(s) /\ \A x \in 1..Len(d) : d[x] = s[x]
      BY <1>2, <1>3, <1>4
    <2>3. IsPrefix(d, s)
      BY <2>1, PrefixPlaces
    <2>2. ASSUME NEW k \in Server, Leads(k) PROVE IsPrefix(d, rlog[k])
      <3>1. k = l
        BY <2>2, <1>0, <1>1 DEF LeadersOK, Leads, GetState
      <3> QED
        BY <3>1, <2>3, <1>3
    <2> QED
      BY <2>2, <1>0, <1>1, <1>3, <1>4 DEF LeadersOK, Leads, GetState
  <1>11. \A k \in Server : next[k] <= Len(r[k]) /\ \A x \in 1..next[k] : r[k][x] = decided[x]
    BY <1>5, KVFacts DEF ServerOK
  <1>12. rlog' = r /\ decided' = d /\ lead' \in [Server -> Nat]
    BY <1>0, <1>1, <1>3, <1>4, <1>5
  <1> QED
    BY <1>1, <1>6, <1>8, <1>9, <1>10, <1>11, <1>12, RaftKeeps

-----------------------------------------------------------------------------
(* DoApply, and the snapshots.                                               *)

(* The entry at x as the log of decided entries has it.                      *)
LEMMA WriteAt ==
    ASSUME Typed, NEW x \in 1..Len(decided), NEW c
    PROVE  WriteOf(decided, x, c) <=> ~ IsGet(Decided(x)) /\ Decided(x).client = c
  BY DEF WriteOf, Decided

(* Of two writes of one client, the later one in the log is the newer one.   *)
LEMMA InOrder ==
    ASSUME Typed, LogOK(decided), NEW x \in 1..Len(decided), NEW y \in 1..x, NEW c \in Client,
           WriteOf(decided, x, c), WriteOf(decided, y, c)
    PROVE  Decided(y) = Decided(x) \/ Decided(y).id < Decided(x).id
  <1>1. x \in DOMAIN decided
    BY LogsTyped
  <1> QED
    BY <1>1 DEF LogOK, Ordered, Decided

(* dedup tells exactly the writes that are in the log already.               *)
LEMMA DuplicateIff ==
    ASSUME Typed, LogOK(decided), NEW n \in Nat, NEW x \in 1..Len(decided), x = n + 1,
           NEW d \in Dedup, Remembers(d, n), ~ IsGet(Decided(x))
    PROVE  Duplicate(d, Decided(x)) <=> ~ FirstAt(x)
  <1>0. PICK m \in WriteCommand : m = Decided(x) /\ m.id \in Nat /\ m.client \in Client
    BY DecidedTyped
  <1>1. PICK c \in Client : c = m.client
    BY <1>0
  <1>2. WriteOf(decided, x, c)
    BY <1>0, <1>1, WriteAt
  <1>3. Len(decided) \in Nat
    BY LogsTyped
  <1>4. \A y \in 1..n : y \in 1..Len(decided) /\ y \in 1..x
    BY <1>3
  <1>5. n = x - 1
    OBVIOUS
  <1>6. d[c] \in Nat \cup {Nil} /\ Nil \notin Nat
    BY KVAssumption DEF Dedup
  <1>7. ASSUME d[c] = m.id PROVE ~ FirstAt(x)
    <2>1. d[c] # Nil
      BY <1>0, <1>6, <1>7
    <2>2. PICK y \in 1..n : WriteOf(decided, y, c) /\ decided[y].command.id = d[c]
      BY <2>1 DEF Remembers
    <2>3. Decided(y) = Decided(x) \/ Decided(y).id < Decided(x).id
      BY <2>2, <1>2, <1>4, InOrder
    <2>4. Decided(y).id = m.id
      BY <2>2, <1>7 DEF Decided
    <2>5. Decided(y) = Decided(x)
      BY <2>3, <2>4, <1>0
    <2> QED
      BY <2>5, <1>5 DEF FirstAt
  <1>8. ASSUME ~ FirstAt(x) PROVE d[c] = m.id
    <2>1. PICK y \in 1..n : Decided(y) = m
      BY <1>0, <1>5, <1>8 DEF FirstAt
    <2>2. WriteOf(decided, y, c)
      BY <2>1, <1>0, <1>1, <1>4, WriteAt
    <2>3. d[c] # Nil
      BY <2>2 DEF Remembers
    <2>4. m.id <= d[c]
      BY <2>1, <2>2, <2>3 DEF Remembers, Decided
    <2>5. PICK z \in 1..n : WriteOf(decided, z, c) /\ decided[z].command.id = d[c]
      BY <2>3 DEF Remembers
    <2>6. Decided(z) = Decided(x) \/ Decided(z).id < Decided(x).id
      BY <2>5, <1>2, <1>4, InOrder
    <2>7. d[c] = m.id \/ d[c] < m.id
      BY <2>5, <2>6, <1>0 DEF Decided
    <2> QED
      BY <2>3, <2>4, <2>7, <1>0, <1>6
  <1> QED
    BY <1>0, <1>1, <1>7, <1>8 DEF Duplicate

(* A Get changes nothing that dedup remembers.                               *)
LEMMA RemembersGet ==
    ASSUME NEW n \in Nat, NEW x \in Nat, x = n + 1, NEW d, Remembers(d, n), IsGet(Decided(x))
    PROVE  Remembers(d, x)
  <1>1. \A y \in 1..x : y \in 1..n \/ y = x
    OBVIOUS
  <1>2. \A y \in 1..n : y \in 1..x
    OBVIOUS
  <1>3. \A c : ~ WriteOf(decided, x, c)
    BY DEF WriteOf, Decided
  <1> QED
    BY <1>1, <1>2, <1>3 DEF Remembers

(* With its id, dedup remembers the next write too.                          *)
LEMMA RemembersWrite ==
    ASSUME Typed, LogOK(decided), NEW n \in Nat, NEW x \in 1..Len(decided), x = n + 1,
           NEW d \in Dedup, Remembers(d, n), NEW m \in WriteCommand, m = Decided(x), ~ IsGet(m),
           m.id \in Nat, m.client \in Client
    PROVE  Remembers([d EXCEPT ![m.client] = m.id], x)
  <1> DEFINE e == [d EXCEPT ![m.client] = m.id]
  <1>0. Len(decided) \in Nat /\ \A y \in 1..x : y \in 1..Len(decided) /\ (y \in 1..n \/ y = x)
    BY LogsTyped
  <1>1. \A y \in 1..n : y \in 1..x
    OBVIOUS
  <1>2. m.id # Nil
    BY KVAssumption
  <1>3. ASSUME NEW c \in Client
        PROVE  /\ e[c] = Nil => \A y \in 1..x : ~WriteOf(decided, y, c)
               /\ e[c] # Nil => /\ \E y \in 1..x : WriteOf(decided, y, c) /\ decided[y].command.id = e[c]
                                /\ \A y \in 1..x : WriteOf(decided, y, c) => decided[y].command.id <= e[c]
    <2>1. CASE c = m.client
      <3>1. e[c] = m.id
        BY <2>1 DEF Dedup
      <3>2. WriteOf(decided, x, c) /\ decided[x].command.id = m.id
        BY <2>1, WriteAt DEF Decided
      <3>3. ASSUME NEW y \in 1..x, WriteOf(decided, y, c) PROVE decided[y].command.id <= m.id
        <4>1. Decided(y) = Decided(x) \/ Decided(y).id < Decided(x).id
          BY <3>2, <3>3, InOrder
        <4>2. Decided(y).id \in Nat
          BY <3>3, <1>0, DecidedTyped, WriteAt
        <4> QED
          BY <4>1, <4>2 DEF Decided
      <3>4. x \in 1..x
        OBVIOUS
      <3> QED
        BY <3>1, <3>2, <3>3, <3>4, <1>2
    <2>2. CASE c # m.client
      <3>1. e[c] = d[c]
        BY <2>2 DEF Dedup
      <3>2. ~ WriteOf(decided, x, c)
        BY <2>2, WriteAt
      <3>3. /\ d[c] = Nil => \A y \in 1..n : ~WriteOf(decided, y, c)
            /\ d[c] # Nil => /\ \E y \in 1..n : WriteOf(decided, y, c) /\ decided[y].command.id = d[c]
                             /\ \A y \in 1..n : WriteOf(decided, y, c) => decided[y].command.id <= d[c]
        BY DEF Remembers
      <3> QED
        BY <3>1, <3>2, <3>3, <1>0, <1>1
    <2> QED
      BY <2>1, <2>2
  <1> QED
    BY <1>3 DEF Remembers

(* apply makes of the server what one more entry stands for.                 *)
LEMMA AppliedIs ==
    ASSUME KVInv, NEW i \in Server, NEW x \in 1..Len(decided), x = next[i] + 1
    PROVE  /\ Applied(i, x).kv = Replay(x) /\ Applied(i, x).kv \in Values
           /\ Remembers(Applied(i, x).dedup, x) /\ Applied(i, x).dedup \in Dedup
           /\ Applied(i, x).lastApplied \in Nat /\ Applied(i, x).lastApplied <= x
  <1>0. /\ Typed /\ LogOK(decided) /\ ServerOK(i) /\ Len(decided) \in Nat
        /\ next[i] \in Nat /\ lastApplied[i] \in Nat
    BY KVFacts, LogsTyped
  <1>1. PICK n \in Nat : n = next[i] /\ x = n + 1
    BY <1>0
  <1>2. PICK d \in Dedup : d = dedup[i]
    BY <1>0 DEF Typed, ServersTyped
  <1>3. PICK v \in Values : v = kv[i]
    BY <1>0 DEF Typed, ServersTyped
  <1>4. v = Replay(n) /\ Remembers(d, n) /\ lastApplied[i] <= n
    BY <1>0, <1>1, <1>2, <1>3 DEF ServerOK
  <1>5. PICK la \in Nat : la = lastApplied[i] /\ la <= x
    BY <1>0, <1>1, <1>4
  <1>6. PICK m \in Command : m = Decided(x)
    BY <1>0, DecidedTyped
  <1>7. CASE IsGet(m)
    <2>1. Applied(i, x) = [kv |-> v, dedup |-> d, lastApplied |-> x]
      BY <1>2, <1>3, <1>6, <1>7 DEF Applied, State
    <2>2. Replay(x) = v
      BY <1>1, <1>4, <1>6, <1>7, ReplayRepeated DEF FirstAt
    <2>3. Remembers(d, x)
      BY <1>1, <1>4, <1>6, <1>7, RemembersGet
    <2> QED
      BY <2>1, <2>2, <2>3
  <1>8. CASE ~ IsGet(m)
    <2>1. m \in WriteCommand /\ m.id \in Nat /\ m.client \in Client /\ m.key \in Key
      BY <1>0, <1>6, <1>8, DecidedTyped
    <2>2. Remembers([d EXCEPT ![m.client] = m.id], x)
      BY <2>1, <1>0, <1>1, <1>4, <1>6, <1>8, RemembersWrite
    <2>3. Duplicate(d, m) <=> ~ FirstAt(x)
      BY <1>0, <1>1, <1>4, <1>6, <1>8, DuplicateIff
    <2>4. CASE Duplicate(d, m)
      <3>1. Applied(i, x) = [kv |-> v, dedup |-> d, lastApplied |-> la]
        BY <2>4, <1>2, <1>3, <1>5, <1>6, <1>8 DEF Applied, State
      <3>2. Replay(x) = v
        BY <2>3, <2>4, <1>1, <1>4, ReplayRepeated
      <3>3. [d EXCEPT ![m.client] = m.id] = d
        BY <2>1, <2>4 DEF Duplicate, Dedup
      <3> QED
        BY <3>1, <3>2, <3>3, <2>2, <1>5
    <2>5. CASE ~ Duplicate(d, m)
      <3>1. PICK w : w = [v EXCEPT ![m.key] = Written(@, m)]
        OBVIOUS
      <3>2. PICK e : e = [d EXCEPT ![m.client] = m.id]
        OBVIOUS
      <3>3. Applied(i, x) = [kv |-> w, dedup |-> e, lastApplied |-> x]
        BY <3>1, <3>2, <2>5, <1>2, <1>3, <1>6, <1>8 DEF Applied
      <3>4. Replay(x) = w
        BY <3>1, <2>1, <2>3, <2>5, <1>0, <1>1, <1>4, <1>6, ReplayNext
      <3>5. e \in Dedup
        BY <3>2, <2>1 DEF Dedup
      <3>6. w \in Values
        <4>1. v[m.key] \in Seq(Nat)
          BY <2>1 DEF Values
        <4>2. <<m.id>> \in Seq(Nat) /\ Append(v[m.key], m.id) \in Seq(Nat)
          BY <4>1, <2>1, AppendProperties
        <4>3. Written(v[m.key], m) \in Seq(Nat)
          BY <4>2 DEF Written
        <4> QED
          BY <4>3, <3>1 DEF Values
      <3>7. Remembers(e, x) /\ x \in Nat /\ x <= x
        BY <3>2, <2>2, <1>1
      <3>8. Applied(i, x).kv = w /\ Applied(i, x).dedup = e /\ Applied(i, x).lastApplied = x
        BY <3>3
      <3> QED
        BY <3>4, <3>5, <3>6, <3>7, <3>8
    <2> QED
      BY <2>4, <2>5
  <1> QED
    BY <1>7, <1>8

(* The snapshot is that of a prefix as well.                                 *)
SnapshotOK(p, n) ==
    p \in Snapshots /\ p.index <= n /\ p.kv = Replay(p.index) /\ Remembers(p.dedup, p.index)

(* Whether apply takes one or not.                                           *)
LEMMA SnapshotIs ==
    ASSUME KVInv, NEW i \in Server, NEW x \in 1..Len(decided), x = next[i] + 1, NEW a,
           a.kv = Replay(x), a.kv \in Values, Remembers(a.dedup, x), a.dedup \in Dedup
    PROVE  SnapshotOK(Snapshot(i, x, a), x)
  <1>0. Typed /\ ServerOK(i) /\ next[i] \in Nat /\ Len(decided) \in Nat
    BY KVFacts, LogsTyped
  <1>1. PICK p \in Snapshots : p = [index |-> x, kv |-> a.kv, dedup |-> a.dedup]
    <2>1. x \in Nat
      BY <1>0
    <2> QED
      BY <2>1 DEF Snapshots
  <1>2. SnapshotOK(p, x)
    <2>1. p.index = x /\ p.kv = a.kv /\ p.dedup = a.dedup
      BY <1>1
    <2>2. x <= x
      BY <1>0
    <2> QED
      BY <2>1, <2>2 DEF SnapshotOK
  <1>3. PICK q \in Snapshots : q = persister[i]
    BY <1>0 DEF Typed, ServersTyped
  <1>4. SnapshotOK(q, x)
    <2>1. q.index <= next[i] /\ q.kv = Replay(q.index) /\ Remembers(q.dedup, q.index)
      BY <1>0, <1>3 DEF ServerOK
    <2>2. q.index \in Nat
      BY <1>3 DEF Snapshots
    <2>3. q.index <= x
      BY <2>1, <2>2, <1>0
    <2> QED
      BY <2>1, <2>3 DEF SnapshotOK
  <1>5. Snapshot(i, x, a) = p \/ Snapshot(i, x, a) = q
    BY <1>1, <1>3 DEF Snapshot
  <1> QED
    BY <1>2, <1>4, <1>5

(* The snapshot of a server, in these words.                                 *)
LEMMA SnapshotNow ==
    ASSUME KVInv, NEW i \in Server
    PROVE  SnapshotOK(persister[i], next[i])
  BY KVFacts DEF Typed, ServersTyped, ServerOK, SnapshotOK

(* A server that is what n entries make of it.                               *)
LEMMA ServerMade ==
    ASSUME Typed, UNCHANGED decided, NEW i \in Server, NEW n \in Nat, next'[i] = n, n <= Len(decided),
           lastApplied'[i] <= n, overtaken'[i] <= n,
           n <= Len(rlog'[i]), \A x \in 1..n : rlog'[i][x] = decided[x],
           kv'[i] = Replay(n), NEW d, dedup'[i] = d, Remembers(d, n),
           NEW p, persister'[i] = p, SnapshotOK(p, n)
    PROVE  ServerOK(i)'
  <1>1. p.index \in Nat /\ p.index <= n /\ p.kv = Replay(p.index) /\ Remembers(p.dedup, p.index)
    BY DEF SnapshotOK, Snapshots
  <1>2. Replay(n)' = Replay(n) /\ Replay(p.index)' = Replay(p.index)
    BY <1>1, ReplaySame
  <1>3. Remembers(d, n)' /\ Remembers(p.dedup, p.index)'
    BY <1>1 DEF Remembers, WriteOf
  <1> QED
    BY <1>1, <1>2, <1>3 DEF ServerOK

(* The invariant after a step of a server: nothing more is decided, and who  *)
(* leads has kept its log.                                                   *)
LEMMA ServersStep ==
    ASSUME KVInv, UNCHANGED <<clerkVars, requests, starts, elections, decided>>,
           NEW r \in [Server -> Seq(Entry)], rlog' = r, lead' \in [Server -> Nat], LogsKept, LeadersOK',
           \A i \in Server : LogOK(r[i]),
           ServersTyped', call' \in [Client -> CallType], \A i \in Server : ServerOK(i)',
           \A c \in Client : call'[c] = call[c] \/ CallOK(c)'
    PROVE  KVInv'
  <1>0. Typed /\ elections \in Nat /\ starts \in Nat /\ decided \in Seq(Entry) /\ Len(decided) \in Nat
    BY KVFacts, LogsTyped
  <1>1. RaftTyped' /\ ClerksTyped'
    BY <1>0 DEF Typed, RaftTyped, ClerksTyped, clerkVars
  <1>2. /\ elections <= elections' /\ elections' \in Nat /\ starts <= starts' /\ starts' \in Nat
        /\ UNCHANGED <<current, requests>> /\ \A i \in Server : rlog'[i] \in Seq(Entry)
    BY <1>0 DEF clerkVars
  <1>3. ASSUME NEW l \in Seq(Entry), LogOK(l) PROVE LogOK(l)'
    BY <1>2, <1>3, LogStays
  <1>4. \A i \in Server : LogOK(rlog[i])'
    <2> SUFFICES ASSUME NEW i \in Server PROVE LogOK(rlog[i])'
      OBVIOUS
    <2>1. PICK s \in Seq(Entry) : s = r[i] /\ s = rlog'[i]
      OBVIOUS
    <2>2. LogOK(s)'
      BY <2>1, <1>3
    <2> QED
      BY <2>1, <2>2
  <1>5. LogOK(decided)'
    <2>1. PICK s \in Seq(Entry) : s = decided /\ s = decided'
      BY <1>0
    <2>2. LogOK(s)'
      BY <2>1, <1>3, KVFacts
    <2> QED
      BY <2>1, <2>2
  <1>6. DecidedKept /\ Len(decided') \in Nat /\ \A i \in Server : Len(rlog'[i]) \in Nat
    BY <1>0, <1>2, LenProperties DEF DecidedKept
  <1>7. ASSUME NEW c \in Client PROVE CallOK(c)'
    <2>1. current'[c] = current[c] /\ since'[c] = since[c]
      BY DEF clerkVars
    <2>2. CASE call'[c] = call[c]
      BY <2>1, <2>2, <1>2, <1>6, CallStays
    <2> QED
      BY <2>2
  <1>8. \A c \in Client : ClerkOK(c)'
    BY KVFacts DEF ClerkOK, clerkVars
  <1> QED
    BY <1>1, <1>4, <1>5, <1>7, <1>8 DEF KVInv, Typed

(* The call that DoApply answers: its entry is the one that was decided, and *)
(* that happened after the clerk was asked.                                  *)
LEMMA AnswerIs ==
    ASSUME KVInv, NEW i \in Server, NEW x \in 1..Len(decided), NEW n \in Nat, x <= n, n <= Len(decided),
           rlog[i][x] = decided[x], kv'[i] = Replay(n), Replay(n) \in Values, Answer(i, x),
           UNCHANGED <<clerkVars, starts, decided>>
    PROVE  call' \in [Client -> CallType] /\ \A c \in Client : call'[c] = call[c] \/ CallOK(c)'
  <1>0. Typed /\ call \in [Client -> CallType] /\ Len(decided) \in Nat /\ starts \in Nat /\ x \in Nat
    BY KVFacts, LogsTyped DEF Typed, ClerksTyped
  <1>1. ASSUME NEW c \in Client, c \in Answered(i, x)
        PROVE  since[c] \in Nat /\ since[c] < x /\ Decided(x) = current[c] /\ current[c] # Nil
    <2>1. lead[i] # 0 /\ call[c].pc = "waiting" /\ call[c].server = i /\ call[c].index = x
      BY <1>1 DEF Answered, GetState, WaitingAt
    <2>2. CallOK(c) /\ since[c] \in Nat
      BY <1>0, KVFacts, CallTyped
    <2>3. /\ rlog[i][x] = Awaited(c) /\ (x <= since[c] => decided[x] # Awaited(c)) /\ current[c] # Nil
      BY <2>1, <2>2 DEF CallOK
    <2>4. decided[x] = Awaited(c) /\ ~ (x <= since[c])
      BY <2>3
    <2>5. Decided(x) = current[c]
      BY <2>4 DEF Decided, Awaited
    <2> QED
      BY <2>2, <2>3, <2>4, <2>5, <1>0
  <1>2. /\ Decided(x).key \in Key /\ Replay(n)[Decided(x).key] \in Seq(Nat)
    <2>1. Decided(x).key \in Key
      BY <1>0, DecidedTyped
    <2> QED
      BY <2>1 DEF Values
  <1>3. ASSUME NEW c \in Client
        PROVE  /\ call'[c] \in CallType
               /\ c \notin Answered(i, x) => call'[c] = call[c]
               /\ c \in Answered(i, x) =>
                    /\ call'[c].pc = "answered" /\ call'[c].index = 0
                    /\ IsGet(current[c]) => call'[c].value = Replay(n)[Decided(x).key]
    <2>1. call'[c] = IF c \in Answered(i, x)
                     THEN [Idle EXCEPT !.pc = "answered",
                                       !.value = IF IsGet(current[c]) THEN kv'[i][Decided(x).key] ELSE << >>]
                     ELSE call[c]
      BY DEF Answer
    <2>2. CASE c \notin Answered(i, x)
      BY <2>1, <2>2, <1>0
    <2>3. CASE c \in Answered(i, x)
      <3>1. PICK v \in Seq(Nat) : v = IF IsGet(current[c]) THEN Replay(n)[Decided(x).key] ELSE << >>
        <4>1. << >> \in Seq(Nat)
          OBVIOUS
        <4>2. CASE IsGet(current[c])
          BY <4>2, <1>2
        <4>3. CASE ~ IsGet(current[c])
          BY <4>1, <4>3
        <4> QED
          BY <4>2, <4>3
      <3>2. PICK k : k = [Idle EXCEPT !.pc = "answered", !.value = v] /\ k = call'[c]
        BY <3>1, <2>1, <2>3
      <3>3. k \in CallType
        <4>1. k = [pc |-> "answered", server |-> Nil, index |-> 0, term |-> 0, value |-> v]
          BY <3>2 DEF Idle
        <4> QED
          BY <4>1 DEF CallType
      <3>4. k.pc = "answered" /\ k.index = 0 /\ k.value = v
        BY <3>2 DEF Idle
      <3> QED
        BY <3>1, <3>2, <3>3, <3>4, <2>3
    <2> QED
      BY <2>2, <2>3
  <1>4. call' \in [Client -> CallType]
    <2>1. call' = [c \in Client |-> call'[c]]
      BY DEF Answer
    <2> QED
      BY <2>1, <1>3
  <1>5. ASSUME NEW c \in Client, c \in Answered(i, x) PROVE CallOK(c)'
    <2>1. /\ since[c] \in Nat /\ since[c] < x /\ Decided(x) = current[c] /\ current[c] # Nil
          /\ call'[c].pc = "answered" /\ call'[c].index = 0
          /\ IsGet(current[c]) => call'[c].value = Replay(n)[Decided(x).key]
      BY <1>1, <1>3, <1>5
    <2>2. current' = current /\ since' = since /\ decided' = decided /\ starts' = starts
      BY DEF clerkVars
    <2>3. Replay(n)' = Replay(n) /\ Decided(x)' = Decided(x)
      BY <2>2, ReplaySame DEF Decided
    <2>4. n \in since[c]..Len(decided) /\ since[c] <= Len(decided)
      BY <2>1, <1>0
    <2>5. Right(c)'
      <3>1. CASE IsGet(current[c])
        BY <3>1, <2>1, <2>2, <2>3, <2>4 DEF Right
      <3>2. CASE ~ IsGet(current[c])
        BY <3>2, <2>1, <2>2, <2>3 DEF Right
      <3> QED
        BY <3>1, <3>2
    <2> QED
      BY <2>1, <2>2, <2>4, <2>5, <1>0 DEF CallOK
  <1> QED
    BY <1>3, <1>4, <1>5

(* The next command is applied and answered.                                 *)
LEMMA DoApplyKeeps ==
    ASSUME KVInv, NEW i \in Server, DoApply(i)
    PROVE  KVInv'
  <1>0. /\ Typed /\ LeadersOK /\ ServersTyped /\ next[i] \in Nat /\ Len(decided) \in Nat /\ decided \in Seq(Entry)
        /\ rlog \in [Server -> Seq(Entry)] /\ lead \in [Server -> Nat]
        /\ \A j \in Server : Len(rlog[j]) \in Nat
    BY KVFacts, LogsTyped DEF Typed, RaftTyped
  <1>1. PICK x : x = next[i] + 1
    OBVIOUS
  <1>2. PICK a : a = Applied(i, x)
    OBVIOUS
  <1>3. /\ overtaken[i] = 0 /\ x <= Len(decided) /\ IsPrefix(SubSeq(decided, 1, x), rlog[i])
        /\ next' = [next EXCEPT ![i] = x] /\ kv' = [kv EXCEPT ![i] = a.kv]
        /\ dedup' = [dedup EXCEPT ![i] = a.dedup] /\ lastApplied' = [lastApplied EXCEPT ![i] = a.lastApplied]
        /\ persister' = [persister EXCEPT ![i] = Snapshot(i, x, a)] /\ Answer(i, x)
        /\ UNCHANGED <<clerkVars, requests, starts, raftVars, overtaken, restarts>>
    BY <1>1, <1>2 DEF DoApply
  <1>4. x \in 1..Len(decided) /\ x \in Nat
    BY <1>0, <1>1, <1>3
  <1>5. /\ a.kv = Replay(x) /\ a.kv \in Values /\ Remembers(a.dedup, x) /\ a.dedup \in Dedup
        /\ a.lastApplied \in Nat /\ a.lastApplied <= x
    BY <1>1, <1>2, <1>4, AppliedIs
  <1>6. PICK p : p = Snapshot(i, x, a) /\ SnapshotOK(p, x)
    BY <1>1, <1>4, <1>5, SnapshotIs
  <1>7. p \in Snapshots
    BY <1>6 DEF SnapshotOK
  <1>8. /\ ServersTyped' /\ next'[i] = x /\ kv'[i] = Replay(x) /\ dedup'[i] = a.dedup
        /\ lastApplied'[i] = a.lastApplied /\ persister'[i] = p /\ overtaken'[i] = 0
        /\ \A j \in Server : j # i =>
             /\ next'[j] = next[j] /\ lastApplied'[j] = lastApplied[j] /\ overtaken'[j] = overtaken[j]
             /\ kv'[j] = kv[j] /\ dedup'[j] = dedup[j] /\ persister'[j] = persister[j]
    BY <1>0, <1>3, <1>4, <1>5, <1>6, <1>7 DEF ServersTyped
  <1>9. rlog' = rlog /\ lead' = lead /\ elections' = elections /\ decided' = decided
    BY <1>3 DEF raftVars
  <1>10. x <= Len(rlog[i]) /\ \A y \in 1..x : rlog[i][y] = decided[y]
    <2>1. PICK s \in Seq(Entry) : s = SubSeq(decided, 1, x) /\ Len(s) = x /\ \A y \in 1..x : s[y] = decided[y]
      <3>1. x \in 0..Len(decided)
        BY <1>4
      <3> QED
        BY <3>1, <1>0, BeginningOf
    <2>2. IsPrefix(s, rlog[i]) /\ rlog[i] \in Seq(Entry)
      BY <2>1, <1>0, <1>3
    <2>3. Len(s) <= Len(rlog[i]) /\ \A y \in 1..Len(s) : s[y] = rlog[i][y]
      BY <2>2, PrefixPlaces
    <2> QED
      BY <2>1, <2>3
  <1>11. ServerOK(i)'
    <2>1. x <= Len(rlog'[i]) /\ (\A y \in 1..x : rlog'[i][y] = decided[y]) /\ UNCHANGED decided
          /\ lastApplied'[i] <= x /\ overtaken'[i] <= x
      BY <1>4, <1>5, <1>8, <1>9, <1>10
    <2> QED
      BY <2>1, <1>0, <1>3, <1>4, <1>5, <1>6, <1>8, ServerMade
  <1>12. DecidedKept /\ Len(decided') \in Nat
    BY <1>0, <1>9 DEF DecidedKept
  <1>13. ASSUME NEW j \in Server, j # i PROVE ServerOK(j)'
    <2>1. next[j] <= Len(rlog'[j]) /\ \A y \in 1..next[j] : rlog'[j][y] = decided[y]
      BY <1>9, KVFacts DEF ServerOK
    <2> QED
      BY <2>1, <1>8, <1>12, <1>13, ServerStays
  <1>14. call' \in [Client -> CallType] /\ \A c \in Client : call'[c] = call[c] \/ CallOK(c)'
    <2>1. rlog[i][x] = decided[x] /\ x <= x /\ x <= Len(decided) /\ UNCHANGED <<clerkVars, starts, decided>>
      BY <1>3, <1>4, <1>9, <1>10
    <2>2. Replay(x) \in Values
      BY <1>5
    <2> QED
      BY <2>1, <2>2, <1>3, <1>4, <1>8, AnswerIs
  <1>15. LogsKept /\ LeadersOK'
    BY <1>0, <1>9 DEF LogsKept, LeadersOK, Leads, GetState
  <1>16. PICK r \in [Server -> Seq(Entry)] : r = rlog /\ r = rlog'
    BY <1>0, <1>9
  <1>17. (\A j \in Server : LogOK(r[j])) /\ lead' \in [Server -> Nat]
    BY <1>0, <1>9, <1>16, KVFacts
  <1>18. \A j \in Server : ServerOK(j)'
    BY <1>11, <1>13
  <1>19. UNCHANGED <<clerkVars, requests, starts, elections, decided>>
    BY <1>3, <1>9
  <1> QED
    BY <1>8, <1>14, <1>15, <1>16, <1>17, <1>18, <1>19, ServersStep

(* A command that a snapshot overtook is answered without being applied:     *)
(* the snapshot holds what it did.                                           *)
LEMMA ApplyRejectedKeeps ==
    ASSUME KVInv, NEW i \in Server, ApplyRejected(i)
    PROVE  KVInv'
  <1>0. /\ Typed /\ LeadersOK /\ ServersTyped /\ ServerOK(i)
        /\ next[i] \in Nat /\ overtaken[i] \in Nat /\ Len(decided) \in Nat
        /\ rlog \in [Server -> Seq(Entry)] /\ lead \in [Server -> Nat]
        /\ \A j \in Server : Len(rlog[j]) \in Nat
    BY KVFacts, LogsTyped DEF Typed, RaftTyped
  <1>1. /\ overtaken[i] # 0 /\ overtaken' = [overtaken EXCEPT ![i] = 0]
        /\ Answer(i, overtaken[i]) /\ UNCHANGED stateVars
        /\ UNCHANGED <<clerkVars, requests, starts, raftVars, next, persister, restarts>>
    BY DEF ApplyRejected
  <1>2. /\ overtaken[i] <= next[i] /\ next[i] <= Len(decided) /\ kv[i] = Replay(next[i])
        /\ \A x \in 1..next[i] : rlog[i][x] = decided[x]
    BY <1>0 DEF ServerOK
  <1>3. PICK x \in 1..Len(decided) : x = overtaken[i] /\ x <= next[i] /\ rlog[i][x] = decided[x]
    BY <1>0, <1>1, <1>2
  <1>4. /\ rlog' = rlog /\ lead' = lead /\ elections' = elections /\ decided' = decided
        /\ kv' = kv /\ dedup' = dedup /\ lastApplied' = lastApplied
    BY <1>1 DEF raftVars, stateVars
  <1>5. ServersTyped' /\ overtaken'[i] = 0 /\ \A j \in Server : j # i => overtaken'[j] = overtaken[j]
    BY <1>0, <1>1, <1>4 DEF ServersTyped
  <1>6. call' \in [Client -> CallType] /\ \A c \in Client : call'[c] = call[c] \/ CallOK(c)'
    <2>1. PICK n \in Nat : n = next[i]
      BY <1>0
    <2>2. Replay(n) \in Values /\ kv'[i] = Replay(n)
      BY <2>1, <1>0, <1>2, <1>4 DEF ServersTyped
    <2>3. x <= n /\ n <= Len(decided) /\ rlog[i][x] = decided[x] /\ Answer(i, x)
          /\ UNCHANGED <<clerkVars, starts, decided>>
      BY <2>1, <1>1, <1>2, <1>3, <1>4
    <2> QED
      BY <2>2, <2>3, AnswerIs
  <1>7. DecidedKept /\ Len(decided') \in Nat
    BY <1>0, <1>4 DEF DecidedKept
  <1>8. ServerOK(i)'
    <2>1. PICK n \in Nat : n = next[i] /\ next'[i] = n
      BY <1>0, <1>1
    <2>2. /\ n <= Len(decided) /\ lastApplied'[i] <= n /\ n <= Len(rlog'[i])
          /\ (\A y \in 1..n : rlog'[i][y] = decided[y]) /\ kv'[i] = Replay(n) /\ Remembers(dedup[i], n)
      BY <2>1, <1>0, <1>4 DEF ServerOK
    <2>3. overtaken'[i] <= n /\ dedup'[i] = dedup[i] /\ persister'[i] = persister[i] /\ UNCHANGED decided
      BY <1>1, <1>4, <1>5
    <2>4. SnapshotOK(persister[i], n)
      BY <2>1, SnapshotNow
    <2> QED
      BY <2>1, <2>2, <2>3, <2>4, <1>0, ServerMade
  <1>9. ASSUME NEW j \in Server, j # i PROVE ServerOK(j)'
    <2>1. next[j] <= Len(rlog'[j]) /\ \A y \in 1..next[j] : rlog'[j][y] = decided[y]
      BY <1>4, KVFacts DEF ServerOK
    <2>2. /\ next'[j] = next[j] /\ lastApplied'[j] = lastApplied[j] /\ overtaken'[j] = overtaken[j]
          /\ kv'[j] = kv[j] /\ dedup'[j] = dedup[j] /\ persister'[j] = persister[j]
      BY <1>1, <1>4, <1>5, <1>9
    <2> QED
      BY <2>1, <2>2, <1>7, ServerStays
  <1>10. LogsKept /\ LeadersOK'
    BY <1>0, <1>4 DEF LogsKept, LeadersOK, Leads, GetState
  <1>11. PICK r \in [Server -> Seq(Entry)] : r = rlog /\ r = rlog'
    BY <1>0, <1>4
  <1>12. (\A j \in Server : LogOK(r[j])) /\ lead' \in [Server -> Nat]
    BY <1>0, <1>4, <1>11, KVFacts
  <1>13. \A j \in Server : ServerOK(j)'
    BY <1>8, <1>9
  <1>14. UNCHANGED <<clerkVars, requests, starts, elections, decided>>
    BY <1>1, <1>4
  <1> QED
    BY <1>5, <1>6, <1>10, <1>11, <1>12, <1>13, <1>14, ServersStep

(* A server starts again from its snapshot.                                  *)
LEMMA StartKVServerKeeps ==
    ASSUME KVInv, NEW i \in Server, StartKVServer(i)
    PROVE  KVInv'
  <1>0. /\ Typed /\ LeadersOK /\ ServersTyped /\ ServerOK(i)
        /\ next[i] \in Nat /\ Len(decided) \in Nat /\ Len(rlog[i]) \in Nat
        /\ rlog \in [Server -> Seq(Entry)] /\ lead \in [Server -> Nat] /\ call \in [Client -> CallType]
        /\ restarts \in Nat /\ MaxRestarts \in Nat
        /\ \A j \in Server : Len(rlog[j]) \in Nat
    BY KVFacts, LogsTyped DEF Typed, RaftTyped, ClerksTyped
  <1>1. /\ restarts < MaxRestarts /\ restarts' = restarts + 1 /\ lead' = [lead EXCEPT ![i] = 0]
        /\ kv' = [kv EXCEPT ![i] = persister[i].kv] /\ dedup' = [dedup EXCEPT ![i] = persister[i].dedup]
        /\ lastApplied' = [lastApplied EXCEPT ![i] = 0] /\ next' = [next EXCEPT ![i] = persister[i].index]
        /\ overtaken' = [overtaken EXCEPT ![i] = 0]
        /\ call' = [c \in Client |-> IF call[c].server = i THEN Idle ELSE call[c]]
        /\ UNCHANGED <<current, since, requests, starts, rlog, elections, decided, persister>>
    BY DEF StartKVServer, Restarted
  <1>2. PICK p \in Snapshots : p = persister[i] /\ SnapshotOK(p, next[i])
    BY SnapshotNow DEF SnapshotOK
  <1>3. /\ p.index \in Nat /\ p.kv \in Values /\ p.dedup \in Dedup /\ p.index <= next[i]
        /\ p.kv = Replay(p.index) /\ Remembers(p.dedup, p.index)
    BY <1>2 DEF SnapshotOK, Snapshots
  <1>4. PICK n \in Nat : n = p.index
    BY <1>3
  <1>5. /\ next'[i] = n /\ kv'[i] = p.kv /\ dedup'[i] = p.dedup
        /\ lastApplied'[i] = 0 /\ persister'[i] = p /\ overtaken'[i] = 0
        /\ \A j \in Server : j # i =>
             /\ next'[j] = next[j] /\ lastApplied'[j] = lastApplied[j] /\ overtaken'[j] = overtaken[j]
             /\ kv'[j] = kv[j] /\ dedup'[j] = dedup[j] /\ persister'[j] = persister[j]
    BY <1>0, <1>1, <1>2, <1>4 DEF ServersTyped
  <1>6. ServersTyped'
    <2>1. restarts' \in 0..MaxRestarts
      BY <1>0, <1>1
    <2> QED
      BY <2>1, <1>0, <1>1, <1>2, <1>3 DEF ServersTyped
  <1>7. n <= next[i] /\ next[i] <= Len(decided) /\ next[i] <= Len(rlog[i]) /\ \A x \in 1..next[i] : rlog[i][x] = decided[x]
    BY <1>0, <1>3, <1>4 DEF ServerOK
  <1>8. ServerOK(i)'
    <2>1. /\ n <= Len(decided) /\ n <= Len(rlog'[i]) /\ (\A y \in 1..n : rlog'[i][y] = decided[y])
          /\ lastApplied'[i] <= n /\ overtaken'[i] <= n /\ kv'[i] = Replay(n) /\ Remembers(p.dedup, n)
          /\ UNCHANGED decided
      BY <1>0, <1>1, <1>3, <1>4, <1>5, <1>7
    <2>2. SnapshotOK(p, n)
      BY <1>3, <1>4 DEF SnapshotOK
    <2> QED
      BY <2>1, <2>2, <1>0, <1>5, ServerMade
  <1>9. DecidedKept /\ Len(decided') \in Nat
    BY <1>0, <1>1 DEF DecidedKept
  <1>10. ASSUME NEW j \in Server, j # i PROVE ServerOK(j)'
    <2>1. next[j] <= Len(rlog'[j]) /\ \A y \in 1..next[j] : rlog'[j][y] = decided[y]
      BY <1>1, KVFacts DEF ServerOK
    <2> QED
      BY <2>1, <1>5, <1>9, <1>10, ServerStays
  <1>11. call' \in [Client -> CallType] /\ \A c \in Client : call'[c] = call[c] \/ call'[c] = Idle
    BY <1>0, <1>1, IdleTyped
  <1>12. ASSUME NEW c \in Client, call'[c] = Idle PROVE CallOK(c)'
    <2>1. since'[c] <= Len(decided')
      BY <1>1, KVFacts DEF CallOK
    <2>2. call'[c].pc = "idle" /\ call'[c].index <= starts'
      <3>1. starts' \in Nat
        BY <1>0, <1>1, LogsTyped
      <3> QED
        BY <3>1, <1>12, IdleTyped
    <2> QED
      BY <2>1, <2>2, CallIdle
  <1>13. lead' \in [Server -> Nat] /\ lead'[i] = 0 /\ \A j \in Server : j # i => lead'[j] = lead[j]
    BY <1>0, <1>1
  <1>14. LogsKept
    BY <1>0, <1>1, <1>13 DEF LogsKept
  <1>15. LeadersOK'
    <2>1. ASSUME NEW j \in Server PROVE lead'[j] <= elections
      <3>1. elections \in Nat /\ lead[j] \in Nat /\ lead[j] <= elections
        BY <1>0, LogsTyped DEF LeadersOK
      <3>2. CASE j = i
        <4>1. 0 <= elections
          BY <3>1
        <4> QED
          BY <4>1, <3>2, <1>13
      <3>3. CASE j # i
        BY <3>1, <3>3, <1>13
      <3> QED
        BY <3>2, <3>3
    <2> QED
      BY <2>1, <1>0, <1>1, <1>13 DEF LeadersOK, Leads, GetState
  <1>16. PICK r \in [Server -> Seq(Entry)] : r = rlog /\ r = rlog'
    BY <1>0, <1>1
  <1>17. \A j \in Server : LogOK(r[j])
    BY <1>16, KVFacts
  <1>18. \A j \in Server : ServerOK(j)'
    BY <1>8, <1>10
  <1>19. UNCHANGED <<clerkVars, requests, starts, elections, decided>>
    BY <1>1 DEF clerkVars
  <1>20. \A c \in Client : call'[c] = call[c] \/ CallOK(c)'
    BY <1>11, <1>12
  <1> QED
    BY <1>6, <1>11, <1>13, <1>14, <1>15, <1>16, <1>17, <1>18, <1>19, <1>20, ServersStep

(* The snapshot of another server replaces the state of this one.            *)
LEMMA InstallSnapshotKeeps ==
    ASSUME KVInv, NEW i \in Server, NEW j \in Server, InstallSnapshot(i, j)
    PROVE  KVInv'
  <1>0. /\ Typed /\ LeadersOK /\ ServersTyped /\ ServerOK(i) /\ ServerOK(j) /\ decided \in Seq(Entry)
        /\ next[i] \in Nat /\ next[j] \in Nat /\ overtaken[i] \in Nat /\ Len(decided) \in Nat /\ starts \in Nat
        /\ rlog \in [Server -> Seq(Entry)] /\ lead \in [Server -> Nat] /\ call \in [Client -> CallType]
        /\ \A k \in Server : Len(rlog[k]) \in Nat
    BY KVFacts, LogsTyped DEF Typed, RaftTyped, ClerksTyped
  <1>1. PICK s \in Snapshots : s = persister[j] /\ SnapshotOK(s, next[j])
    BY SnapshotNow DEF SnapshotOK
  <1>2. /\ s.index \in Nat /\ s.kv \in Values /\ s.dedup \in Dedup /\ s.index <= next[j]
        /\ s.kv = Replay(s.index) /\ Remembers(s.dedup, s.index)
    BY <1>1 DEF SnapshotOK, Snapshots
  <1>3. PICK n \in Nat : n = s.index
    BY <1>2
  <1>4. /\ n > next[i] /\ (lead[i] = 0 \/ IsPrefix(SubSeq(decided, 1, n), rlog[i]))
        /\ next' = [next EXCEPT ![i] = n] /\ kv' = [kv EXCEPT ![i] = s.kv]
        /\ dedup' = [dedup EXCEPT ![i] = s.dedup] /\ lastApplied' = [lastApplied EXCEPT ![i] = n]
        /\ persister' = [persister EXCEPT ![i] = s] /\ rlog' = [rlog EXCEPT ![i] = Spliced(i, n)]
        /\ UNCHANGED <<clerkVars, call, requests, starts, lead, elections, decided, restarts>>
        /\ overtaken' = overtaken \/ overtaken' = [overtaken EXCEPT ![i] = next[i] + 1]
    BY <1>1, <1>3 DEF InstallSnapshot
  <1>5. n <= Len(decided) /\ n \in 0..Len(decided)
    <2>1. next[j] <= Len(decided)
      BY <1>0 DEF ServerOK
    <2> QED
      BY <2>1, <1>0, <1>2, <1>3
  <1>6. PICK h \in Seq(Entry) : h = SubSeq(decided, 1, n) /\ Len(h) = n /\ \A x \in 1..n : h[x] = decided[x]
    BY <1>0, <1>5, BeginningOf
  <1>7. PICK l \in Seq(Entry) : l = rlog[i]
    BY <1>0
  <1>8. PICK w \in Seq(Entry) : w = Spliced(i, n) /\ (IsPrefix(h, l) => w = l) /\ (~ IsPrefix(h, l) => w = h)
    BY <1>6, <1>7 DEF Spliced
  <1>9. n <= Len(w) /\ (\A x \in 1..n : w[x] = decided[x]) /\ LogOK(w)
    <2>1. LogOK(l) /\ LogOK(h)
      BY <1>0, <1>5, <1>6, <1>7, KVFacts, BeginningOK
    <2>2. CASE IsPrefix(h, l)
      <3>1. Len(h) <= Len(l) /\ \A x \in 1..Len(h) : h[x] = l[x]
        BY <2>2, PrefixPlaces
      <3> QED
        BY <3>1, <2>1, <2>2, <1>6, <1>8
    <2>3. CASE ~ IsPrefix(h, l)
      <3>1. w = h
        BY <2>3, <1>8
      <3>2. n <= Len(h) /\ \A x \in 1..n : h[x] = decided[x]
        BY <1>6
      <3> QED
        BY <3>1, <3>2, <2>1
    <2> QED
      BY <2>2, <2>3
  <1>10. PICK r \in [Server -> Seq(Entry)] : r = rlog' /\ r[i] = w /\ \A k \in Server : k # i => r[k] = rlog[k]
    BY <1>0, <1>4, <1>8
  <1>11. \A k \in Server : lead[k] # 0 => r[k] = rlog[k]
    BY <1>4, <1>6, <1>7, <1>8, <1>10
  <1>12. LogsKept /\ LeadersOK'
    BY <1>0, <1>4, <1>10, <1>11 DEF LogsKept, LeadersOK, Leads, GetState
  <1>13. /\ next'[i] = n /\ kv'[i] = s.kv /\ dedup'[i] = s.dedup /\ lastApplied'[i] = n /\ persister'[i] = s
         /\ \A k \in Server : k # i =>
              /\ next'[k] = next[k] /\ lastApplied'[k] = lastApplied[k] /\ overtaken'[k] = overtaken[k]
              /\ kv'[k] = kv[k] /\ dedup'[k] = dedup[k] /\ persister'[k] = persister[k]
    BY <1>0, <1>4 DEF ServersTyped
  <1>14. overtaken' \in [Server -> Nat] /\ overtaken'[i] <= n
    <2>1. overtaken \in [Server -> Nat] /\ overtaken[i] <= next[i]
      BY <1>0 DEF ServersTyped, ServerOK
    <2>2. CASE overtaken' = overtaken
      BY <2>1, <2>2, <1>0, <1>4
    <2>3. CASE overtaken' = [overtaken EXCEPT ![i] = next[i] + 1]
      BY <2>1, <2>3, <1>0, <1>4, SMTT(20)
    <2> QED
      BY <2>2, <2>3, <1>4
  <1>15. ServersTyped'
    BY <1>0, <1>2, <1>4, <1>14 DEF ServersTyped
  <1>16. ServerOK(i)'
    <2>1. /\ n <= Len(rlog'[i]) /\ (\A y \in 1..n : rlog'[i][y] = decided[y])
          /\ kv'[i] = Replay(n) /\ Remembers(s.dedup, n) /\ UNCHANGED decided /\ lastApplied'[i] <= n
      BY <1>2, <1>3, <1>4, <1>9, <1>10, <1>13
    <2>2. SnapshotOK(s, n)
      BY <1>2, <1>3 DEF SnapshotOK
    <2> QED
      BY <2>1, <2>2, <1>0, <1>5, <1>13, <1>14, ServerMade
  <1>17. DecidedKept /\ Len(decided') \in Nat
    BY <1>0, <1>4 DEF DecidedKept
  <1>18. ASSUME NEW k \in Server, k # i PROVE ServerOK(k)'
    <2>1. next[k] <= Len(rlog'[k]) /\ \A y \in 1..next[k] : rlog'[k][y] = decided[y]
      BY <1>10, <1>18, KVFacts DEF ServerOK
    <2> QED
      BY <2>1, <1>13, <1>17, <1>18, ServerStays
  <1>19. \A k \in Server : ServerOK(k)'
    BY <1>16, <1>18
  <1>20. \A k \in Server : LogOK(r[k])
    BY <1>9, <1>10, KVFacts
  <1>21. /\ UNCHANGED <<clerkVars, requests, starts, elections, decided>> /\ lead' \in [Server -> Nat]
         /\ call' \in [Client -> CallType] /\ \A c \in Client : call'[c] = call[c]
    BY <1>0, <1>4
  <1> QED
    BY <1>10, <1>12, <1>15, <1>19, <1>20, <1>21, ServersStep

-----------------------------------------------------------------------------
(* The theorems.                                                             *)

(* The first state.                                                          *)
LEMMA KVInit ==
    ASSUME Init
    PROVE  KVInv
  <1>0. MaxRequests \in Nat /\ MaxStarts \in Nat /\ MaxElections \in Nat /\ MaxRestarts \in Nat /\ Nil \notin Nat
    BY KVAssumption
  <1>1. << >> \in Seq(Nat) /\ << >> \in Seq(Entry) /\ Len(<< >>) = 0 /\ DOMAIN << >> = {}
    OBVIOUS
  <1>2. EmptyMap \in Values /\ NoDedup \in Dedup
    BY <1>1 DEF EmptyMap, Values, NoDedup, Dedup
  <1>3. [index |-> 0, kv |-> EmptyMap, dedup |-> NoDedup] \in Snapshots
    BY <1>2 DEF Snapshots
  <1>4. Typed
    <2>1. ClerksTyped
      BY <1>0, IdleTyped DEF Init, ClerksTyped
    <2>2. RaftTyped
      BY <1>0, <1>1 DEF Init, RaftTyped
    <2>3. ServersTyped
      BY <1>0, <1>2, <1>3 DEF Init, ServersTyped
    <2> QED
      BY <2>1, <2>2, <2>3 DEF Typed
  <1>5. LogOK(<< >>)
    BY <1>1 DEF Init, LogOK, Ordered, FromLeaders
  <1>6. decided = << >> /\ Len(decided) = 0 /\ \A i \in Server : rlog[i] = << >> /\ lead[i] = 0 /\ Len(rlog[i]) = 0
    BY <1>1 DEF Init
  <1>7. LogOK(decided) /\ (\A i \in Server : LogOK(rlog[i])) /\ LeadersOK
    BY <1>5, <1>6 DEF LeadersOK, Leads, GetState, Init
  <1>8. Replay(0) = EmptyMap
    <2>1. Firsts(0) = {}
      BY DEF Firsts
    <2>2. \A k : Live(0, k) = {}
      BY <2>1 DEF Live
    <2>3. Cardinality({}) = 0
      BY FS_EmptySet
    <2>4. Content({}) = << >>
      <3>1. Content({}) = [p \in 1..0 |-> Decided(Ranked({}, p)).id]
        BY <2>3, ContentIs
      <3> QED
        BY <3>1
    <2> QED
      BY <2>2, <2>4 DEF Replay, EmptyMap
  <1>9. Remembers(NoDedup, 0)
    BY DEF Remembers, NoDedup
  <1>10. ASSUME NEW i \in Server PROVE ServerOK(i)
    <2>1. /\ next[i] = 0 /\ lastApplied[i] = 0 /\ overtaken[i] = 0 /\ kv[i] = EmptyMap /\ dedup[i] = NoDedup
          /\ persister[i] = [index |-> 0, kv |-> EmptyMap, dedup |-> NoDedup]
      BY DEF Init
    <2>2. persister[i].index = 0 /\ persister[i].kv = EmptyMap /\ persister[i].dedup = NoDedup
      BY <2>1
    <2> QED
      BY <2>1, <2>2, <1>6, <1>8, <1>9 DEF ServerOK
  <1>11. ASSUME NEW c \in Client PROVE ClerkOK(c) /\ CallOK(c)
    <2>1. current[c] = Nil /\ since[c] = 0 /\ call[c] = Idle /\ starts = 0
      BY DEF Init
    <2> QED
      BY <2>1, <1>6, IdleTyped DEF ClerkOK, CallOK
  <1> QED
    BY <1>4, <1>7, <1>10, <1>11 DEF KVInv

(* A step that changes nothing.                                              *)
LEMMA KVStutter ==
    ASSUME KVInv, UNCHANGED vars
    PROVE  KVInv'
  <1>1. UNCHANGED <<clerkVars, requests, starts, raftVars, stateVars, deliveryVars, restarts>> /\ call' = call
    BY DEF vars
  <1>2. call' \in [Client -> CallType]
    BY <1>1, KVFacts DEF Typed, ClerksTyped
  <1> QED
    BY <1>1, <1>2, CallsStep

(* Every step keeps the invariant.                                           *)
LEMMA KVStep ==
    ASSUME KVInv, [Next]_vars
    PROVE  KVInv'
  <1>1. ASSUME NEW c \in Client, NEW op \in Op, NEW k \in Key, Ask(c, op, k) PROVE KVInv'
    BY <1>1, AskKeeps
  <1>2. ASSUME NEW c \in Client, NEW i \in Server, Start(c, i) PROVE KVInv'
    BY <1>2, StartKeeps
  <1>3. ASSUME NEW c \in Client, NEW i \in Server, OrphanStarts(c, i) PROVE KVInv'
    BY <1>3, OrphanStartsKeeps
  <1>4. ASSUME NEW c \in Client, WrongLeader(c) \/ Timeout(c) \/ ReplyLost(c) PROVE KVInv'
    BY <1>4, TryAgainKeeps DEF WrongLeader, Timeout, ReplyLost
  <1>5. ASSUME NEW c \in Client, Register(c) PROVE KVInv'
    BY <1>5, RegisterKeeps
  <1>6. ASSUME NEW c \in Client, Return(c) PROVE KVInv'
    BY <1>6, ReturnKeeps
  <1>7. ASSUME NEW i \in Server, Elect(i) PROVE KVInv'
    BY <1>7, ElectKeeps
  <1>8. ASSUME NEW i \in Server, StepDown(i) PROVE KVInv'
    BY <1>8, StepDownKeeps
  <1>9. ASSUME NEW i \in Server, NEW j \in Server, AppendEntries(i, j) PROVE KVInv'
    BY <1>9, AppendEntriesKeeps
  <1>10. ASSUME NEW i \in Server, NEW j \in Server, InstallSnapshot(i, j) PROVE KVInv'
    BY <1>10, InstallSnapshotKeeps
  <1>11. ASSUME NEW i \in Server, NEW n \in 1..Len(rlog[i]), Commit(i, n) PROVE KVInv'
    BY <1>11, CommitKeeps
  <1>12. ASSUME NEW i \in Server, DoApply(i) PROVE KVInv'
    BY <1>12, DoApplyKeeps
  <1>13. ASSUME NEW i \in Server, ApplyRejected(i) PROVE KVInv'
    BY <1>13, ApplyRejectedKeeps
  <1>14. ASSUME NEW i \in Server, StartKVServer(i) PROVE KVInv'
    BY <1>14, StartKVServerKeeps
  <1>15. ASSUME UNCHANGED vars PROVE KVInv'
    BY <1>15, KVStutter
  <1> QED
    BY <1>1, <1>2, <1>3, <1>4, <1>5, <1>6, <1>7, <1>8, <1>9, <1>10, <1>11, <1>12, <1>13, <1>14, <1>15 DEF Next

(* The inductive invariant holds: the logs hold the writes of each clerk in  *)
(* order, every server is what a prefix of the decided entries makes of it,  *)
(* and a call under way at a leader has its entry in that leader's log.      *)
THEOREM KVInvariant == Spec => []KVInv
  <1>1. Init => KVInv
    BY KVInit
  <1>2. KVInv /\ [Next]_vars => KVInv'
    BY KVStep
  <1> QED
    BY <1>1, <1>2, PTL DEF Spec

(* The variables of the server and its clerks keep their types and bounds.   *)
THEOREM KVTyped == Spec => []TypeOK
  <1>1. ASSUME KVInv PROVE TypeOK
    <2>0. Typed /\ LeadersOK
      BY <1>1, KVFacts
    <2>1. ASSUME NEW c \in Client
          PROVE  /\ call[c].server \in Server \cup {Nil}
                 /\ call[c].pc \in {"idle", "started", "waiting", "answered"}
                 /\ call[c].index \in 0..MaxStarts /\ since[c] \in 0..Len(decided)
                 /\ call[c].pc # "idle" => current[c] # Nil
      <3>1. /\ call[c] \in CallType /\ call[c].index \in Nat /\ since[c] \in Nat /\ CallOK(c)
            /\ starts \in 0..MaxStarts /\ MaxStarts \in Nat /\ Len(decided) \in Nat
        BY <2>0, <1>1, KVFacts, CallTyped, LogsTyped DEF Typed, RaftTyped
      <3>2. call[c].index <= starts /\ since[c] <= Len(decided) /\ (call[c].pc # "idle" => current[c] # Nil)
        BY <3>1 DEF CallOK
      <3>3. call[c].server \in Server \cup {Nil} /\ call[c].pc \in {"idle", "started", "waiting", "answered"}
        BY <3>1 DEF CallType
      <3> QED
        BY <3>1, <3>2, <3>3
    <2>2. ASSUME NEW i \in Server
          PROVE  /\ lead[i] \in 0..elections
                 /\ next[i] \in 0..Len(decided) /\ lastApplied[i] \in 0..next[i]
                 /\ overtaken[i] \in 0..next[i] /\ persister[i].index \in 0..next[i]
      <3>1. /\ lead[i] \in Nat /\ next[i] \in Nat /\ lastApplied[i] \in Nat /\ overtaken[i] \in Nat
            /\ elections \in Nat /\ Len(decided) \in Nat
        BY <2>0, LogsTyped
      <3>2. persister[i].index \in Nat
        BY <2>0 DEF Typed, ServersTyped, Snapshots
      <3>3. lead[i] <= elections /\ next[i] <= Len(decided) /\ lastApplied[i] <= next[i]
            /\ overtaken[i] <= next[i] /\ persister[i].index <= next[i]
        BY <2>0, <1>1, KVFacts DEF LeadersOK, ServerOK
      <3> QED
        BY <3>1, <3>2, <3>3
    <2>3. requests \in 0..MaxRequests /\ starts \in 0..MaxStarts /\ elections \in 0..MaxElections /\ restarts \in 0..MaxRestarts
      BY <2>0 DEF Typed, ClerksTyped, RaftTyped, ServersTyped
    <2> QED
      BY <2>1, <2>2, <2>3 DEF TypeOK
  <1> QED
    BY <1>1, KVInvariant, PTL

(* Every server's map is what the entries it has taken over stand for, with  *)
(* each write counted once: apply, its dedup table, the snapshots and the    *)
(* restarts together neither lose a write nor apply one twice.               *)
THEOREM WritesCountOnce == Spec => []ExactlyOnce
  <1>1. ASSUME KVInv PROVE ExactlyOnce
    BY <1>1, KVFacts DEF ServerOK, ExactlyOnce
  <1> QED
    BY <1>1, KVInvariant, PTL

(* A reply OK is right: the write is decided, and a Get returns a value that *)
(* the key had while the Get was under way, although DoApply finds the       *)
(* channel by the log index alone.                                           *)
THEOREM RepliesLinearizable == Spec => []Linearizable
  <1>1. ASSUME KVInv PROVE Linearizable
    BY <1>1, KVFacts DEF CallOK, Right, Linearizable
  <1> QED
    BY <1>1, KVInvariant, PTL
=============================================================================
