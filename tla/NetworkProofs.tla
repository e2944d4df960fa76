--------------------------- MODULE NetworkProofs ---------------------------
(* The promises of the simulated network to the harness that crashes peers   *)
(* on it, for any number of peers, clerks, instances and calls.              *)
EXTENDS Network, FiniteSetTheorems, WellFoundedInduction, TLAPS

Pc == {"none", "sent", "unreachable", "delayed", "waiting", "replying", "checked", "true", "false"}
Step == {"idle", "disconnected", "deleted", "superseded", "made"}

(* Every variable keeps its type.                                            *)
TypeOK ==
    /\ made \in [Peer -> Instance]
    /\ rafts \in [Peer -> 0..MaxInstances]
    /\ connected \in [Peer -> BOOLEAN]
    /\ saved \in [Peer -> [instance : 0..MaxInstances, data : SUBSET RPC]]
    /\ harness \in [step : Step, peer : Peer \cup {Nil}, start : BOOLEAN]
    /\ disk \in [Peer -> [Instance -> SUBSET RPC]]
    /\ enabled \subseteq End \cup ClerkEnd
    /\ servers \in [Peer -> 0..MaxInstances]
    /\ reliable \in BOOLEAN /\ done \in BOOLEAN
    /\ rpc \in [RPC -> [pc : Pc, end : End \cup ClerkEnd \cup {Nil}, server : 0..MaxInstances,
                        reliable : BOOLEAN, killed : BOOLEAN,
                        handler : {"none", "running", "returned", "ended"}]]

(* Between crash1 and the end of start1 the peer is cut off, and from        *)
(* DeleteServer on it is not registered.                                     *)
HarnessOK ==
    /\ harness.step = "idle" => harness = Quiet
    /\ harness # Quiet =>
         /\ harness.peer \in Peer /\ ~ connected[harness.peer]
         /\ harness.step \in {"deleted", "superseded", "made"} => servers[harness.peer] = 0
         /\ harness.start /\ harness.step # "made" => made[harness.peer] < MaxInstances
         /\ harness.step \in {"superseded", "made"} => harness.start
         /\ harness.step = "made" => saved[harness.peer].instance = made[harness.peer]

(* What the harness knows of peer p: its newest instance or none; who is     *)
(* registered writes to the persister the harness would read.                *)
PeerOK(p) ==
    /\ rafts[p] \in {0, made[p]} /\ servers[p] \in {0, made[p]} /\ saved[p].instance \in {0, made[p]}
    /\ servers[p] # 0 => saved[p].instance = servers[p]
    /\ connected[p] => rafts[p] = made[p]

(* Only the instance the harness knows has ends that are enabled, and none   *)
(* while the peer is crashed and restarted.                                  *)
EndsOK ==
    \A e \in enabled : e.peer \in Peer =>
        rafts[e.peer] = e.instance /\ (harness # Quiet => e.peer # harness.peer)

(* Call n: the instance it was sent to exists; what its handler wrote is     *)
(* there, and from the last check on in what the harness would read; an      *)
(* instance that was killed when it called stays so.                         *)
RecordOK(n, c) ==
    LET p == c.end.to IN
    /\ c.pc = "none" => ~ c.killed
    /\ c.pc \in {"none", "sent", "unreachable", "delayed"} => c.handler = "none"
    /\ c.pc # "none" => c.end \in End \cup ClerkEnd
    /\ c.pc \in {"delayed", "waiting", "replying", "checked", "true"} \/ c.handler # "none"
       => c.server \in 1..made[p]
    /\ c.pc = "replying" \/ c.handler = "returned" => n \in disk[p][c.server]
    /\ c.pc \in {"checked", "true"} => n \in Stored(p)
    /\ c.killed => /\ c.end \in End /\ c.end.instance <= made[c.end.peer]
                   /\ c.end.instance # rafts[c.end.peer]
                   /\ c.pc # "delayed" /\ c.handler = "none"

CallOK(n) == RecordOK(n, rpc[n])

HarnessInv == TypeOK /\ HarnessOK /\ (\A p \in Peer : PeerOK(p)) /\ EndsOK

(* The inductive invariant.                                                  *)
NetInv == HarnessInv /\ \A n \in RPC : CallOK(n)

-----------------------------------------------------------------------------
(* A call that nobody makes, and disks that lose nothing.                    *)

(* What a step does to the persisters: an instance that exists keeps what it *)
(* has, and so does what the harness would read; instances stay what they    *)
(* are, or are killed.                                                       *)
DisksGrow ==
    \A p \in Peer :
        /\ made[p] <= made'[p]
        /\ \A k \in 1..made[p] : disk[p][k] \subseteq disk'[p][k]
        /\ Stored(p) \subseteq Stored(p)'
        /\ rafts'[p] \in {rafts[p], 0} \/ rafts'[p] > made[p]

(* The least number of a call that was not made.                             *)
LEMMA LeastUnused ==
    ASSUME NEW S \in SUBSET RPC, S # {}
    PROVE  \E n \in S : \A m \in S : n <= m
  <1>0. S \subseteq Nat
    BY NetworkAssumption DEF RPC
  <1>1. PICK x \in S : \A y \in S : ~ (<<y, x>> \in OpToRel(<, Nat))
    BY <1>0, WFMin, NatLessThanWellFounded
  <1>2. ASSUME NEW y \in S, y < x PROVE FALSE
    <2>1. <<y, x>> \in Nat \X Nat
      BY <1>0
    <2>2. <<y, x>> \in OpToRel(<, Nat)
      BY <2>1, <1>2 DEF OpToRel
    <2> QED
      BY <2>2, <1>1
  <1>3. \A y \in S : x <= y
    BY <1>0, <1>2
  <1> QED
    BY <1>3

(* Instances are counted from 1.                                             *)
LEMMA MadeTyped ==
    ASSUME TypeOK, NEW p \in Peer
    PROVE  made[p] \in Nat /\ made[p] > 0 /\ made[p] <= MaxInstances /\ rafts[p] \in Nat
           /\ made[p] \in Instance /\ MaxInstances \in Nat /\ servers[p] \in Nat
  <1>1. made[p] \in Instance /\ rafts[p] \in 0..MaxInstances /\ servers[p] \in 0..MaxInstances
    BY DEF TypeOK
  <1>2. MaxInstances \in Nat
    BY NetworkAssumption
  <1> QED
    BY <1>1, <1>2 DEF Instance

(* The types of one call, and its peer's.                                    *)
LEMMA CallTyped ==
    ASSUME TypeOK, NEW n \in RPC
    PROVE  /\ rpc[n] \in [pc : Pc, end : End \cup ClerkEnd \cup {Nil}, server : 0..MaxInstances,
                          reliable : BOOLEAN, killed : BOOLEAN,
                          handler : {"none", "running", "returned", "ended"}]
           /\ rpc[n].end \in End \cup ClerkEnd => rpc[n].end.to \in Peer
           /\ rpc[n].end \in End => /\ rpc[n].end.peer \in Peer /\ rpc[n].end.instance \in Instance
                                    /\ rpc[n].end.instance \in Nat /\ rpc[n].end.instance > 0
  <1>1. rpc[n] \in [pc : Pc, end : End \cup ClerkEnd \cup {Nil}, server : 0..MaxInstances,
                    reliable : BOOLEAN, killed : BOOLEAN,
                    handler : {"none", "running", "returned", "ended"}]
    BY DEF TypeOK
  <1> QED
    BY <1>1, NetworkAssumption DEF End, ClerkEnd, Instance

(* A call that the step leaves alone stays in order.                         *)
LEMMA CallStays ==
    ASSUME NetInv, TypeOK', DisksGrow, NEW n \in RPC, rpc'[n] = rpc[n]
    PROVE  CallOK(n)'
  <1>1. PICK c : c = rpc[n]
    OBVIOUS
  <1>2. CallOK(n) /\ TypeOK
    BY DEF NetInv, HarnessInv
  <1>3. CASE c.pc = "none"
    BY <1>1, <1>2, <1>3 DEF CallOK, RecordOK
  <1>4. CASE c.pc # "none"
    <2>1. c.end \in End \cup ClerkEnd
      BY <1>1, <1>2, <1>4 DEF CallOK, RecordOK
    <2>2. PICK p \in Peer : p = c.end.to
      BY <2>1, <1>1, <1>2, CallTyped
    <2>3. made[p] \in Nat /\ made'[p] \in Nat /\ made[p] <= made'[p]
      <3>1. made'[p] \in Instance /\ Instance \subseteq Nat
        BY NetworkAssumption DEF TypeOK, Instance
      <3> QED
        BY <3>1, <1>2, MadeTyped DEF DisksGrow
    <2>4. ASSUME c.pc \in {"delayed", "waiting", "replying", "checked", "true"} \/ c.handler # "none"
          PROVE  c.server \in 1..made[p] /\ c.server \in 1..made'[p]
      BY <2>2, <2>3, <2>4, <1>1, <1>2 DEF CallOK, RecordOK
    <2>5. ASSUME c.pc = "replying" \/ c.handler = "returned" PROVE n \in disk'[p][c.server]
      <3>1. n \in disk[p][c.server] /\ c.server \in 1..made[p]
        BY <2>2, <2>4, <2>5, <1>1, <1>2 DEF CallOK, RecordOK
      <3> QED
        BY <3>1 DEF DisksGrow
    <2>6. ASSUME c.pc \in {"checked", "true"} PROVE n \in Stored(p)'
      BY <2>2, <2>6, <1>1, <1>2 DEF CallOK, RecordOK, DisksGrow
    <2>7. ASSUME c.killed
          PROVE  /\ c.end \in End /\ c.end.instance <= made'[c.end.peer]
                 /\ c.end.instance # rafts'[c.end.peer]
                 /\ c.pc # "delayed" /\ c.handler = "none"
      <3>1. /\ c.end \in End /\ c.end.instance <= made[c.end.peer]
            /\ c.end.instance # rafts[c.end.peer] /\ c.pc # "delayed" /\ c.handler = "none"
        BY <2>7, <1>1, <1>2 DEF CallOK, RecordOK
      <3>2. PICK q \in Peer, k \in Instance : q = c.end.peer /\ k = c.end.instance
        BY <3>1, <1>1, <1>2, CallTyped
      <3>3. made[q] \in Nat /\ made'[q] \in Nat /\ made[q] <= made'[q] /\ k \in Nat /\ k > 0
        <4>1. made'[q] \in Instance /\ Instance \subseteq Nat /\ k \in Nat /\ k > 0
          BY NetworkAssumption DEF TypeOK, Instance
        <4> QED
          BY <4>1, <1>2, MadeTyped DEF DisksGrow
      <3>4. rafts'[q] \in {rafts[q], 0} \/ rafts'[q] > made[q]
        BY DEF DisksGrow
      <3>5. rafts'[q] \in Nat
        BY NetworkAssumption DEF TypeOK
      <3> QED
        BY <3>1, <3>2, <3>3, <3>4, <3>5
    <2>8. c.pc \in {"none", "sent", "unreachable", "delayed"} => c.handler = "none"
      BY <1>1, <1>2 DEF CallOK, RecordOK
    <2> QED
      BY <2>1, <2>2, <2>4, <2>5, <2>6, <2>7, <2>8, <1>1, <1>4 DEF CallOK, RecordOK
  <1> QED
    BY <1>3, <1>4

(* The harness, and what it reads, after a step of the network alone.        *)
LEMMA HarnessSame ==
    ASSUME NetInv, TypeOK', UNCHANGED <<made, rafts, connected, saved, harness, servers, enabled>>
    PROVE  HarnessInv'
  <1>1. HarnessOK' /\ EndsOK'
    BY DEF NetInv, HarnessInv, HarnessOK, EndsOK
  <1>2. \A p \in Peer : PeerOK(p)'
    BY DEF NetInv, HarnessInv, PeerOK
  <1> QED
    BY <1>1, <1>2 DEF HarnessInv

(* Disks after a step that writes none.                                      *)
LEMMA DisksSame ==
    ASSUME NetInv, UNCHANGED <<made, rafts, saved, disk>>
    PROVE  DisksGrow
  <1> SUFFICES ASSUME NEW p \in Peer
               PROVE  /\ made[p] <= made'[p]
                      /\ \A k \in 1..made[p] : disk[p][k] \subseteq disk'[p][k]
                      /\ Stored(p) \subseteq Stored(p)'
                      /\ rafts'[p] \in {rafts[p], 0} \/ rafts'[p] > made[p]
    BY DEF DisksGrow
  <1>1. made[p] \in Nat
    BY NetworkAssumption DEF NetInv, HarnessInv, TypeOK, Instance
  <1>2. Stored(p)' = Stored(p)
    BY DEF Stored
  <1> QED
    BY <1>1, <1>2

-----------------------------------------------------------------------------
(* The harness.                                                              *)

(* The facts about the harness in one place.                                 *)
LEMMA HarnessFacts ==
    ASSUME NetInv
    PROVE  TypeOK /\ HarnessOK /\ EndsOK /\ \A p \in Peer : PeerOK(p)
  <1> QED
    BY DEF NetInv, HarnessInv

(* A peer's own ends are those of its newest instance.                       *)
LEMMA NamedEnd ==
    ASSUME NEW p, NEW e \in EndsOf(p)
    PROVE  /\ e \in End /\ e.peer \in Peer /\ e.to \in Peer /\ e.instance = made[e.peer]
           /\ e.peer = p \/ e.to = p
  <1> QED
    BY DEF EndsOf, End, endnames

(* disconnect and the beginning of crash1 disable every end of the peer.     *)
LEMMA DetachFacts ==
    ASSUME NetInv, NEW p \in Peer, Detach(p), UNCHANGED rafts
    PROVE  /\ connected' \in [Peer -> BOOLEAN] /\ ~ connected'[p]
           /\ \A q \in Peer : connected'[q] => connected[q]
           /\ enabled' \subseteq enabled /\ \A e \in enabled' : e.peer # p
  <1>1. connected \in [Peer -> BOOLEAN] /\ enabled \subseteq End \cup ClerkEnd
    BY HarnessFacts DEF TypeOK
  <1>2. connected' = [connected EXCEPT ![p] = FALSE] /\ enabled' = enabled \ EndsOf(p)
    BY DEF Detach, Enable
  <1>3. ASSUME NEW e \in enabled', e.peer = p PROVE FALSE
    <2>1. e \in enabled /\ e \notin EndsOf(p)
      BY <1>2, <1>3
    <2>2. rafts[p] = e.instance
      BY <2>1, <1>3, HarnessFacts DEF EndsOK
    <2>3. e \in End
      <3>1. p \notin Clerk
        BY NetworkAssumption
      <3> QED
        BY <3>1, <2>1, <1>1, <1>3 DEF ClerkEnd
    <2>4. e.instance \in Nat /\ e.instance > 0
      BY <2>3, NetworkAssumption DEF End, Instance
    <2>5. e.instance = made[p]
      BY <2>2, <2>4, HarnessFacts DEF PeerOK
    <2> QED
      BY <2>1, <2>3, <2>5, <1>3 DEF EndsOf, endnames
  <1> QED
    BY <1>1, <1>2, <1>3

(* disconnect keeps the invariant of the harness.                            *)
LEMMA DisconnectKeeps ==
    ASSUME NetInv, NEW p \in Peer, disconnect(p)
    PROVE  HarnessInv' /\ DisksGrow
  <1>0. /\ harness = Quiet /\ Detach(p)
        /\ UNCHANGED <<made, rafts, saved, harness, disk, servers, reliable, done, rpc>>
    BY DEF disconnect
  <1>1. /\ connected' \in [Peer -> BOOLEAN] /\ \A q \in Peer : connected'[q] => connected[q]
        /\ enabled' \subseteq enabled
    BY <1>0, DetachFacts
  <1>2. TypeOK'
    BY <1>0, <1>1, HarnessFacts DEF TypeOK
  <1>3. HarnessOK' /\ EndsOK'
    BY <1>0, <1>1, HarnessFacts DEF HarnessOK, EndsOK
  <1>4. \A q \in Peer : PeerOK(q)'
    BY <1>0, <1>1, HarnessFacts DEF PeerOK
  <1> QED
    BY <1>0, <1>2, <1>3, <1>4, DisksSame DEF HarnessInv

(* connect enables ends of instances the harness knows.                      *)
LEMMA ConnectKeeps ==
    ASSUME NetInv, NEW p \in Peer, connect(p)
    PROVE  HarnessInv' /\ DisksGrow
  <1>0. /\ harness = Quiet /\ rafts[p] # 0 /\ connected' = [connected EXCEPT ![p] = TRUE]
        /\ enabled' = enabled \cup {e \in EndsOf(p) : connected'[e.peer] /\ connected'[e.to]}
        /\ UNCHANGED <<made, rafts, saved, harness, disk, servers, reliable, done, rpc>>
    BY DEF connect, Enable
  <1>1. connected' \in [Peer -> BOOLEAN] /\ \A q \in Peer : connected'[q] => rafts[q] = made[q]
    <2>1. connected \in [Peer -> BOOLEAN] /\ \A q \in Peer : PeerOK(q)
      BY HarnessFacts DEF TypeOK
    <2> QED
      BY <2>1, <1>0 DEF PeerOK
  <1>2. \A e \in enabled' : e \in enabled \/ (e \in End /\ e.peer \in Peer /\ rafts[e.peer] = e.instance)
    BY <1>0, <1>1, NamedEnd
  <1>3. TypeOK'
    BY <1>0, <1>1, <1>2, HarnessFacts DEF TypeOK
  <1>4. HarnessOK' /\ EndsOK'
    BY <1>0, <1>2, HarnessFacts DEF HarnessOK, EndsOK
  <1>5. \A q \in Peer : PeerOK(q)'
    BY <1>0, <1>1, HarnessFacts DEF PeerOK
  <1> QED
    BY <1>0, <1>3, <1>4, <1>5, DisksSame DEF HarnessInv

(* So does partition: it is called with every server up.                     *)
LEMMA PartitionKeeps ==
    ASSUME NetInv, NEW peers \in SUBSET Peer, partition(peers)
    PROVE  HarnessInv' /\ DisksGrow
  <1>0. /\ harness = Quiet /\ \A q \in Peer : rafts[q] # 0
        /\ UNCHANGED <<cfgVars, disk, servers, reliable, done, rpc>>
    BY DEF partition
  <1>1. \A q \in Peer : rafts[q] = made[q]
    BY <1>0, HarnessFacts DEF PeerOK
  <1>2. \A e \in enabled' : e \in enabled \/ (e \in End /\ e.peer \in Peer /\ rafts[e.peer] = e.instance)
    BY <1>1 DEF partition, endnames, End
  <1>3. TypeOK'
    BY <1>0, <1>2, HarnessFacts DEF TypeOK, cfgVars
  <1>4. HarnessOK' /\ EndsOK'
    BY <1>0, <1>2, HarnessFacts DEF HarnessOK, EndsOK, cfgVars
  <1>5. \A q \in Peer : PeerOK(q)'
    BY <1>0, HarnessFacts DEF PeerOK, cfgVars
  <1> QED
    BY <1>0, <1>3, <1>4, <1>5, DisksSame DEF HarnessInv, cfgVars

(* The ends of clerks belong to no instance.                                 *)
LEMMA ConnectClientKeeps ==
    ASSUME NetInv, NEW c \in Clerk, NEW to \in SUBSET Peer, NEW on \in BOOLEAN, ConnectClient(c, to, on)
    PROVE  HarnessInv' /\ DisksGrow
  <1>0. UNCHANGED <<cfgVars, disk, servers, reliable, done, rpc>>
    BY DEF ConnectClient
  <1>1. \A e \in enabled' : e \in enabled \/ (e \in ClerkEnd /\ e.peer \in Clerk)
    BY DEF ConnectClient, Enable, ClerkEnd
  <1>2. \A e \in enabled' : e \in enabled \/ (e \in ClerkEnd /\ e.peer \notin Peer)
    BY <1>1, NetworkAssumption
  <1>3. TypeOK'
    BY <1>0, <1>2, HarnessFacts DEF TypeOK, cfgVars
  <1>4. HarnessOK' /\ EndsOK'
    BY <1>0, <1>2, HarnessFacts DEF HarnessOK, EndsOK, cfgVars
  <1>5. \A q \in Peer : PeerOK(q)'
    BY <1>0, HarnessFacts DEF PeerOK, cfgVars
  <1> QED
    BY <1>0, <1>3, <1>4, <1>5, DisksSame DEF HarnessInv, cfgVars

(* The switches of the network concern neither.                              *)
LEMMA SwitchKeeps ==
    ASSUME NetInv, setunreliable \/ cleanup
    PROVE  HarnessInv' /\ DisksGrow
  <1>0. UNCHANGED <<cfgVars, disk, enabled, servers, rpc>> /\ reliable' \in BOOLEAN /\ done' \in BOOLEAN
    BY HarnessFacts DEF setunreliable, cleanup, TypeOK
  <1>1. TypeOK'
    BY <1>0, HarnessFacts DEF TypeOK, cfgVars
  <1> QED
    BY <1>0, <1>1, HarnessSame, DisksSame DEF cfgVars

(* crash1 begins: the peer is cut off.                                       *)
LEMMA Crash1Keeps ==
    ASSUME NetInv, NEW p \in Peer, NEW start \in BOOLEAN, crash1(p, start)
    PROVE  HarnessInv' /\ DisksGrow
  <1>0. /\ harness = Quiet /\ Detach(p) /\ (start => made[p] < MaxInstances)
        /\ harness' = [step |-> "disconnected", peer |-> p, start |-> start]
        /\ UNCHANGED <<made, rafts, saved, disk, servers, reliable, done, rpc>>
    BY DEF crash1
  <1>1. /\ connected' \in [Peer -> BOOLEAN] /\ ~ connected'[p]
        /\ \A q \in Peer : connected'[q] => connected[q]
        /\ enabled' \subseteq enabled /\ \A e \in enabled' : e.peer # p
    BY <1>0, DetachFacts
  <1>2. /\ harness'.step = "disconnected" /\ harness'.peer = p /\ harness'.start = start
        /\ harness' \in [step : Step, peer : Peer \cup {Nil}, start : BOOLEAN]
    BY <1>0 DEF Step
  <1>3. TypeOK'
    BY <1>0, <1>1, <1>2, HarnessFacts DEF TypeOK
  <1>4. HarnessOK'
    BY <1>0, <1>1, <1>2 DEF HarnessOK
  <1>5. EndsOK'
    BY <1>0, <1>1, <1>2, HarnessFacts DEF EndsOK
  <1>6. \A q \in Peer : PeerOK(q)'
    BY <1>0, <1>1, HarnessFacts DEF PeerOK
  <1> QED
    BY <1>0, <1>3, <1>4, <1>5, <1>6, DisksSame DEF HarnessInv

(* Where the harness works, and on which peer.                               *)
LEMMA AtFacts ==
    ASSUME NetInv, NEW p \in Peer, NEW step, step # "idle", At(step, p)
    PROVE  /\ harness # Quiet /\ harness.step = step /\ harness.peer = p /\ ~ connected[p]
           /\ harness.start \in BOOLEAN
           /\ step \in {"deleted", "superseded", "made"} => servers[p] = 0
           /\ harness.start /\ step # "made" => made[p] < MaxInstances
           /\ step \in {"superseded", "made"} => harness.start
           /\ step = "made" => saved[p].instance = made[p]
           /\ \A e \in enabled : e.peer # p
  <1>1. harness.step = step /\ harness.peer = p
    BY DEF At
  <1>2. harness # Quiet
    BY <1>1 DEF Quiet
  <1>3. harness.start \in BOOLEAN
    BY HarnessFacts DEF TypeOK
  <1> QED
    BY <1>1, <1>2, <1>3, HarnessFacts DEF HarnessOK, EndsOK

(* DeleteServer takes the peer from the network.                             *)
LEMMA DeleteServerKeeps ==
    ASSUME NetInv, NEW p \in Peer, DeleteServer(p)
    PROVE  HarnessInv' /\ DisksGrow
  <1>0. /\ At("disconnected", p) /\ harness' = [harness EXCEPT !.step = "deleted"]
        /\ servers' = [servers EXCEPT ![p] = 0]
        /\ UNCHANGED <<made, rafts, connected, saved, disk, enabled, reliable, done, rpc>>
    BY DEF DeleteServer, Register
  <1>1. /\ harness.peer = p /\ ~ connected[p] /\ (harness.start => made[p] < MaxInstances)
        /\ harness.start \in BOOLEAN /\ \A e \in enabled : e.peer # p
    BY <1>0, AtFacts
  <1>2. /\ harness'.step = "deleted" /\ harness'.peer = p /\ harness'.start = harness.start
        /\ harness' \in [step : Step, peer : Peer \cup {Nil}, start : BOOLEAN]
    BY <1>0, <1>1, HarnessFacts DEF Step, TypeOK
  <1>3. servers' \in [Peer -> 0..MaxInstances] /\ servers'[p] = 0 /\ \A q \in Peer : q # p => servers'[q] = servers[q]
    BY <1>0, HarnessFacts, NetworkAssumption DEF TypeOK
  <1>4. TypeOK'
    BY <1>0, <1>2, <1>3, HarnessFacts DEF TypeOK
  <1>5. HarnessOK'
    BY <1>0, <1>1, <1>2, <1>3 DEF HarnessOK
  <1>6. EndsOK'
    BY <1>0, <1>1, <1>2, HarnessFacts DEF EndsOK
  <1>7. \A q \in Peer : PeerOK(q)'
    BY <1>0, <1>3, HarnessFacts DEF PeerOK
  <1> QED
    BY <1>0, <1>4, <1>5, <1>6, <1>7, DisksSame DEF HarnessInv

(* The copy that takes the place of the persister holds what it held.        *)
LEMMA SupersedeKeeps ==
    ASSUME NetInv, NEW p \in Peer, Supersede(p)
    PROVE  HarnessInv' /\ DisksGrow
  <1>0. /\ At("deleted", p)
        /\ saved' = [saved EXCEPT ![p] = [instance |-> 0, data |-> Stored(p)]]
        /\ rafts' = [rafts EXCEPT ![p] = 0]
        /\ harness' = IF harness.start THEN [harness EXCEPT !.step = "superseded"] ELSE Quiet
        /\ UNCHANGED <<made, connected, disk, enabled, servers, reliable, done, rpc>>
    BY DEF Supersede, netVars
  <1>1. /\ harness.peer = p /\ ~ connected[p] /\ (harness.start => made[p] < MaxInstances)
        /\ harness.start \in BOOLEAN /\ servers[p] = 0 /\ \A e \in enabled : e.peer # p
    BY <1>0, AtFacts
  <1>2. /\ harness' = Quiet \/ (harness'.step = "superseded" /\ harness'.peer = p /\ harness'.start /\ harness.start)
        /\ harness' \in [step : Step, peer : Peer \cup {Nil}, start : BOOLEAN]
    BY <1>0, <1>1, HarnessFacts DEF Step, TypeOK, Quiet
  <1>3. Stored(p) \in SUBSET RPC
    <2>1. saved[p] \in [instance : 0..MaxInstances, data : SUBSET RPC] /\ disk[p] \in [Instance -> SUBSET RPC]
      BY HarnessFacts DEF TypeOK
    <2>2. saved[p].instance # 0 => saved[p].instance \in Instance
      BY <2>1, NetworkAssumption DEF Instance
    <2> QED
      BY <2>1, <2>2 DEF Stored
  <1>4. PICK st \in SUBSET RPC : st = Stored(p)
    BY <1>3
  <1>5. /\ saved' \in [Peer -> [instance : 0..MaxInstances, data : SUBSET RPC]]
        /\ saved'[p].instance = 0 /\ saved'[p].data = st
        /\ \A q \in Peer : q # p => saved'[q] = saved[q]
    <2>1. saved \in [Peer -> [instance : 0..MaxInstances, data : SUBSET RPC]]
      BY HarnessFacts DEF TypeOK
    <2>2. [instance |-> 0, data |-> st] \in [instance : 0..MaxInstances, data : SUBSET RPC]
      BY NetworkAssumption
    <2>3. saved' = [saved EXCEPT ![p] = [instance |-> 0, data |-> st]]
      BY <1>0, <1>4
    <2> QED
      BY <2>1, <2>2, <2>3
  <1>6. rafts' \in [Peer -> 0..MaxInstances] /\ rafts'[p] = 0 /\ \A q \in Peer : q # p => rafts'[q] = rafts[q]
    BY <1>0, HarnessFacts, NetworkAssumption DEF TypeOK
  <1>7. TypeOK'
    BY <1>0, <1>2, <1>5, <1>6, HarnessFacts DEF TypeOK
  <1>8. HarnessOK'
    BY <1>0, <1>1, <1>2 DEF HarnessOK, Quiet
  <1>9. EndsOK'
    BY <1>0, <1>1, <1>2, <1>6, HarnessFacts DEF EndsOK
  <1>10. \A q \in Peer : PeerOK(q)'
    BY <1>0, <1>1, <1>5, <1>6, HarnessFacts DEF PeerOK
  <1>11. ASSUME NEW q \in Peer
         PROVE  Stored(q)' = Stored(q) /\ made[q] <= made'[q] /\ rafts'[q] \in {rafts[q], 0}
    <2>1. made[q] \in Nat
      BY HarnessFacts, MadeTyped
    <2>2. Stored(q)' = Stored(q)
      BY <1>0, <1>4, <1>5 DEF Stored
    <2> QED
      BY <2>1, <2>2, <1>0, <1>6
  <1>12. DisksGrow
    BY <1>11, <1>0 DEF DisksGrow
  <1> QED
    BY <1>7, <1>8, <1>9, <1>10, <1>12 DEF HarnessInv

(* start1 gives the new instance a persister with what the harness read.     *)
LEMMA Start1Keeps ==
    ASSUME NetInv, NEW p \in Peer, start1(p)
    PROVE  HarnessInv' /\ DisksGrow
  <1> DEFINE k == made[p] + 1
  <1>0. /\ At("superseded", p)
        /\ made' = [made EXCEPT ![p] = k]
        /\ disk' = [disk EXCEPT ![p][k] = Stored(p)]
        /\ saved' = [saved EXCEPT ![p] = [instance |-> k, data |-> {}]]
        /\ rafts' = [rafts EXCEPT ![p] = k]
        /\ harness' = [harness EXCEPT !.step = "made"]
        /\ UNCHANGED <<connected, enabled, servers, reliable, done, rpc>>
    BY DEF start1, netVars
  <1>1. /\ harness.peer = p /\ ~ connected[p] /\ made[p] < MaxInstances
        /\ harness.start /\ servers[p] = 0 /\ \A e \in enabled : e.peer # p
    BY <1>0, AtFacts
  <1>2. made[p] \in Nat /\ made[p] > 0 /\ MaxInstances \in Nat /\ k \in Nat /\ k > made[p] /\ k # 0
        /\ k \in Instance /\ k \in 0..MaxInstances
    <2>1. made[p] \in Nat /\ made[p] > 0 /\ MaxInstances \in Nat
      BY HarnessFacts, MadeTyped
    <2> QED
      BY <2>1, <1>1 DEF Instance
  <1>3. /\ harness'.step = "made" /\ harness'.peer = p /\ harness'.start
        /\ harness' \in [step : Step, peer : Peer \cup {Nil}, start : BOOLEAN]
    BY <1>0, <1>1, HarnessFacts DEF Step, TypeOK
  <1>4. Stored(p) \in SUBSET RPC
    <2>1. saved[p] \in [instance : 0..MaxInstances, data : SUBSET RPC] /\ disk[p] \in [Instance -> SUBSET RPC]
      BY HarnessFacts DEF TypeOK
    <2>2. saved[p].instance # 0 => saved[p].instance \in Instance
      BY <2>1, NetworkAssumption DEF Instance
    <2> QED
      BY <2>1, <2>2 DEF Stored
  <1>5. PICK st \in SUBSET RPC : st = Stored(p)
    BY <1>4
  <1>6. PICK kk \in Instance : kk = k
    BY <1>2
  <1>7. /\ saved' \in [Peer -> [instance : 0..MaxInstances, data : SUBSET RPC]]
        /\ saved'[p].instance = kk /\ \A q \in Peer : q # p => saved'[q] = saved[q]
    <2>1. saved \in [Peer -> [instance : 0..MaxInstances, data : SUBSET RPC]]
      BY HarnessFacts DEF TypeOK
    <2>2. [instance |-> kk, data |-> {}] \in [instance : 0..MaxInstances, data : SUBSET RPC]
      BY <1>2, <1>6
    <2>3. saved' = [saved EXCEPT ![p] = [instance |-> kk, data |-> {}]]
      BY <1>0, <1>6
    <2> QED
      BY <2>1, <2>2, <2>3
  <1>8. /\ rafts' \in [Peer -> 0..MaxInstances] /\ rafts'[p] = kk /\ \A q \in Peer : q # p => rafts'[q] = rafts[q]
        /\ made' \in [Peer -> Instance] /\ made'[p] = kk /\ \A q \in Peer : q # p => made'[q] = made[q]
    BY <1>0, <1>2, <1>6, HarnessFacts DEF TypeOK
  <1>9. /\ disk' \in [Peer -> [Instance -> SUBSET RPC]] /\ disk'[p][kk] = st
        /\ \A j \in Instance : j # kk => disk'[p][j] = disk[p][j]
        /\ \A q \in Peer : q # p => disk'[q] = disk[q]
    <2>1. disk \in [Peer -> [Instance -> SUBSET RPC]]
      BY HarnessFacts DEF TypeOK
    <2>2. disk' = [disk EXCEPT ![p][kk] = st]
      BY <1>0, <1>5, <1>6
    <2> QED
      BY <2>1, <2>2
  <1>10. TypeOK'
    BY <1>0, <1>3, <1>7, <1>8, <1>9, HarnessFacts DEF TypeOK
  <1>11. HarnessOK'
    BY <1>0, <1>1, <1>3, <1>7, <1>8 DEF HarnessOK
  <1>12. EndsOK'
    BY <1>0, <1>1, <1>3, <1>8, HarnessFacts DEF EndsOK
  <1>13. \A q \in Peer : PeerOK(q)'
    BY <1>0, <1>1, <1>7, <1>8, HarnessFacts DEF PeerOK
  <1>14. ASSUME NEW q \in Peer
         PROVE  /\ Stored(q) \subseteq Stored(q)' /\ made[q] <= made'[q]
                /\ \A j \in 1..made[q] : disk[q][j] \subseteq disk'[q][j]
                /\ rafts'[q] \in {rafts[q], 0} \/ rafts'[q] > made[q]
    <2>1. made[q] \in Nat /\ made[q] <= MaxInstances
      BY HarnessFacts, MadeTyped
    <2>2. CASE q = p
      <3>1. Stored(p)' = st
        BY <1>2, <1>6, <1>7, <1>9 DEF Stored
      <3>2. \A j \in 1..made[p] : j \in Instance /\ j # kk
        BY <1>1, <1>2, <1>6 DEF Instance
      <3> QED
        BY <3>1, <3>2, <2>2, <1>2, <1>5, <1>6, <1>8, <1>9
    <2>3. CASE q # p
      <3>1. Stored(q)' = Stored(q)
        BY <2>3, <1>7, <1>9 DEF Stored
      <3> QED
        BY <3>1, <2>1, <2>3, <1>8, <1>9
    <2> QED
      BY <2>2, <2>3
  <1>15. DisksGrow
    BY <1>14 DEF DisksGrow
  <1> QED
    BY <1>10, <1>11, <1>12, <1>13, <1>15 DEF HarnessInv

(* AddServer registers the instance whose persister the harness holds.       *)
LEMMA AddServerKeeps ==
    ASSUME NetInv, NEW p \in Peer, AddServer(p)
    PROVE  HarnessInv' /\ DisksGrow
  <1>0. /\ At("made", p) /\ harness' = Quiet /\ servers' = [servers EXCEPT ![p] = made[p]]
        /\ UNCHANGED <<made, rafts, connected, saved, disk, enabled, reliable, done, rpc>>
    BY DEF AddServer, Register
  <1>1. saved[p].instance = made[p]
    BY <1>0, AtFacts
  <1>2. Quiet \in [step : Step, peer : Peer \cup {Nil}, start : BOOLEAN]
    BY DEF Quiet, Step
  <1>3. PICK m \in 0..MaxInstances : m = made[p]
    BY HarnessFacts, MadeTyped
  <1>4. servers' \in [Peer -> 0..MaxInstances] /\ servers'[p] = m /\ \A q \in Peer : q # p => servers'[q] = servers[q]
    BY <1>0, <1>3, HarnessFacts DEF TypeOK
  <1>5. TypeOK'
    BY <1>0, <1>2, <1>4, HarnessFacts DEF TypeOK
  <1>6. HarnessOK' /\ EndsOK'
    BY <1>0, HarnessFacts DEF HarnessOK, EndsOK
  <1>7. \A q \in Peer : PeerOK(q)'
    BY <1>0, <1>1, <1>3, <1>4, HarnessFacts DEF PeerOK
  <1> QED
    BY <1>0, <1>5, <1>6, <1>7, DisksSame DEF HarnessInv

-----------------------------------------------------------------------------
(* The calls.                                                                *)

(* The records that describe a call.                                         *)
CallType == [pc : Pc, end : End \cup ClerkEnd \cup {Nil}, server : 0..MaxInstances,
             reliable : BOOLEAN, killed : BOOLEAN,
             handler : {"none", "running", "returned", "ended"}]

(* A step of the network that changes call n alone.                          *)
LEMMA OneCall ==
    ASSUME NetInv, NEW n \in RPC, NEW c \in CallType, rpc' = [rpc EXCEPT ![n] = c],
           UNCHANGED <<cfgVars, netVars>>, disk' \in [Peer -> [Instance -> SUBSET RPC]], DisksGrow,
           CallOK(n)'
    PROVE  NetInv'
  <1>0. UNCHANGED <<made, rafts, connected, saved, harness, enabled, servers, reliable, done>>
    BY DEF cfgVars, netVars
  <1>1. rpc \in [RPC -> CallType]
    BY HarnessFacts DEF TypeOK, CallType
  <1>2. rpc' \in [RPC -> CallType] /\ \A m \in RPC : m # n => rpc'[m] = rpc[m]
    BY <1>1
  <1>3. TypeOK'
    BY <1>0, <1>2, HarnessFacts DEF TypeOK, CallType
  <1>4. HarnessInv'
    BY <1>0, <1>3, HarnessSame
  <1>5. \A m \in RPC : m # n => CallOK(m)'
    BY <1>2, <1>3, CallStays
  <1> QED
    BY <1>4, <1>5 DEF NetInv

(* The same when no handler writes: the call's record decides.               *)
LEMMA OneRecord ==
    ASSUME NetInv, NEW n \in RPC, NEW c \in CallType, rpc' = [rpc EXCEPT ![n] = c],
           UNCHANGED <<cfgVars, disk, netVars>>,
           RecordOK(n, c)
    PROVE  NetInv'
  <1>0. UNCHANGED <<made, rafts, connected, saved, harness, enabled, servers, reliable, done, disk>>
    BY DEF cfgVars, netVars
  <1>1. rpc \in [RPC -> CallType] /\ disk \in [Peer -> [Instance -> SUBSET RPC]]
    BY HarnessFacts DEF TypeOK, CallType
  <1>2. rpc'[n] = c
    BY <1>1
  <1>3. Stored(c.end.to)' = Stored(c.end.to)
    BY <1>0 DEF Stored
  <1>4. CallOK(n)'
    BY <1>0, <1>2, <1>3 DEF CallOK, RecordOK
  <1>5. DisksGrow
    BY <1>0, DisksSame
  <1> QED
    BY <1>0, <1>1, <1>4, <1>5, OneCall

(* What the invariant says of call n.                                        *)
LEMMA CallFacts ==
    ASSUME NetInv, NEW n \in RPC, NEW c, c = rpc[n]
    PROVE  /\ c \in CallType /\ RecordOK(n, c)
           /\ c.end \in End \cup ClerkEnd => c.end.to \in Peer
  <1>1. CallOK(n) /\ TypeOK
    BY DEF NetInv, HarnessInv
  <1>2. c \in CallType
    BY <1>1 DEF TypeOK, CallType
  <1>3. c.end \in End \cup ClerkEnd => c.end.to \in Peer
    BY DEF End, ClerkEnd
  <1> QED
    BY <1>1, <1>2, <1>3 DEF CallOK

(* Call: the number is free, so the record is replaced as a whole.           *)
LEMMA CallKeeps ==
    ASSUME NetInv, NEW e \in End \cup ClerkEnd, NEW killed \in BOOLEAN, Call(e, killed),
           killed => e \in End /\ e.instance <= made[e.peer] /\ e.instance # rafts[e.peer]
    PROVE  NetInv'
  <1> DEFINE least == CHOOSE n \in Unused : \A m \in Unused : n <= m
             c == [NoCall EXCEPT !.pc = "sent", !.end = e, !.killed = killed]
  <1>1. Unused # {} /\ Unused \in SUBSET RPC
    BY DEF Call, Unused
  <1>2. least \in RPC
    BY <1>1, LeastUnused
  <1>3. rpc' = [rpc EXCEPT ![least] = c] /\ UNCHANGED <<cfgVars, disk, netVars>>
    BY DEF Call
  <1>4. /\ c \in CallType /\ c.pc = "sent" /\ c.end = e /\ c.killed = killed /\ c.handler = "none"
    <2>1. 0 \in 0..MaxInstances /\ "sent" \in Pc /\ "none" \in Pc
      BY NetworkAssumption DEF Pc
    <2>2. NoCall \in CallType /\ NoCall.handler = "none"
      BY <2>1 DEF CallType, NoCall
    <2>3. PICK none \in CallType : none = NoCall
      BY <2>2
    <2> QED
      BY <2>1, <2>2, <2>3 DEF CallType
  <1>5. PICK n \in RPC, d \in CallType : n = least /\ d = c
    BY <1>2, <1>4
  <1>6. rpc' = [rpc EXCEPT ![n] = d]
    BY <1>3, <1>5
  <1>7. d.pc = "sent" /\ d.end = e /\ d.killed = killed /\ d.handler = "none"
    BY <1>4, <1>5
  <1> HIDE DEF least, c
  <1>8. RecordOK(n, d)
    BY <1>7 DEF RecordOK
  <1> QED
    BY <1>3, <1>6, <1>8, OneRecord

(* An instance that calls is the one the harness knows, or was killed.       *)
LEMMA PeerCallKeeps ==
    ASSUME NetInv, NEW e \in End, PeerCall(e)
    PROVE  NetInv'
  <1>1. e.instance <= made[e.peer] /\ Call(e, rafts[e.peer] # e.instance)
    BY DEF PeerCall
  <1>2. PICK killed \in BOOLEAN : killed = (rafts[e.peer] # e.instance)
    OBVIOUS
  <1>3. Call(e, killed)
    BY <1>1, <1>2
  <1> QED
    BY <1>1, <1>2, <1>3, CallKeeps

(* A clerk is never killed.                                                  *)
LEMMA ClerkCallKeeps ==
    ASSUME NetInv, NEW e \in ClerkEnd, ClerkCall(e)
    PROVE  NetInv'
  <1> QED
    BY CallKeeps DEF ClerkCall

(* The record of a call that only moves.                                     *)
LEMMA Moved ==
    ASSUME NetInv, NEW n \in RPC, NEW from, NEW to \in Pc, Goto(n, from, to)
    PROVE  \E c \in CallType, d \in CallType :
             /\ c = rpc[n] /\ c.pc = from /\ rpc' = [rpc EXCEPT ![n] = d]
             /\ d.pc = to /\ d.end = c.end /\ d.server = c.server /\ d.handler = c.handler
             /\ d.killed = c.killed /\ UNCHANGED <<cfgVars, disk, netVars>>
  <1>1. rpc \in [RPC -> CallType]
    BY HarnessFacts DEF TypeOK, CallType
  <1>2. PICK c \in CallType : c = rpc[n]
    BY <1>1
  <1>3. PICK d \in CallType : d = [c EXCEPT !.pc = to]
    BY <1>2 DEF CallType
  <1>4. rpc' = [rpc EXCEPT ![n] = d]
    BY <1>2, <1>3 DEF Goto
  <1>5. d.pc = to /\ d.end = c.end /\ d.server = c.server /\ d.handler = c.handler /\ d.killed = c.killed
    BY <1>3 DEF CallType
  <1> QED
    BY <1>2, <1>4, <1>5 DEF Goto

(* A call that fails asks nothing of the rest.                               *)
LEMMA FailKeeps ==
    ASSUME NetInv, NEW n \in RPC, NEW from \in Pc \ {"none"}, NEW to \in {"false"}, Goto(n, from, to)
    PROVE  NetInv'
  <1>1. PICK c \in CallType, d \in CallType :
             /\ c = rpc[n] /\ c.pc = from /\ rpc' = [rpc EXCEPT ![n] = d]
             /\ d.pc = to /\ d.end = c.end /\ d.server = c.server /\ d.handler = c.handler
             /\ d.killed = c.killed /\ UNCHANGED <<cfgVars, disk, netVars>>
    BY Moved DEF Pc
  <1>2. RecordOK(n, c)
    BY <1>1, CallFacts
  <1>3. RecordOK(n, d)
    BY <1>1, <1>2 DEF RecordOK
  <1> QED
    BY <1>1, <1>3, OneRecord

(* Reply, after the check.                                                   *)
LEMMA ReplyKeeps ==
    ASSUME NetInv, NEW n \in RPC, Reply(n)
    PROVE  NetInv'
  <1>1. PICK c \in CallType, d \in CallType :
             /\ c = rpc[n] /\ c.pc = "checked" /\ rpc' = [rpc EXCEPT ![n] = d]
             /\ d.pc = "true" /\ d.end = c.end /\ d.server = c.server /\ d.handler = c.handler
             /\ d.killed = c.killed /\ UNCHANGED <<cfgVars, disk, netVars>>
    <2>1. Goto(n, "checked", "true") /\ "true" \in Pc
      BY DEF Reply, Pc
    <2> QED
      BY <2>1, Moved
  <1>2. RecordOK(n, c)
    BY <1>1, CallFacts
  <1>3. RecordOK(n, d)
    BY <1>1, <1>2 DEF RecordOK
  <1> QED
    BY <1>1, <1>3, OneRecord

(* The check: a server that is still registered writes to the persister      *)
(* that the harness would read.                                              *)
LEMMA CheckServerKeeps ==
    ASSUME NetInv, NEW n \in RPC, CheckServer(n)
    PROVE  NetInv'
  <1>1. CASE isServerDead(n)
    <2>1. Goto(n, "replying", "false") /\ "replying" \in Pc \ {"none"}
      BY <1>1 DEF CheckServer, Pc
    <2> QED
      BY <2>1, FailKeeps
  <1>2. CASE ~ isServerDead(n)
    <2>0. Goto(n, "replying", "checked") /\ "checked" \in Pc
      BY <1>2 DEF CheckServer, Pc
    <2>1. PICK c \in CallType, d \in CallType :
             /\ c = rpc[n] /\ c.pc = "replying" /\ rpc' = [rpc EXCEPT ![n] = d]
             /\ d.pc = "checked" /\ d.end = c.end /\ d.server = c.server /\ d.handler = c.handler
             /\ d.killed = c.killed /\ UNCHANGED <<cfgVars, disk, netVars>>
      BY <2>0, Moved
    <2>2. RecordOK(n, c) /\ (c.end \in End \cup ClerkEnd => c.end.to \in Peer)
      BY <2>1, CallFacts
    <2> PICK p \in Peer : p = c.end.to
      BY <2>1, <2>2 DEF RecordOK
    <2>3. servers[p] = c.server
      BY <2>1, <1>2 DEF isServerDead
    <2>4. c.server \in 1..made[p] /\ n \in disk[p][c.server]
      BY <2>1, <2>2 DEF RecordOK
    <2>5. c.server # 0
      BY <2>4, HarnessFacts, MadeTyped
    <2>6. n \in Stored(p)
      BY <2>3, <2>4, <2>5, HarnessFacts DEF PeerOK, Stored
    <2>7. RecordOK(n, d)
      BY <2>1, <2>2, <2>6 DEF RecordOK
    <2> QED
      BY <2>1, <2>7, OneRecord
  <1> QED
    BY <1>1, <1>2

(* The lookup: an end of an instance that was killed is not enabled, and a   *)
(* server that is registered exists.                                         *)
LEMMA ReadKeeps ==
    ASSUME NetInv, NEW n \in RPC, readEndnameInfo(n)
    PROVE  NetInv'
  <1>1. PICK c \in CallType : c = rpc[n]
    BY CallFacts
  <1>2. RecordOK(n, c) /\ (c.end \in End \cup ClerkEnd => c.end.to \in Peer) /\ c.pc = "sent"
    BY <1>1, CallFacts DEF readEndnameInfo
  <1>3. c.end \in End \cup ClerkEnd
    BY <1>2 DEF RecordOK
  <1>4. PICK p \in Peer : p = c.end.to
    BY <1>2, <1>3
  <1>5. PICK s \in 0..MaxInstances, r \in BOOLEAN : s = servers[p] /\ r = reliable
    BY HarnessFacts DEF TypeOK
  <1>6. PICK to \in {"delayed", "unreachable"} :
             /\ to = (IF c.end \in enabled /\ s # 0 THEN "delayed" ELSE "unreachable")
    OBVIOUS
  <1>7. PICK d \in CallType : d = [c EXCEPT !.pc = to, !.server = s, !.reliable = r]
    BY DEF CallType, Pc
  <1>8. d.pc = to /\ d.end = c.end /\ d.server = s /\ d.handler = c.handler /\ d.killed = c.killed
    BY <1>7 DEF CallType
  <1>9. rpc' = [rpc EXCEPT ![n] = d] /\ UNCHANGED <<cfgVars, disk, netVars>>
    BY <1>1, <1>4, <1>5, <1>6, <1>7 DEF readEndnameInfo
  <1>10. ASSUME c.end \in enabled, s # 0 PROVE s \in 1..made[p]
    BY <1>5, <1>10, HarnessFacts, MadeTyped DEF PeerOK
  <1>11. ASSUME c.killed, c.end \in enabled PROVE FALSE
    <2>1. c.end \in End /\ c.end.instance # rafts[c.end.peer]
      BY <1>2, <1>11 DEF RecordOK
    <2>2. c.end.peer \in Peer
      BY <2>1 DEF End
    <2> QED
      BY <2>1, <2>2, <1>11, HarnessFacts DEF EndsOK
  <1>12. c.handler = "none"
    BY <1>2 DEF RecordOK
  <1>13. RecordOK(n, d)
    BY <1>3, <1>4, <1>6, <1>8, <1>10, <1>11, <1>12, <1>2 DEF RecordOK
  <1> QED
    BY <1>9, <1>13, OneRecord

(* A handler that starts: the call was not made by a killed instance.        *)
LEMMA DispatchKeeps ==
    ASSUME NetInv, NEW n \in RPC, Dispatch(n)
    PROVE  NetInv'
  <1>1. PICK c \in CallType : c = rpc[n]
    BY CallFacts
  <1>2. RecordOK(n, c) /\ c.pc = "delayed"
    BY <1>1, CallFacts DEF Dispatch
  <1>3. PICK d \in CallType : d = [c EXCEPT !.pc = "waiting", !.handler = "running"]
    BY DEF CallType, Pc
  <1>4. d.pc = "waiting" /\ d.end = c.end /\ d.server = c.server /\ d.handler = "running" /\ d.killed = c.killed
    BY <1>3 DEF CallType
  <1>5. rpc' = [rpc EXCEPT ![n] = d] /\ UNCHANGED <<cfgVars, disk, netVars>>
    BY <1>1, <1>3 DEF Dispatch
  <1>6. RecordOK(n, d)
    BY <1>2, <1>4 DEF RecordOK
  <1> QED
    BY <1>5, <1>6, OneRecord

(* A handler that has returned is received from, or drained.                 *)
LEMMA EndKeeps ==
    ASSUME NetInv, NEW n \in RPC, Receive(n) \/ Drain(n)
    PROVE  NetInv'
  <1>1. PICK c \in CallType : c = rpc[n]
    BY CallFacts
  <1>2. RecordOK(n, c) /\ c.handler = "returned"
    BY <1>1, CallFacts DEF Receive, Drain
  <1>3. CASE Receive(n)
    <2>1. PICK d \in CallType : d = [c EXCEPT !.pc = "replying", !.handler = "ended"]
      BY DEF CallType, Pc
    <2>2. d.pc = "replying" /\ d.end = c.end /\ d.server = c.server /\ d.handler = "ended" /\ d.killed = c.killed
      BY <2>1 DEF CallType
    <2>3. rpc' = [rpc EXCEPT ![n] = d] /\ UNCHANGED <<cfgVars, disk, netVars>> /\ c.pc = "waiting"
      BY <2>1, <1>1, <1>3 DEF Receive
    <2>4. RecordOK(n, d)
      BY <2>2, <2>3, <1>2 DEF RecordOK
    <2> QED
      BY <2>3, <2>4, OneRecord
  <1>4. CASE Drain(n)
    <2>1. PICK d \in CallType : d = [c EXCEPT !.handler = "ended"]
      BY DEF CallType
    <2>2. d.pc = c.pc /\ d.end = c.end /\ d.server = c.server /\ d.handler = "ended" /\ d.killed = c.killed
      BY <2>1 DEF CallType
    <2>3. rpc' = [rpc EXCEPT ![n] = d] /\ UNCHANGED <<cfgVars, disk, netVars>> /\ c.pc = "false"
      BY <2>1, <1>1, <1>4 DEF Drain
    <2>4. RecordOK(n, d)
      BY <2>2, <2>3, <1>2 DEF RecordOK
    <2> QED
      BY <2>3, <2>4, OneRecord
  <1> QED
    BY <1>3, <1>4

(* A handler writes to the persister of an instance that exists, whatever    *)
(* has become of that instance.                                              *)
LEMMA HandleKeeps ==
    ASSUME NetInv, NEW n \in RPC, Handle(n)
    PROVE  NetInv'
  <1>1. PICK c \in CallType : c = rpc[n]
    BY CallFacts
  <1>2. RecordOK(n, c) /\ (c.end \in End \cup ClerkEnd => c.end.to \in Peer) /\ c.handler = "running"
    BY <1>1, CallFacts DEF Handle
  <1>3. /\ c.pc \notin {"none", "sent", "unreachable", "delayed"}
        /\ c.end \in End \cup ClerkEnd /\ ~ c.killed
    BY <1>2 DEF RecordOK
  <1>4. PICK p \in Peer : p = c.end.to
    BY <1>2, <1>3
  <1>5. c.server \in 1..made[p]
    BY <1>2, <1>4 DEF RecordOK
  <1>6. PICK k \in Instance : k = c.server
    BY <1>5, HarnessFacts, MadeTyped DEF Instance
  <1>7. PICK d \in CallType : d = [c EXCEPT !.handler = "returned"]
    BY DEF CallType
  <1>8. d.pc = c.pc /\ d.end = c.end /\ d.server = c.server /\ d.handler = "returned" /\ d.killed = c.killed
    BY <1>7 DEF CallType
  <1>9. /\ rpc' = [rpc EXCEPT ![n] = d] /\ UNCHANGED <<cfgVars, netVars>>
        /\ disk' = [disk EXCEPT ![p][k] = @ \cup {n}]
    BY <1>1, <1>4, <1>6, <1>7 DEF Handle
  <1>10. UNCHANGED <<made, rafts, saved>>
    BY <1>9 DEF cfgVars
  <1>11. /\ disk' \in [Peer -> [Instance -> SUBSET RPC]] /\ n \in disk'[p][k]
         /\ \A q \in Peer, j \in Instance : disk[q][j] \subseteq disk'[q][j]
    <2>1. disk \in [Peer -> [Instance -> SUBSET RPC]]
      BY HarnessFacts DEF TypeOK
    <2> QED
      BY <2>1, <1>9
  <1>12. ASSUME NEW q \in Peer
         PROVE  /\ made[q] <= made'[q] /\ rafts'[q] \in {rafts[q], 0}
                /\ \A j \in 1..made[q] : disk[q][j] \subseteq disk'[q][j]
                /\ Stored(q) \subseteq Stored(q)'
    <2>1. made[q] \in Nat /\ made[q] <= MaxInstances /\ MaxInstances \in Nat
      BY HarnessFacts, MadeTyped
    <2>2. \A j \in 1..made[q] : j \in Instance
      BY <2>1 DEF Instance
    <2>3. saved[q].instance # 0 => saved[q].instance \in Instance
      <3>1. saved[q] \in [instance : 0..MaxInstances, data : SUBSET RPC]
        BY HarnessFacts DEF TypeOK
      <3> QED
        BY <3>1, <2>1 DEF Instance
    <2>4. Stored(q) \subseteq Stored(q)'
      BY <2>3, <1>10, <1>11 DEF Stored
    <2> QED
      BY <2>1, <2>2, <2>4, <1>10, <1>11
  <1>13. DisksGrow
    BY <1>12 DEF DisksGrow
  <1>14. rpc'[n] = d
    <2>1. rpc \in [RPC -> CallType]
      BY HarnessFacts DEF TypeOK, CallType
    <2> QED
      BY <2>1, <1>9
  <1>15. c.pc \in {"checked", "true"} => n \in Stored(p)'
    BY <1>2, <1>4, <1>12 DEF RecordOK
  <1>16. RecordOK(n, d)'
    BY <1>3, <1>4, <1>5, <1>6, <1>8, <1>10, <1>11, <1>15 DEF RecordOK
  <1>17. CallOK(n)'
    BY <1>14, <1>16 DEF CallOK
  <1> QED
    BY <1>9, <1>11, <1>13, <1>17, OneCall

-----------------------------------------------------------------------------
(* Every step of processReq keeps the invariant.                             *)
LEMMA ProcessKeeps ==
    ASSUME NetInv, NEW n \in RPC, processReq(n)
    PROVE  NetInv'
  <1>0. {"sent", "unreachable", "delayed", "waiting", "checked"} \subseteq Pc \ {"none"}
    BY DEF Pc
  <1>1. CASE Destroyed(n) \/ Unreachable(n) \/ DropRequest(n) \/ Abandon(n) \/ DropReply(n)
    BY <1>0, <1>1, FailKeeps DEF Destroyed, Unreachable, DropRequest, Abandon, DropReply
  <1>2. CASE readEndnameInfo(n)
    BY <1>2, ReadKeeps
  <1>3. CASE Dispatch(n)
    BY <1>3, DispatchKeeps
  <1>4. CASE Handle(n)
    BY <1>4, HandleKeeps
  <1>5. CASE Receive(n) \/ Drain(n)
    BY <1>5, EndKeeps
  <1>6. CASE CheckServer(n)
    BY <1>6, CheckServerKeeps
  <1>7. CASE Reply(n)
    BY <1>7, ReplyKeeps
  <1> QED
    BY <1>1, <1>2, <1>3, <1>4, <1>5, <1>6, <1>7 DEF processReq

(* A step of the harness leaves the calls alone.                             *)
LEMMA HarnessKeeps ==
    ASSUME NetInv, HarnessInv', DisksGrow, UNCHANGED rpc
    PROVE  NetInv'
  <1>1. \A n \in RPC : CallOK(n)'
    BY CallStays DEF HarnessInv
  <1> QED
    BY <1>1 DEF NetInv

(* Every step of the network, its callers and the harness does.              *)
LEMMA NetStep ==
    ASSUME NetInv, [Next]_vars
    PROVE  NetInv'
  <1>1. CASE \E p \in Peer : disconnect(p) \/ connect(p)
    <2>1. HarnessInv' /\ DisksGrow
      BY <1>1, DisconnectKeeps, ConnectKeeps
    <2>2. UNCHANGED rpc
      BY <1>1 DEF disconnect, connect
    <2> QED
      BY <2>1, <2>2, HarnessKeeps
  <1>2. CASE setunreliable \/ cleanup
    <2>1. HarnessInv' /\ DisksGrow
      BY <1>2, SwitchKeeps
    <2>2. UNCHANGED rpc
      BY <1>2 DEF setunreliable, cleanup
    <2> QED
      BY <2>1, <2>2, HarnessKeeps
  <1>3. CASE \E p \in Peer, start \in BOOLEAN : crash1(p, start)
    <2>1. HarnessInv' /\ DisksGrow
      BY <1>3, Crash1Keeps
    <2>2. UNCHANGED rpc
      BY <1>3 DEF crash1
    <2> QED
      BY <2>1, <2>2, HarnessKeeps
  <1>4. CASE \E p \in Peer : DeleteServer(p) \/ Supersede(p) \/ start1(p) \/ AddServer(p)
    <2>1. HarnessInv' /\ DisksGrow
      BY <1>4, DeleteServerKeeps, SupersedeKeeps, Start1Keeps, AddServerKeeps
    <2>2. UNCHANGED rpc
      BY <1>4 DEF DeleteServer, Supersede, start1, AddServer
    <2> QED
      BY <2>1, <2>2, HarnessKeeps
  <1>5. CASE \E peers \in SUBSET Peer : partition(peers)
    <2>1. HarnessInv' /\ DisksGrow
      BY <1>5, PartitionKeeps
    <2>2. UNCHANGED rpc
      BY <1>5 DEF partition
    <2> QED
      BY <2>1, <2>2, HarnessKeeps
  <1>6. CASE \E c \in Clerk, to \in SUBSET Peer, on \in BOOLEAN : ConnectClient(c, to, on)
    <2>1. HarnessInv' /\ DisksGrow
      BY <1>6, ConnectClientKeeps
    <2>2. UNCHANGED rpc
      BY <1>6 DEF ConnectClient
    <2> QED
      BY <2>1, <2>2, HarnessKeeps
  <1>7. CASE \E e \in End : PeerCall(e)
    BY <1>7, PeerCallKeeps
  <1>8. CASE \E e \in ClerkEnd : ClerkCall(e)
    BY <1>8, ClerkCallKeeps
  <1>9. CASE \E n \in RPC : processReq(n)
    BY <1>9, ProcessKeeps
  <1>10. CASE UNCHANGED vars
    <2>1. UNCHANGED <<made, rafts, connected, saved, harness, disk, enabled, servers, reliable, done, rpc>>
      BY <1>10 DEF vars, cfgVars, netVars
    <2>2. TypeOK'
      BY <2>1, HarnessFacts DEF TypeOK
    <2>3. HarnessInv' /\ DisksGrow
      BY <2>1, <2>2, HarnessSame, DisksSame
    <2> QED
      BY <2>1, <2>3, HarnessKeeps
  <1> QED
    BY <1>1, <1>2, <1>3, <1>4, <1>5, <1>6, <1>7, <1>8, <1>9, <1>10 DEF Next

(* make_config establishes it.                                               *)
LEMMA NetInit ==
    ASSUME Init
    PROVE  NetInv
  <1>0. 1 \in Instance /\ 1 \in 0..MaxInstances /\ 0 \in 0..MaxInstances
    BY NetworkAssumption DEF Instance
  <1>1. TypeOK
    <2>1. harness \in [step : Step, peer : Peer \cup {Nil}, start : BOOLEAN]
      BY DEF Init, Quiet, Step
    <2>2. disk \in [Peer -> [Instance -> SUBSET RPC]]
      BY DEF Init, EmptyDisk
    <2>3. NoCall \in CallType
      <3>1. "none" \in Pc
        BY DEF Pc
      <3> QED
        BY <3>1, <1>0 DEF NoCall, CallType
    <2>4. rpc \in [RPC -> CallType]
      BY <2>3 DEF Init
    <2> QED
      BY <1>0, <2>1, <2>2, <2>4 DEF Init, TypeOK, CallType
  <1>2. HarnessOK
    BY DEF Init, HarnessOK
  <1>3. EndsOK
    <2> SUFFICES ASSUME NEW e \in enabled, e.peer \in Peer PROVE rafts[e.peer] = e.instance
      BY DEF EndsOK, Init
    <2>1. e.peer \notin Clerk
      BY NetworkAssumption
    <2> QED
      BY <2>1 DEF Init, ClerkEnd
  <1>4. ASSUME NEW p \in Peer PROVE PeerOK(p)
    BY DEF Init, PeerOK
  <1>5. ASSUME NEW n \in RPC PROVE CallOK(n)
    BY DEF Init, CallOK, RecordOK, NoCall
  <1> QED
    BY <1>1, <1>2, <1>3, <1>4, <1>5 DEF NetInv, HarnessInv

(* So it holds in every state of every behaviour.                            *)
THEOREM NetworkInvariant == Spec => []NetInv
  <1>1. Init => NetInv
    BY NetInit
  <1>2. NetInv /\ [Next]_vars => NetInv'
    BY NetStep
  <1> QED
    BY <1>1, <1>2, PTL DEF Spec

(* A call that returned true has its effect in the persister from which the  *)
(* next instance starts, however crash1 and start1 interleave with the steps *)
(* of processReq, for any number of peers, clerks, restarts and calls.       *)
THEOREM RepliesPersisted == Spec => []AckedPersisted
  <1>1. NetInv => AckedPersisted
    BY DEF NetInv, CallOK, RecordOK, AckedPersisted
  <1> QED
    BY <1>1, NetworkInvariant, PTL

(* What an instance calls after the harness killed it reaches no handler:    *)
(* only the newest instance's ends are ever enabled.                         *)
THEOREM KilledStaySilent == Spec => []KilledSilent
  <1>1. NetInv => KilledSilent
    BY DEF NetInv, CallOK, RecordOK, KilledSilent
  <1> QED
    BY <1>1, NetworkInvariant, PTL
=============================================================================
