-------------------------- MODULE Protocols_proofs --------------------------
(***************************************************************************)
(* Four protocols that stand apart from the task graph.  The cluster       *)
(* mailbox and the page ring wait on an mbarrier by its parity bit: a bit  *)
(* can only tell a phase from the one before it, so each argument is that  *)
(* the two sides of a barrier are never further apart than that.  The      *)
(* other two share state over time on the host's side: the plan of device  *)
(* memory that a run must be able to keep, and the measurement queue that  *)
(* must survive its own scheduler.                                         *)
(***************************************************************************)
EXTENDS ClusterMailbox, PageRing, MemoryPlan, MeasurementQueue, FiniteSetTheorems,
        WellFoundedInduction, TLAPS

-----------------------------------------------------------------------------
(***************************************************************************)
(* The mailbox sums this episode's tiles for every number of episodes and  *)
(* every division of a tile into pieces.                                   *)
(*                                                                         *)
(* The argument counts, per peer, how many offers, pushes and              *)
(* acknowledgements there have been (Offered, Completed, Acked).  They are *)
(* in that order and no more than one apart, so that one parity bit per    *)
(* slot always tells this episode's phase from the one before it.          *)
(***************************************************************************)

RootPc == {"boot", "opening", "expect", "offer", "compute", "sum", "finish",
           "acknowledge", "closing", "gone"}
PeerPc == {"boot", "opening", "ready", "compute", "push", "ack", "closing", "gone"}

BarrierType ==
    /\ full \in [Slot -> [Peer -> [phases : Nat, armed : BOOLEAN, tx : Int]]]
    /\ ready \in [Peer -> [Slot -> Nat]]
    /\ ack \in [Peer -> [Slot -> Nat]]

DataType ==
    /\ tile \in [Rank -> Int]
    /\ flying \in [Peer -> SUBSET Piece]
    /\ partial \in [Slot -> [Peer -> [Piece -> Int]]]

MailboxType ==
    /\ pc \in [Rank -> RootPc \cup PeerPc]
    /\ pc[0] \in RootPc
    /\ \A p \in Peer : pc[p] \in PeerPc
    /\ episode \in [Rank -> 0 .. Episodes]
    /\ turn \in Peer
    /\ BarrierType
    /\ DataType

\* No rank is past Init while another has yet to set up its barriers; a rank
\* is in its closing steps exactly when it has no episode left.
RankInv ==
    \A r \in Rank :
        /\ pc[r] \in {"boot", "opening"} => episode[r] = 0
        /\ pc[r] \in {"closing", "gone"} <=> episode[r] = Episodes
        /\ pc[r] = "boot" => \A q \in Rank : pc[q] \in {"boot", "opening"}

TurnInv == pc[0] \notin {"expect", "offer", "acknowledge"} => turn = 1

(* How far each side has come with peer p, in episodes. *)
Count(b) == IF b THEN 1 ELSE 0

\* Offers made to p, and bytes announced for it.
OfferMade(p) ==
    \/ pc[0] \in {"compute", "sum", "finish", "acknowledge"}
    \/ pc[0] \in {"expect", "offer"} /\ p < turn
Offered(p) == episode[0] + Count(OfferMade(p))
Armed(p) == episode[0] + Count(OfferMade(p) \/ (pc[0] = "offer" /\ p = turn))

\* Acknowledgements sent to p, and pushes of p that have landed whole.
Acked(p) == episode[0] + Count(pc[0] = "acknowledge" /\ p < turn)
Completed(p) == episode[p] + Count(pc[p] = "ack" /\ flying[p] = {})

\* Phases of a barrier of slot s that n episodes complete.
Uses(n, s) == (n + 1 - s) \div 2

\* No side is ever two uses of one slot ahead of another.
OrderInv(p) ==
    /\ episode[p] <= Acked(p)
    /\ Acked(p) <= Completed(p)
    /\ Completed(p) <= Offered(p)
    /\ pc[p] \in {"compute", "push"} \/ flying[p] # {} => Offered(p) = episode[p] + 1
    /\ pc[0] \in {"finish", "acknowledge"} => Completed(p) = episode[0] + 1

SignalInv(p) ==
    pc[p] # "boot" => \A s \in Slot :
        ready[p][s] = Uses(Offered(p), s) /\ ack[p][s] = Uses(Acked(p), s)

\* Only the slot of rank 0's episode can be armed, and then for what is left
\* of the push.
FullInv(p) ==
    pc[0] # "boot" => \A s \in Slot :
        /\ full[s][p].phases = Uses(Completed(p), s)
        /\ full[s][p].armed <=> (s = Slot0 /\ Completed(p) < Armed(p))
        /\ full[s][p].tx = IF ~full[s][p].armed THEN 0
                           ELSE IF flying[p] # {} THEN Cardinality(flying[p])
                           ELSE Pieces[episode[0]]

PushInv(p) ==
    /\ flying[p] # {} => pc[p] = "ack"
    /\ pc[p] \in {"push", "ack"} => tile[p] = episode[p]
    /\ pc[p] = "ack" =>
          /\ flying[p] \subseteq 1 .. Pieces[episode[p]]
          /\ \A u \in (1 .. Pieces[episode[p]]) \ flying[p] :
                partial[SlotOf(episode[p])][p][u] = episode[p]

PeerInv(p) == OrderInv(p) /\ SignalInv(p) /\ FullInv(p) /\ PushInv(p)

MailboxInv ==
    /\ MailboxType
    /\ RankInv
    /\ TurnInv
    /\ \A p \in Peer : PeerInv(p)
    /\ pc[0] \in {"sum", "finish"} => tile[0] = episode[0]

-----------------------------------------------------------------------------
(***************************************************************************)
(* Phases, slots and parities.                                             *)
(***************************************************************************)
LEMMA SlotIsSlot ==
    ASSUME NEW n \in Nat
    PROVE  SlotOf(n) \in Slot
BY DEF SlotOf, Slot

\* One more episode is one more phase of its own slot and of no other.
LEMMA NextUse ==
    ASSUME NEW n \in Nat, NEW s \in Slot
    PROVE  /\ Uses(n, s) \in Nat
           /\ Uses(n + 1, s) = IF s = SlotOf(n) THEN Uses(n, s) + 1 ELSE Uses(n, s)
<1>1. PICK k \in Nat : n = 2 * k \/ n = 2 * k + 1
  BY n \div 2 \in Nat, n = 2 * (n \div 2) \/ n = 2 * (n \div 2) + 1
<1>2. QED
  BY <1>1 DEF Uses, SlotOf, Slot

LEMMA NoUseYet ==
    ASSUME NEW s \in Slot
    PROVE  Uses(0, s) = 0
BY DEF Uses, Slot

\* The parity of episode n is done once n + 1 episodes are, and not after n.
LEMMA ParityOfEpisode ==
    ASSUME NEW n \in Nat
    PROVE  /\ ~PhaseDone(Uses(n, SlotOf(n)), Phase(n))
           /\ PhaseDone(Uses(n + 1, SlotOf(n)), Phase(n))
<1>1. PICK k \in Nat : n = 2 * k \/ n = 2 * k + 1
  BY n \div 2 \in Nat, n = 2 * (n \div 2) \/ n = 2 * (n \div 2) + 1
<1>2. Uses(n, SlotOf(n)) = k /\ Uses(n + 1, SlotOf(n)) = k + 1 /\ n \div 2 = k
  BY <1>1 DEF Uses, SlotOf
<1>3. (k + 1) % 2 # k % 2
  BY <1>1
<1>4. QED
  BY <1>2, <1>3 DEF PhaseDone, Phase

LEMMA RankFacts ==
    /\ Ranks \in Nat /\ Ranks >= 2
    /\ 0 \in Rank /\ 1 \in Peer
    /\ Rank = Peer \cup {0}
    /\ \A p \in Peer : p \in Nat /\ p > 0 /\ p \in Rank /\ p # 0 /\ p < Ranks
    /\ Episodes \in Nat /\ Episodes > 0
    /\ \A e \in Episode : Pieces[e] \in Nat /\ Pieces[e] > 0 /\ 1 .. Pieces[e] \subseteq Piece
    /\ \A n \in 0 .. Episodes : n \in Nat /\ (n = Episodes \/ n \in Episode)
<1>1. /\ Ranks \in Nat /\ Ranks >= 2
      /\ 0 \in Rank /\ 1 \in Peer
      /\ Rank = Peer \cup {0}
      /\ \A p \in Peer : p \in Nat /\ p > 0 /\ p \in Rank /\ p # 0 /\ p < Ranks
  BY MailboxAssumption DEF Rank, Peer
<1>2. Episodes \in Nat /\ Episodes > 0
  BY MailboxAssumption
<1>3. ASSUME NEW e \in Episode
      PROVE  Pieces[e] \in Nat /\ Pieces[e] > 0 /\ 1 .. Pieces[e] \subseteq Piece
  <2>1. Pieces[e] \in Nat \ {0}
    BY MailboxAssumption DEF Episode
  <2>2. QED
    BY <2>1 DEF Piece
<1>4. \A n \in 0 .. Episodes : n \in Nat /\ (n = Episodes \/ n \in Episode)
  BY <1>2 DEF Episode
<1>5. QED
  BY <1>1, <1>2, <1>3, <1>4

-----------------------------------------------------------------------------
(***************************************************************************)
(* What a step that leaves a peer alone preserves.                         *)
(***************************************************************************)
\* What the invariant says of p, p's own steps and rank 0 for p change alone.
PeerUntouched(p) ==
    /\ pc'[p] = pc[p] /\ episode'[p] = episode[p]
    /\ tile'[p] = tile[p] /\ flying'[p] = flying[p]
    /\ \A s \in Slot : partial'[s][p] = partial[s][p]

SignalsUntouched(p) ==
    /\ ready'[p] = ready[p] /\ ack'[p] = ack[p]
    /\ \A s \in Slot : full'[s][p] = full[s][p]

LEMMA CountersAreNaturals ==
    ASSUME MailboxType, NEW p \in Peer
    PROVE  /\ episode[0] \in Nat /\ episode[p] \in Nat /\ p \in Nat /\ turn \in Nat
           /\ Offered(p) \in Nat /\ Armed(p) \in Nat
           /\ Acked(p) \in Nat /\ Completed(p) \in Nat
           /\ Offered(p) <= Armed(p) /\ Armed(p) <= episode[0] + 1
           /\ Acked(p) \in {episode[0], episode[0] + 1}
           /\ Completed(p) \in {episode[p], episode[p] + 1}
           /\ SlotOf(episode[0]) \in Slot /\ SlotOf(episode[p]) \in Slot
<1>1. /\ episode[0] \in Nat /\ episode[p] \in Nat /\ p \in Nat /\ turn \in Nat
  BY RankFacts DEF MailboxType
<1>2. SlotOf(episode[0]) \in Slot /\ SlotOf(episode[p]) \in Slot
  BY <1>1, SlotIsSlot
<1>3. QED
  BY <1>1, <1>2 DEF Offered, Armed, Acked, Completed, Count, OfferMade

LEMMA OtherPeerStep ==
    ASSUME MailboxType, NEW p \in Peer, PeerInv(p),
           PeerUntouched(p), SignalsUntouched(p),
           pc'[0] = pc[0], turn' = turn, episode'[0] = episode[0]
    PROVE  PeerInv(p)'
<1>1. /\ OfferMade(p)' <=> OfferMade(p)
      /\ Offered(p)' = Offered(p) /\ Armed(p)' = Armed(p)
      /\ Acked(p)' = Acked(p) /\ Completed(p)' = Completed(p)
      /\ Slot0' = Slot0
  BY DEF PeerUntouched, OfferMade, Offered, Armed, Acked, Completed, Slot0
<1>2. OrderInv(p)'
  BY <1>1 DEF PeerInv, OrderInv, PeerUntouched
<1>3. SignalInv(p)'
  BY <1>1 DEF PeerInv, SignalInv, PeerUntouched, SignalsUntouched
<1>4. FullInv(p)'
  BY <1>1 DEF PeerInv, FullInv, PeerUntouched, SignalsUntouched
<1>5. PushInv(p)'
  BY CountersAreNaturals DEF PeerInv, PushInv, PeerUntouched
<1>6. QED
  BY <1>2, <1>3, <1>4, <1>5 DEF PeerInv

\* A step of rank 0 that makes no offer and sends no acknowledgement.
LEMMA QuietRootStep ==
    ASSUME MailboxType, NEW p \in Peer, PeerInv(p),
           PeerUntouched(p), SignalsUntouched(p),
           episode'[0] = episode[0],
           pc[0] # "boot",
           Offered(p)' = Offered(p), Armed(p)' = Armed(p), Acked(p)' = Acked(p),
           pc'[0] \in {"finish", "acknowledge"} => Completed(p) = episode[0] + 1
    PROVE  PeerInv(p)'
<1>1. Completed(p)' = Completed(p) /\ Slot0' = Slot0
  BY DEF PeerUntouched, Completed, Slot0
<1>2. OrderInv(p)'
  BY <1>1 DEF PeerInv, OrderInv, PeerUntouched
<1>3. SignalInv(p)'
  BY <1>1 DEF PeerInv, SignalInv, PeerUntouched, SignalsUntouched
<1>4. FullInv(p)'
  BY <1>1 DEF PeerInv, FullInv, PeerUntouched, SignalsUntouched
<1>5. PushInv(p)'
  BY CountersAreNaturals DEF PeerInv, PushInv, PeerUntouched
<1>6. QED
  BY <1>2, <1>3, <1>4, <1>5 DEF PeerInv

-----------------------------------------------------------------------------
(***************************************************************************)
(* Types, and where the ranks are.                                         *)
(***************************************************************************)
LEMMA EpisodeOfActiveRank ==
    ASSUME MailboxType, RankInv, NEW r \in Rank, pc[r] \notin {"closing", "gone"}
    PROVE  episode[r] \in Episode /\ episode[r] + 1 \in 0 .. Episodes
BY RankFacts DEF MailboxType, RankInv, Episode

LEMMA Slot0IsSlot ==
    ASSUME MailboxType
    PROVE  Slot0 \in Slot
BY RankFacts, SlotIsSlot DEF MailboxType, Slot0

FullRecord == [phases : Nat, armed : BOOLEAN, tx : Int]

\* Expecting bytes arms one barrier and adds to its count, and no other.
LEMMA ExpectTxSets ==
    ASSUME MailboxType, RankInv, ExpectTx
    PROVE  /\ full' \in [Slot -> [Peer -> FullRecord]]
           /\ full'[Slot0][turn].phases = full[Slot0][turn].phases
           /\ full'[Slot0][turn].armed
           /\ full'[Slot0][turn].tx = full[Slot0][turn].tx + Pieces[episode[0]]
           /\ \A s \in Slot, p \in Peer : s # Slot0 \/ p # turn => full'[s][p] = full[s][p]
<1> DEFINE n == Pieces[episode[0]]
           b == full[Slot0][turn]
           c == [b EXCEPT !.armed = TRUE]
           d == [c EXCEPT !.tx = @ + n]
           f == [full EXCEPT ![Slot0][turn] = c]
<1>1. /\ Slot0 \in Slot /\ turn \in Peer /\ n \in Nat
      /\ full \in [Slot -> [Peer -> FullRecord]]
      /\ b \in FullRecord
  <2>1. Slot0 \in Slot /\ turn \in Peer
    BY Slot0IsSlot DEF MailboxType
  <2>2. n \in Nat
    BY RankFacts, EpisodeOfActiveRank DEF ExpectTx
  <2>3. full \in [Slot -> [Peer -> FullRecord]]
    BY DEF MailboxType, BarrierType, FullRecord
  <2>4. QED
    BY <2>1, <2>2, <2>3
<1>2. c \in FullRecord /\ c.phases = b.phases /\ c.armed /\ c.tx = b.tx
  BY <1>1 DEF FullRecord
<1> HIDE DEF b, c, n
<1>3. d \in FullRecord /\ d.phases = b.phases /\ d.armed /\ d.tx = b.tx + n
  BY <1>1, <1>2 DEF FullRecord
<1>4. f \in [Slot -> [Peer -> FullRecord]] /\ f[Slot0][turn] = c
  BY <1>1, <1>2
<1>5. full' = [f EXCEPT ![Slot0][turn].tx = @ + n]
  BY DEF ExpectTx, b, c, n
<1> HIDE DEF f
<1>6. full' = [f EXCEPT ![Slot0][turn] = d]
  BY <1>4, <1>5
<1> HIDE DEF d
<1>7. /\ full' \in [Slot -> [Peer -> FullRecord]]
      /\ full'[Slot0][turn] = d
      /\ \A s \in Slot, p \in Peer : s # Slot0 \/ p # turn => full'[s][p] = f[s][p]
  BY <1>1, <1>3, <1>4, <1>6
<1>8. \A s \in Slot, p \in Peer : s # Slot0 \/ p # turn => f[s][p] = full[s][p]
  BY <1>1 DEF f
<1>9. QED
  BY <1>3, <1>7, <1>8 DEF b, n

LEMMA TypeStep ==
    ASSUME MailboxType, RankInv, Next
    PROVE  MailboxType'
<1> USE RankFacts
<1>1. ASSUME NEW r \in Rank, InitBarriers(r)
      PROVE  MailboxType'
  <2>1. BarrierType'
    <3>1. CASE r = 0
      <4> DEFINE fresh == [phases |-> 0, armed |-> FALSE, tx |-> 0]
                 row == [p \in Peer |-> fresh]
      <4>1. fresh \in [phases : Nat, armed : BOOLEAN, tx : Int]
        OBVIOUS
      <4>2. row \in [Peer -> [phases : Nat, armed : BOOLEAN, tx : Int]]
        BY <4>1
      <4>3. full' = [s \in Slot |-> row]
        BY <1>1, <3>1 DEF InitBarriers
      <4> HIDE DEF row
      <4>4. full' \in [Slot -> [Peer -> [phases : Nat, armed : BOOLEAN, tx : Int]]]
        BY <4>2, <4>3
      <4>5. QED
        BY <1>1, <3>1, <4>4 DEF MailboxType, BarrierType, InitBarriers
    <3>2. CASE r # 0
      <4>1. [s \in Slot |-> 0] \in [Slot -> Nat]
        OBVIOUS
      <4>2. ready' \in [Peer -> [Slot -> Nat]] /\ ack' \in [Peer -> [Slot -> Nat]]
        BY <1>1, <3>2, <4>1 DEF MailboxType, BarrierType, InitBarriers
      <4>3. QED
        BY <1>1, <3>2, <4>2 DEF MailboxType, BarrierType, InitBarriers
    <3>3. QED
      BY <3>1, <3>2
  <2>2. QED
    BY <1>1, <2>1 DEF MailboxType, DataType, InitBarriers, RootPc, PeerPc, dataVars
<1>2. ASSUME NEW r \in Rank, Open(r)
      PROVE  MailboxType'
  BY <1>2 DEF MailboxType, BarrierType, DataType, Open, FirstStep, RootPc, PeerPc,
              barrierVars, dataVars
<1>3. ASSUME NEW r \in Rank, Compute(r)
      PROVE  MailboxType'
  <2>1. tile' \in [Rank -> Int]
    BY <1>3 DEF MailboxType, DataType, Compute
  <2>2. QED
    BY <1>3, <2>1 DEF MailboxType, BarrierType, DataType, Compute, RootPc, PeerPc,
                      barrierVars
<1>4. ASSUME NEW r \in Rank, Close(r)
      PROVE  MailboxType'
  BY <1>4 DEF MailboxType, BarrierType, DataType, Close, RootPc, PeerPc,
              barrierVars, dataVars
<1>5. CASE ExpectTx
  <2>1. full' \in [Slot -> [Peer -> [phases : Nat, armed : BOOLEAN, tx : Int]]]
    BY <1>5, ExpectTxSets DEF FullRecord
  <2>2. QED
    BY <1>5, <2>1 DEF MailboxType, BarrierType, DataType, ExpectTx, RootPc, PeerPc, dataVars
<1>6. CASE OfferReady
  <2>1. ready' \in [Peer -> [Slot -> Nat]]
    BY <1>6, Slot0IsSlot DEF MailboxType, BarrierType, OfferReady
  <2>2. QED
    BY <1>6, <2>1 DEF MailboxType, BarrierType, DataType, OfferReady, NextTurn,
                      RootPc, PeerPc, dataVars
<1>7. CASE AwaitPartials
  BY <1>7 DEF MailboxType, BarrierType, DataType, AwaitPartials, RootPc, PeerPc,
              barrierVars, dataVars
<1>8. CASE Finish
  BY <1>8 DEF MailboxType, BarrierType, DataType, Finish, RootPc, PeerPc,
              barrierVars, dataVars
<1>9. CASE Acknowledge
  <2>1. ack' \in [Peer -> [Slot -> Nat]]
    BY <1>9, Slot0IsSlot DEF MailboxType, BarrierType, Acknowledge
  <2>2. episode[0] + 1 \in 0 .. Episodes
    BY <1>9, EpisodeOfActiveRank DEF Acknowledge
  <2>3. QED
    BY <1>9, <2>1, <2>2 DEF MailboxType, BarrierType, DataType, Acknowledge, NextEpisode,
                            FirstStep, RootPc, PeerPc, dataVars
<1>10. ASSUME NEW p \in Peer, AwaitReady(p)
       PROVE  MailboxType'
  BY <1>10 DEF MailboxType, BarrierType, DataType, AwaitReady, RootPc, PeerPc,
               barrierVars, dataVars
<1>11. ASSUME NEW p \in Peer, Push(p)
       PROVE  MailboxType'
  <2>1. 1 .. Pieces[episode[p]] \subseteq Piece
    BY <1>11, EpisodeOfActiveRank DEF Push
  <2>2. QED
    BY <1>11, <2>1 DEF MailboxType, BarrierType, DataType, Push, RootPc, PeerPc, barrierVars
<1>12. ASSUME NEW p \in Peer, AwaitAck(p)
       PROVE  MailboxType'
  <2>1. episode[p] + 1 \in 0 .. Episodes
    BY <1>12, EpisodeOfActiveRank DEF AwaitAck
  <2>2. QED
    BY <1>12, <2>1 DEF MailboxType, BarrierType, DataType, AwaitAck, NextEpisode,
                       FirstStep, RootPc, PeerPc, barrierVars, dataVars
<1>13. ASSUME NEW p \in Peer, Land(p)
       PROVE  MailboxType'
  <2>1. PICK u \in flying[p] : LET s == SlotOf(episode[p])
                                   b == full[s][p]
                                   last == b.armed /\ b.tx = 1
               IN  /\ flying' = [flying EXCEPT ![p] = @ \ {u}]
                   /\ partial' = [partial EXCEPT ![s][p][u] = tile[p]]
                   /\ full' = [full EXCEPT ![s][p] =
                          [phases |-> IF last THEN b.phases + 1 ELSE b.phases,
                           armed |-> b.armed /\ ~last, tx |-> b.tx - 1]]
                   /\ UNCHANGED <<pc, episode, turn, ready, ack, tile>>
    BY <1>13 DEF Land
  <2>2. full' \in [Slot -> [Peer -> [phases : Nat, armed : BOOLEAN, tx : Int]]]
    BY <2>1, CountersAreNaturals DEF MailboxType, BarrierType
  <2>3. /\ flying' \in [Peer -> SUBSET Piece]
        /\ partial' \in [Slot -> [Peer -> [Piece -> Int]]]
    BY <2>1 DEF MailboxType, DataType
  <2>4. QED
    BY <2>1, <2>2, <2>3 DEF MailboxType, BarrierType, DataType
<1>14. QED
  BY <1>1, <1>2, <1>3, <1>4, <1>5, <1>6, <1>7, <1>8, <1>9, <1>10, <1>11, <1>12, <1>13
  DEF Next, RankStep, RootStep, PeerStep

\* The cluster barrier of Init keeps the phases of boot and of work apart.
LEMMA RankInvStep ==
    ASSUME MailboxType, RankInv, Next
    PROVE  RankInv'
<1> USE RankFacts
<1>1. ASSUME NEW r \in Rank, InitBarriers(r)
      PROVE  RankInv'
  BY <1>1 DEF InitBarriers, RankInv, MailboxType
<1>2. ASSUME NEW r \in Rank, Open(r)
      PROVE  RankInv'
  BY <1>2 DEF Open, FirstStep, RankInv, MailboxType
<1>3. ASSUME NEW r \in Rank, Compute(r) \/ Close(r)
      PROVE  RankInv'
  BY <1>3 DEF Compute, Close, RankInv, MailboxType
<1>4. ASSUME NEW r \in Rank, NextEpisode(r),
             pc[r] \notin {"boot", "opening", "closing", "gone"}
      PROVE  RankInv'
  BY <1>4, EpisodeOfActiveRank DEF NextEpisode, FirstStep, RankInv, MailboxType, Episode
<1>5. CASE ExpectTx \/ OfferReady \/ AwaitPartials \/ Finish
  BY <1>5 DEF ExpectTx, OfferReady, NextTurn, AwaitPartials, Finish, RankInv, MailboxType
<1>6. CASE Acknowledge
  BY <1>6, <1>4 DEF Acknowledge, RankInv
<1>7. ASSUME NEW p \in Peer, AwaitReady(p) \/ Push(p)
      PROVE  RankInv'
  BY <1>7 DEF AwaitReady, Push, RankInv, MailboxType
<1>8. ASSUME NEW p \in Peer, AwaitAck(p)
      PROVE  RankInv'
  BY <1>8, <1>4 DEF AwaitAck
<1>9. ASSUME NEW p \in Peer, Land(p)
      PROVE  RankInv'
  BY <1>9 DEF Land, RankInv
<1>10. QED
  BY <1>1, <1>2, <1>3, <1>5, <1>6, <1>7, <1>8, <1>9
  DEF Next, RankStep, RootStep, PeerStep

LEMMA TurnInvStep ==
    ASSUME MailboxType, TurnInv, Next
    PROVE  TurnInv'
<1> USE RankFacts
<1>1. ASSUME NEW r \in Rank, InitBarriers(r) \/ Open(r) \/ Compute(r) \/ Close(r)
      PROVE  TurnInv'
  BY <1>1 DEF InitBarriers, Open, FirstStep, Compute, Close, TurnInv, MailboxType
<1>2. CASE RootStep
  BY <1>2 DEF RootStep, ExpectTx, OfferReady, NextTurn, AwaitPartials, Finish,
              Acknowledge, NextEpisode, FirstStep, TurnInv, MailboxType
<1>3. ASSUME NEW p \in Peer, PeerStep(p) \/ Land(p)
      PROVE  TurnInv'
  BY <1>3 DEF PeerStep, AwaitReady, Push, AwaitAck, NextEpisode, Land, TurnInv, MailboxType
<1>4. QED
  BY <1>1, <1>2, <1>3 DEF Next, RankStep

-----------------------------------------------------------------------------
(***************************************************************************)
(* The steps of rank 0, and what each does to every peer's counts.         *)
(***************************************************************************)
LEMMA RootInitializes ==
    ASSUME MailboxInv, InitBarriers(0), NEW p \in Peer
    PROVE  PeerInv(p)'
<1> USE RankFacts
<1>1. /\ pc[0] = "boot" /\ pc'[0] = "opening"
      /\ episode[0] = 0 /\ episode'[0] = 0 /\ turn' = turn
      /\ PeerUntouched(p) /\ ready' = ready /\ ack' = ack
  BY DEF MailboxInv, MailboxType, RankInv, InitBarriers, PeerUntouched, dataVars
<1>2. /\ Offered(p) = 0 /\ Armed(p) = 0 /\ Acked(p) = 0
      /\ Offered(p)' = 0 /\ Armed(p)' = 0 /\ Acked(p)' = 0
  BY <1>1 DEF Offered, Armed, Acked, OfferMade, Count
<1>3. Completed(p) = 0 /\ Completed(p)' = 0
  <2>1. Completed(p)' = Completed(p)
    BY <1>1 DEF PeerUntouched, Completed
  <2>2. QED
    BY <1>2, <2>1, CountersAreNaturals DEF MailboxInv, PeerInv, OrderInv
<1>4. OrderInv(p)'
  BY <1>1, <1>2, <1>3 DEF MailboxInv, PeerInv, OrderInv, PeerUntouched
<1>5. SignalInv(p)'
  BY <1>1, <1>2 DEF MailboxInv, PeerInv, SignalInv, PeerUntouched
<1>6. FullInv(p)'
  <2>1. \A s \in Slot : full'[s][p] = [phases |-> 0, armed |-> FALSE, tx |-> 0]
    <3>1. full' = [s \in Slot |-> [q \in Peer |-> [phases |-> 0, armed |-> FALSE, tx |-> 0]]]
      BY DEF InitBarriers
    <3>2. QED
      BY <3>1
  <2>2. QED
    BY <1>2, <1>3, <2>1, NoUseYet DEF FullInv
<1>7. PushInv(p)'
  BY <1>1, CountersAreNaturals DEF MailboxInv, PeerInv, PushInv, PeerUntouched
<1>8. QED
  BY <1>4, <1>5, <1>6, <1>7 DEF PeerInv

LEMMA RootQuietSteps ==
    ASSUME MailboxInv, NEW p \in Peer,
           Open(0) \/ Compute(0) \/ Close(0) \/ AwaitPartials \/ Finish
    PROVE  PeerInv(p)'
<1> USE RankFacts
<1>1. /\ PeerUntouched(p) /\ SignalsUntouched(p)
      /\ turn' = turn /\ episode'[0] = episode[0] /\ pc[0] # "boot"
  <2>1. /\ pc'[p] = pc[p] /\ episode' = episode /\ turn' = turn
        /\ full' = full /\ ready' = ready /\ ack' = ack
        /\ flying' = flying /\ partial' = partial /\ pc[0] # "boot"
    BY DEF MailboxInv, MailboxType, Open, Compute, Close, AwaitPartials, Finish,
           barrierVars, dataVars
  <2>2. tile'[p] = tile[p]
    BY DEF MailboxInv, MailboxType, DataType, Open, Compute, Close, AwaitPartials, Finish,
           dataVars
  <2>3. QED
    BY <2>1, <2>2 DEF PeerUntouched, SignalsUntouched
<1>2. turn = 1 /\ p >= 1
  BY DEF MailboxInv, TurnInv, Open, Compute, Close, AwaitPartials, Finish
<1>3. /\ Offered(p)' = Offered(p) /\ Armed(p)' = Armed(p) /\ Acked(p)' = Acked(p)
  <2>1. pc'[0] \in {"closing", "gone", "expect", "sum", "finish", "acknowledge"}
    BY DEF MailboxInv, MailboxType, Open, FirstStep, Compute, Close, AwaitPartials, Finish
  <2>2. pc[0] \in {"compute", "sum", "finish"} <=>
            pc'[0] \in {"sum", "finish", "acknowledge"}
    BY <2>1 DEF MailboxInv, MailboxType, Open, FirstStep, Compute, Close, AwaitPartials, Finish
  <2>3. pc[0] \in {"opening", "compute", "closing", "sum", "finish"}
    BY DEF Open, Compute, Close, AwaitPartials, Finish
  <2>4. QED
    BY <1>1, <1>2, <2>1, <2>2, <2>3 DEF Offered, Armed, Acked, OfferMade, Count
<1>4. pc'[0] \in {"finish", "acknowledge"} => Completed(p) = episode[0] + 1
  <2>1. CASE AwaitPartials
    <3>1. PhaseDone(full[Slot0][p].phases, Phase(episode[0]))
      BY <2>1 DEF AwaitPartials
    <3>2. full[Slot0][p].phases = Uses(Completed(p), Slot0)
      BY <1>1, Slot0IsSlot DEF MailboxInv, PeerInv, FullInv
    <3>3. Completed(p) \in {episode[0], episode[0] + 1}
      BY CountersAreNaturals DEF MailboxInv, PeerInv, OrderInv
    <3>4. ~PhaseDone(Uses(episode[0], Slot0), Phase(episode[0]))
      BY CountersAreNaturals, ParityOfEpisode DEF MailboxInv, Slot0
    <3>5. QED
      BY <3>1, <3>2, <3>3, <3>4
  <2>2. CASE Finish
    BY <2>2 DEF Finish, MailboxInv, PeerInv, OrderInv
  <2>3. QED
    BY <2>1, <2>2 DEF MailboxInv, MailboxType, Open, FirstStep, Compute, Close
<1>5. QED
  BY <1>1, <1>3, <1>4, QuietRootStep DEF MailboxInv

LEMMA RootExpects ==
    ASSUME MailboxInv, ExpectTx, NEW p \in Peer
    PROVE  PeerInv(p)'
<1> USE RankFacts
<1>1. /\ pc[0] = "expect" /\ pc'[0] = "offer"
      /\ episode'[0] = episode[0] /\ turn' = turn
      /\ ready' = ready /\ ack' = ack /\ PeerUntouched(p)
      /\ Slot0' = Slot0
  BY DEF MailboxInv, MailboxType, ExpectTx, PeerUntouched, dataVars, Slot0
<1>2. /\ Offered(p)' = Offered(p) /\ Acked(p)' = Acked(p)
      /\ Completed(p)' = Completed(p)
      /\ p # turn => Armed(p)' = Armed(p)
      /\ p = turn => Offered(p) = episode[0] /\ Armed(p) = episode[0]
                     /\ Armed(p)' = episode[0] + 1
  <2>1. OfferMade(p)' <=> OfferMade(p)
    BY <1>1 DEF OfferMade
  <2>2. p = turn => ~OfferMade(p)
    BY <1>1 DEF OfferMade
  <2>3. QED
    BY <1>1, <2>1, <2>2, CountersAreNaturals
    DEF MailboxInv, Offered, Armed, Acked, Completed, Count, PeerUntouched
<1>3. OrderInv(p)'
  BY <1>1, <1>2 DEF MailboxInv, PeerInv, OrderInv, PeerUntouched
<1>4. SignalInv(p)'
  BY <1>1, <1>2 DEF MailboxInv, PeerInv, SignalInv, PeerUntouched
<1>5. PushInv(p)'
  BY <1>1, CountersAreNaturals DEF MailboxInv, PeerInv, PushInv, PeerUntouched
<1>6. FullInv(p)'
  <2>1. ExpectTx /\ MailboxType /\ RankInv
    BY DEF MailboxInv
  <2>2. CASE p # turn
    BY <1>1, <1>2, <2>1, <2>2, ExpectTxSets
    DEF MailboxInv, PeerInv, FullInv, PeerUntouched
  <2>3. CASE p = turn
    <3>1. Completed(p) = episode[0] /\ flying[p] = {}
      BY <1>2, <2>3, CountersAreNaturals
      DEF MailboxInv, PeerInv, OrderInv, Completed, Count
    <3>2. /\ ~full[Slot0][p].armed /\ full[Slot0][p].tx = 0
          /\ full[Slot0][p].phases = Uses(Completed(p), Slot0)
      BY <1>1, <1>2, <2>1, <2>3, <3>1, Slot0IsSlot, CountersAreNaturals
      DEF MailboxInv, PeerInv, FullInv
    <3>3. episode[0] \in Nat /\ Pieces[episode[0]] \in Nat
      BY <1>1, <2>1, EpisodeOfActiveRank, CountersAreNaturals
    <3>4. \A s \in Slot : s # Slot0 => full'[s][p] = full[s][p]
      BY <2>1, ExpectTxSets
    <3>5. /\ full'[Slot0][p].armed /\ full'[Slot0][p].tx = Pieces[episode[0]]
          /\ full'[Slot0][p].phases = Uses(Completed(p), Slot0)
      BY <2>1, <2>3, <3>2, <3>3, ExpectTxSets
    <3>6. QED
      BY <1>1, <1>2, <2>3, <3>1, <3>3, <3>4, <3>5
      DEF MailboxInv, PeerInv, FullInv, PeerUntouched
  <2>4. QED
    BY <2>2, <2>3
<1>7. QED
  BY <1>3, <1>4, <1>5, <1>6 DEF PeerInv

LEMMA RootOffers ==
    ASSUME MailboxInv, OfferReady, NEW p \in Peer
    PROVE  PeerInv(p)'
<1> USE RankFacts
<1>1. /\ pc[0] = "offer" /\ pc'[0] \in {"expect", "compute"}
      /\ episode' = episode /\ full' = full /\ ack' = ack
      /\ PeerUntouched(p) /\ Slot0' = Slot0 /\ Slot0 \in Slot
      /\ turn \in Peer
  BY Slot0IsSlot
  DEF MailboxInv, MailboxType, OfferReady, NextTurn, PeerUntouched, dataVars, Slot0
<1>2. OfferMade(p)' <=> OfferMade(p) \/ p = turn
  <2>1. CASE turn + 1 \in Peer
    BY <1>1, <2>1 DEF MailboxInv, MailboxType, OfferReady, NextTurn, OfferMade
  <2>2. CASE turn + 1 \notin Peer
    <3>1. p <= turn
      BY <1>1, <2>2 DEF Peer
    <3>2. QED
      BY <1>1, <2>2, <3>1 DEF MailboxInv, MailboxType, OfferReady, NextTurn, OfferMade
  <2>3. QED
    BY <2>1, <2>2
<1>3. /\ Acked(p)' = Acked(p) /\ Completed(p)' = Completed(p) /\ Armed(p)' = Armed(p)
      /\ p # turn => Offered(p)' = Offered(p)
      /\ p = turn => Offered(p) = episode[0] /\ Offered(p)' = episode[0] + 1
  <2>1. p = turn => ~OfferMade(p)
    BY <1>1 DEF OfferMade
  <2>2. pc'[0] # "offer" /\ pc'[0] # "acknowledge"
    BY <1>1
  <2>3. QED
    BY <1>1, <1>2, <2>1, <2>2, CountersAreNaturals
    DEF MailboxInv, Offered, Armed, Acked, Completed, Count, PeerUntouched
<1>4. OrderInv(p)'
  <2>1. Acked(p) = episode[0]
    BY <1>1, CountersAreNaturals DEF MailboxInv, Acked, Count
  <2>2. pc[p] \in {"compute", "push"} \/ flying[p] # {} => Completed(p) = episode[p]
    BY CountersAreNaturals DEF MailboxInv, Completed, Count
  <2>3. QED
    BY <1>1, <1>3, <2>1, <2>2, CountersAreNaturals
    DEF MailboxInv, PeerInv, OrderInv, PeerUntouched
<1>5. SignalInv(p)'
  <2>1. CASE p # turn
    BY <1>1, <1>3, <2>1 DEF MailboxInv, MailboxType, BarrierType, OfferReady,
                            PeerInv, SignalInv, PeerUntouched
  <2>2. CASE p = turn
    <3>1. \A s \in Slot : ready'[p][s] = IF s = Slot0 THEN ready[p][s] + 1 ELSE ready[p][s]
      BY <1>1, <2>2 DEF MailboxInv, MailboxType, BarrierType, OfferReady
    <3>2. \A s \in Slot : Uses(episode[0] + 1, s) =
              IF s = Slot0 THEN Uses(episode[0], s) + 1 ELSE Uses(episode[0], s)
      BY NextUse, CountersAreNaturals DEF MailboxInv, Slot0
    <3>3. QED
      BY <1>1, <1>3, <2>2, <3>1, <3>2 DEF MailboxInv, PeerInv, SignalInv, PeerUntouched
  <2>3. QED
    BY <2>1, <2>2
<1>6. FullInv(p)'
  BY <1>1, <1>3 DEF MailboxInv, PeerInv, FullInv, PeerUntouched
<1>7. PushInv(p)'
  BY <1>1, CountersAreNaturals DEF MailboxInv, PeerInv, PushInv, PeerUntouched
<1>8. QED
  BY <1>4, <1>5, <1>6, <1>7 DEF PeerInv

LEMMA RootAcknowledges ==
    ASSUME MailboxInv, Acknowledge, NEW p \in Peer
    PROVE  PeerInv(p)'
<1> USE RankFacts
<1>1. /\ pc[0] = "acknowledge"
      /\ full' = full /\ ready' = ready
      /\ PeerUntouched(p) /\ Slot0 \in Slot /\ turn \in Peer
      /\ Completed(p) = episode[0] + 1 /\ Completed(p)' = Completed(p)
  BY Slot0IsSlot
  DEF MailboxInv, MailboxType, PeerInv, OrderInv, Acknowledge, NextEpisode,
      PeerUntouched, Completed, dataVars
<1>2. /\ Offered(p) = episode[0] + 1 /\ Armed(p) = episode[0] + 1
      /\ p # turn => Acked(p)' = Acked(p)
      /\ p = turn => Acked(p) = episode[0] /\ Acked(p)' = episode[0] + 1
      /\ Offered(p)' = Offered(p) /\ Armed(p)' = Armed(p)
  <2>1. CASE turn + 1 \in Peer
    <3>1. pc' = pc /\ episode' = episode /\ turn' = turn + 1
      BY <2>1 DEF Acknowledge
    <3>2. QED
      BY <1>1, <3>1, CountersAreNaturals
      DEF MailboxInv, Offered, Armed, Acked, OfferMade, Count
  <2>2. CASE turn + 1 \notin Peer
    <3>1. /\ turn' = 1 /\ episode'[0] = episode[0] + 1
          /\ pc'[0] \in {"closing", "expect"}
      BY <2>2 DEF MailboxInv, MailboxType, Acknowledge, NextEpisode, FirstStep
    <3>2. p <= turn
      BY <1>1, <2>2 DEF Peer
    <3>3. QED
      BY <1>1, <3>1, <3>2, CountersAreNaturals
      DEF MailboxInv, Offered, Armed, Acked, OfferMade, Count
  <2>3. QED
    BY <2>1, <2>2
<1>3. pc'[0] = "acknowledge" => episode'[0] = episode[0]
  BY DEF MailboxInv, MailboxType, Acknowledge, NextEpisode, FirstStep
<1>4. pc'[0] \in {"acknowledge", "closing", "expect"}
  BY <1>1 DEF MailboxInv, MailboxType, Acknowledge, NextEpisode, FirstStep
<1>5. OrderInv(p)'
  BY <1>1, <1>2, <1>3, <1>4, CountersAreNaturals
  DEF MailboxInv, PeerInv, OrderInv, PeerUntouched
<1>6. SignalInv(p)'
  <2>1. CASE p # turn
    BY <1>1, <1>2, <2>1 DEF MailboxInv, MailboxType, BarrierType, Acknowledge,
                            PeerInv, SignalInv, PeerUntouched
  <2>2. CASE p = turn
    <3>1. \A s \in Slot : ack'[p][s] = IF s = Slot0 THEN ack[p][s] + 1 ELSE ack[p][s]
      BY <1>1, <2>2 DEF MailboxInv, MailboxType, BarrierType, Acknowledge
    <3>2. \A s \in Slot : Uses(episode[0] + 1, s) =
              IF s = Slot0 THEN Uses(episode[0], s) + 1 ELSE Uses(episode[0], s)
      BY NextUse, CountersAreNaturals DEF MailboxInv, Slot0
    <3>3. QED
      BY <1>1, <1>2, <2>2, <3>1, <3>2 DEF MailboxInv, PeerInv, SignalInv, PeerUntouched
  <2>3. QED
    BY <2>1, <2>2
<1>7. FullInv(p)'
  <2>1. ~(Completed(p) < Armed(p)) /\ ~(Completed(p) < Armed(p))'
    BY <1>1, <1>2, CountersAreNaturals DEF MailboxInv
  <2>2. \A s \in Slot : ~full[s][p].armed /\ full[s][p].tx = 0
    BY <1>1, <2>1 DEF MailboxInv, PeerInv, FullInv
  <2>3. QED
    BY <1>1, <2>1, <2>2 DEF MailboxInv, PeerInv, FullInv
<1>8. PushInv(p)'
  BY <1>1, CountersAreNaturals DEF MailboxInv, PeerInv, PushInv, PeerUntouched
<1>9. QED
  BY <1>5, <1>6, <1>7, <1>8 DEF PeerInv

-----------------------------------------------------------------------------
(***************************************************************************)
(* The steps of a peer, and the pieces of its push.                        *)
(***************************************************************************)
RootUntouched == pc'[0] = pc[0] /\ episode'[0] = episode[0] /\ turn' = turn

LEMMA CountsOfRootStay ==
    ASSUME RootUntouched, NEW p \in Peer
    PROVE  /\ Offered(p)' = Offered(p) /\ Armed(p)' = Armed(p)
           /\ Acked(p)' = Acked(p) /\ Slot0' = Slot0
BY DEF RootUntouched, Offered, Armed, Acked, OfferMade, Slot0

\* A peer between its offer and the end of its push is in rank 0's episode.
LEMMA PushingPeer ==
    ASSUME MailboxInv, NEW p \in Peer,
           pc[p] \in {"compute", "push"} \/ flying[p] # {}
    PROVE  /\ episode[p] = episode[0] /\ episode[p] \in Episode
           /\ Completed(p) = episode[p] /\ Armed(p) = episode[p] + 1
           /\ pc[0] \notin {"boot", "finish", "acknowledge"}
<1> USE RankFacts
<1>1. pc[p] \in {"compute", "push", "ack"}
  BY DEF MailboxInv, PeerInv, PushInv
<1>2. Completed(p) = episode[p]
  BY CountersAreNaturals DEF MailboxInv, Completed, Count
<1>3. episode[p] = episode[0]
  BY <1>2, CountersAreNaturals DEF MailboxInv, PeerInv, OrderInv
<1>4. episode[p] \in Episode
  BY <1>1, EpisodeOfActiveRank DEF MailboxInv
<1>5. Armed(p) = episode[p] + 1
  BY <1>3, CountersAreNaturals DEF MailboxInv, PeerInv, OrderInv
<1>6. pc[0] \notin {"finish", "acknowledge"}
  BY <1>2, <1>3, CountersAreNaturals DEF MailboxInv, PeerInv, OrderInv
<1>7. pc[0] # "boot"
  BY <1>1 DEF MailboxInv, RankInv
<1>8. QED
  BY <1>2, <1>3, <1>4, <1>5, <1>6, <1>7

LEMMA PeerInitializes ==
    ASSUME MailboxInv, NEW p \in Peer, InitBarriers(p)
    PROVE  PeerInv(p)'
<1> USE RankFacts
<1>1. /\ pc[p] = "boot" /\ pc'[p] = "opening" /\ RootUntouched
      /\ episode[p] = 0 /\ episode'[p] = 0
      /\ full' = full /\ tile' = tile /\ flying' = flying /\ partial' = partial
      /\ pc[0] \in {"boot", "opening"} /\ episode[0] = 0
  BY DEF MailboxInv, MailboxType, RankInv, InitBarriers, RootUntouched, dataVars
<1>2. Offered(p) = 0 /\ Acked(p) = 0 /\ Completed(p) = 0 /\ Completed(p)' = 0
  BY <1>1 DEF Offered, Acked, Completed, OfferMade, Count
<1>3. /\ Offered(p)' = 0 /\ Acked(p)' = 0 /\ Armed(p)' = Armed(p) /\ Slot0' = Slot0
  BY <1>1, <1>2, CountsOfRootStay
<1>4. flying[p] = {}
  BY <1>1 DEF MailboxInv, PeerInv, PushInv
<1>5. OrderInv(p)'
  BY <1>1, <1>2, <1>3, <1>4 DEF OrderInv, RootUntouched
<1>6. SignalInv(p)'
  <2>1. \A s \in Slot : ready'[p][s] = 0 /\ ack'[p][s] = 0
    BY DEF MailboxInv, MailboxType, BarrierType, InitBarriers
  <2>2. QED
    BY <1>2, <1>3, <2>1, NoUseYet DEF SignalInv
<1>7. FullInv(p)'
  BY <1>1, <1>2, <1>3 DEF MailboxInv, PeerInv, FullInv, RootUntouched
<1>8. PushInv(p)'
  BY <1>1, <1>4 DEF PushInv
<1>9. QED
  BY <1>5, <1>6, <1>7, <1>8 DEF PeerInv

\* Steps that move a peer on in its episode and leave the barriers alone.
LEMMA PeerQuietSteps ==
    ASSUME MailboxInv, NEW p \in Peer,
           Open(p) \/ Compute(p) \/ Close(p) \/ AwaitReady(p)
    PROVE  PeerInv(p)'
<1> USE RankFacts
<1>1. /\ RootUntouched /\ episode' = episode /\ SignalsUntouched(p)
      /\ flying' = flying /\ partial' = partial /\ pc[p] # "boot"
      /\ pc[p] # "ack" /\ pc'[p] \in {"ready", "compute", "push", "gone"}
      /\ pc'[p] = "push" => pc[p] = "compute"
  BY DEF MailboxInv, MailboxType, Open, FirstStep, Compute, Close, AwaitReady,
         RootUntouched, SignalsUntouched, barrierVars, dataVars
<1>2. /\ Offered(p)' = Offered(p) /\ Armed(p)' = Armed(p)
      /\ Acked(p)' = Acked(p) /\ Slot0' = Slot0 /\ flying[p] = {}
  BY <1>1, CountsOfRootStay DEF MailboxInv, PeerInv, PushInv
<1>3. Completed(p)' = Completed(p) /\ Completed(p) = episode[p]
  BY <1>1, CountersAreNaturals DEF MailboxInv, Completed, Count
<1>4. pc'[p] = "compute" => Offered(p) = episode[p] + 1
  <2>1. CASE AwaitReady(p)
    <3>1. PhaseDone(ready[p][SlotOf(episode[p])], Phase(episode[p]))
      BY <2>1 DEF AwaitReady
    <3>2. ready[p][SlotOf(episode[p])] = Uses(Offered(p), SlotOf(episode[p]))
      BY <1>1, CountersAreNaturals DEF MailboxInv, PeerInv, SignalInv
    <3>3. Offered(p) \in {episode[p], episode[p] + 1}
      BY <1>3, CountersAreNaturals DEF MailboxInv, PeerInv, OrderInv
    <3>4. ~PhaseDone(Uses(episode[p], SlotOf(episode[p])), Phase(episode[p]))
      BY CountersAreNaturals, ParityOfEpisode DEF MailboxInv
    <3>5. QED
      BY <3>1, <3>2, <3>3, <3>4
  <2>2. QED
    BY <2>1 DEF MailboxInv, MailboxType, Open, FirstStep, Compute, Close
<1>5. pc'[p] = "push" => tile'[p] = episode[p]
  BY DEF MailboxInv, MailboxType, DataType, Open, FirstStep, Compute, Close, AwaitReady
<1>6. OrderInv(p)'
  BY <1>1, <1>2, <1>3, <1>4 DEF MailboxInv, PeerInv, OrderInv, RootUntouched
<1>7. SignalInv(p)'
  BY <1>1, <1>2 DEF MailboxInv, PeerInv, SignalInv, SignalsUntouched
<1>8. FullInv(p)'
  BY <1>1, <1>2, <1>3 DEF MailboxInv, PeerInv, FullInv, SignalsUntouched, RootUntouched
<1>9. PushInv(p)'
  BY <1>1, <1>2, <1>5 DEF PushInv
<1>10. QED
  BY <1>6, <1>7, <1>8, <1>9 DEF PeerInv

LEMMA IntervalFromOne ==
    ASSUME NEW n \in Nat
    PROVE  IsFiniteSet(1 .. n) /\ Cardinality(1 .. n) = n
<1>1. 1 \in Int /\ n \in Int
  OBVIOUS
<1>2. IsFiniteSet(1 .. n) /\ Cardinality(1 .. n) = IF 1 > n THEN 0 ELSE n - 1 + 1
  BY <1>1, FS_Interval, Zenon
<1>3. QED
  BY <1>2

LEMMA PeerPushes ==
    ASSUME MailboxInv, NEW p \in Peer, Push(p)
    PROVE  PeerInv(p)'
<1> USE RankFacts
<1> DEFINE n == Pieces[episode[p]]
<1>1. /\ pc[p] = "push" /\ pc'[p] = "ack" /\ RootUntouched /\ SignalsUntouched(p)
      /\ episode' = episode /\ tile' = tile /\ partial' = partial
      /\ flying'[p] = 1 .. n
  BY DEF MailboxInv, MailboxType, DataType, Push, RootUntouched, SignalsUntouched, barrierVars
<1>2. /\ episode[p] = episode[0] /\ episode[p] \in Episode
      /\ Completed(p) = episode[p] /\ Armed(p) = episode[p] + 1
  BY <1>1, PushingPeer
<1>3. /\ n \in Nat /\ n > 0 /\ 1 .. n # {} /\ Cardinality(1 .. n) = n
  <2>1. n \in Nat /\ n > 0
    BY <1>2
  <2> HIDE DEF n
  <2>2. Cardinality(1 .. n) = n
    BY <2>1, IntervalFromOne
  <2>3. 1 \in 1 .. n
    BY <2>1
  <2>4. QED
    BY <2>1, <2>2, <2>3
<1> HIDE DEF n
<1>4. /\ Offered(p)' = Offered(p) /\ Armed(p)' = Armed(p)
      /\ Acked(p)' = Acked(p) /\ Slot0' = Slot0
  BY <1>1, CountsOfRootStay
<1>5. Completed(p)' = Completed(p)
  BY <1>1, <1>2, <1>3, CountersAreNaturals DEF MailboxInv, Completed, Count
<1>6. OrderInv(p)'
  BY <1>1, <1>4, <1>5 DEF MailboxInv, PeerInv, OrderInv, RootUntouched
<1>7. SignalInv(p)'
  BY <1>1, <1>4 DEF MailboxInv, PeerInv, SignalInv, SignalsUntouched
<1>8. FullInv(p)'
  <2>1. flying[p] = {}
    BY <1>1 DEF MailboxInv, PeerInv, PushInv
  <2>2. Pieces[episode[0]] = n
    BY <1>2 DEF n
  <2>3. QED
    BY <1>1, <1>3, <1>4, <1>5, <2>1, <2>2
    DEF MailboxInv, PeerInv, FullInv, SignalsUntouched, RootUntouched
<1>9. PushInv(p)'
  BY <1>1 DEF MailboxInv, PeerInv, PushInv, n
<1>10. QED
  BY <1>6, <1>7, <1>8, <1>9 DEF PeerInv

LEMMA PeerIsAcknowledged ==
    ASSUME MailboxInv, NEW p \in Peer, AwaitAck(p)
    PROVE  PeerInv(p)'
<1> USE RankFacts
<1>1. /\ pc[p] = "ack" /\ pc'[p] \in {"ready", "closing"}
      /\ RootUntouched /\ SignalsUntouched(p)
      /\ episode'[p] = episode[p] + 1
      /\ tile' = tile /\ partial' = partial /\ flying' = flying
  BY DEF MailboxInv, MailboxType, AwaitAck, NextEpisode, FirstStep, RootUntouched,
         SignalsUntouched, barrierVars, dataVars
<1>2. Acked(p) = episode[p] + 1
  <2>1. PhaseDone(ack[p][SlotOf(episode[p])], Phase(episode[p]))
    BY DEF AwaitAck
  <2>2. ack[p][SlotOf(episode[p])] = Uses(Acked(p), SlotOf(episode[p]))
    BY <1>1, CountersAreNaturals DEF MailboxInv, PeerInv, SignalInv
  <2>3. Acked(p) \in {episode[p], episode[p] + 1}
    BY CountersAreNaturals DEF MailboxInv, PeerInv, OrderInv
  <2>4. ~PhaseDone(Uses(episode[p], SlotOf(episode[p])), Phase(episode[p]))
    BY CountersAreNaturals, ParityOfEpisode DEF MailboxInv
  <2>5. QED
    BY <2>1, <2>2, <2>3, <2>4
<1>3. Completed(p) = episode[p] + 1 /\ flying[p] = {}
  <2>1. Completed(p) = episode[p] + 1
    BY <1>2, CountersAreNaturals DEF MailboxInv, PeerInv, OrderInv
  <2>2. QED
    BY <2>1, CountersAreNaturals DEF MailboxInv, Completed, Count
<1>4. Completed(p)' = Completed(p)
  BY <1>1, <1>3, CountersAreNaturals DEF MailboxInv, Completed, Count
<1>5. /\ Offered(p)' = Offered(p) /\ Armed(p)' = Armed(p)
      /\ Acked(p)' = Acked(p) /\ Slot0' = Slot0
  BY <1>1, CountsOfRootStay
<1>6. OrderInv(p)'
  BY <1>1, <1>2, <1>3, <1>4, <1>5, CountersAreNaturals
  DEF MailboxInv, PeerInv, OrderInv, RootUntouched
<1>7. SignalInv(p)'
  BY <1>1, <1>5 DEF MailboxInv, PeerInv, SignalInv, SignalsUntouched
<1>8. FullInv(p)'
  BY <1>1, <1>4, <1>5 DEF MailboxInv, PeerInv, FullInv, SignalsUntouched, RootUntouched
<1>9. PushInv(p)'
  BY <1>1, <1>3 DEF PushInv
<1>10. QED
  BY <1>6, <1>7, <1>8, <1>9 DEF PeerInv

\* The last piece of a push, and no other, completes the phase.
LEMMA PieceLands ==
    ASSUME MailboxInv, NEW p \in Peer, Land(p)
    PROVE  PeerInv(p)'
<1> USE RankFacts
<1> DEFINE s0 == SlotOf(episode[p])
           b == full[s0][p]
           last == b.armed /\ b.tx = 1
           c == [phases |-> IF last THEN b.phases + 1 ELSE b.phases,
                 armed |-> b.armed /\ ~last, tx |-> b.tx - 1]
<1>1. PICK u \in flying[p] :
          /\ flying' = [flying EXCEPT ![p] = @ \ {u}]
          /\ partial' = [partial EXCEPT ![s0][p][u] = tile[p]]
          /\ full' = [full EXCEPT ![s0][p] = c]
          /\ UNCHANGED <<pc, episode, turn, ready, ack, tile>>
  BY DEF Land
<1>2. /\ pc[p] = "ack" /\ pc[0] # "boot" /\ tile[p] = episode[p]
      /\ episode[p] = episode[0] /\ episode[p] \in Episode /\ episode[p] \in Nat
      /\ Completed(p) = episode[p] /\ Armed(p) = episode[p] + 1
      /\ flying[p] \subseteq 1 .. Pieces[episode[p]] /\ u \in Piece
      /\ pc[0] \notin {"finish", "acknowledge"}
  BY <1>1, PushingPeer DEF MailboxInv, MailboxType, DataType, PeerInv, PushInv
<1>3. /\ IsFiniteSet(flying[p]) /\ Cardinality(flying[p]) \in Nat
      /\ Cardinality(flying[p] \ {u}) = Cardinality(flying[p]) - 1
      /\ Cardinality(flying[p]) = 1 <=> flying[p] \ {u} = {}
  <2>1. IsFiniteSet(1 .. Pieces[episode[p]])
    <3>1. Pieces[episode[p]] \in Nat
      BY <1>2
    <3>2. QED
      BY <3>1, IntervalFromOne
  <2>2. IsFiniteSet(flying[p])
    BY <1>2, <2>1, FS_Subset
  <2>3. Cardinality(flying[p]) \in Nat
    BY <2>2, FS_CardinalityType
  <2>4. /\ Cardinality(flying[p] \ {u}) = Cardinality(flying[p]) - 1
        /\ IsFiniteSet(flying[p] \ {u})
    BY <1>1, <2>2, FS_RemoveElement
  <2>5. Cardinality(flying[p] \ {u}) = 0 <=> flying[p] \ {u} = {}
    BY <2>4, FS_EmptySet
  <2>6. QED
    BY <2>2, <2>3, <2>4, <2>5
<1>4. /\ s0 \in Slot /\ s0 = Slot0 /\ s0' = s0
      /\ b.phases = Uses(episode[p], s0) /\ b.armed /\ b.tx = Cardinality(flying[p])
  <2>1. s0 \in Slot /\ s0 = Slot0 /\ s0' = s0
    BY <1>1, <1>2, SlotIsSlot DEF Slot0
  <2>2. QED
    BY <1>1, <1>2, <2>1, CountersAreNaturals DEF MailboxInv, PeerInv, FullInv
<1>5. /\ flying'[p] = flying[p] \ {u}
      /\ full'[s0][p] = c
      /\ \A s \in Slot : s # s0 => full'[s][p] = full[s][p]
  BY <1>1, <1>4 DEF MailboxInv, MailboxType, BarrierType, DataType
<1>6. \A v \in Piece : partial'[s0][p][v] = IF v = u THEN episode[p] ELSE partial[s0][p][v]
  BY <1>1, <1>2, <1>4 DEF MailboxInv, MailboxType, DataType
<1>7. /\ Offered(p)' = Offered(p) /\ Armed(p)' = Armed(p)
      /\ Acked(p)' = Acked(p) /\ Slot0' = Slot0 /\ RootUntouched
  BY <1>1, CountsOfRootStay DEF RootUntouched
<1>8. Completed(p)' = IF last THEN episode[p] + 1 ELSE episode[p]
  BY <1>1, <1>2, <1>3, <1>4, <1>5 DEF Completed, Count
<1>9. OrderInv(p)'
  <2>1. Acked(p) = episode[p] /\ Offered(p) = episode[p] + 1
    BY <1>1, <1>2, CountersAreNaturals DEF MailboxInv, PeerInv, OrderInv
  <2>2. QED
    BY <1>1, <1>2, <1>7, <1>8, <2>1 DEF OrderInv
<1>10. SignalInv(p)'
  BY <1>1, <1>7 DEF MailboxInv, PeerInv, SignalInv
<1>11. FullInv(p)'
  <2>1. \A s \in Slot : Uses(episode[p] + 1, s) =
              IF s = s0 THEN Uses(episode[p], s) + 1 ELSE Uses(episode[p], s)
    BY <1>2, NextUse
  <2>2. /\ full'[s0][p].phases = Uses(Completed(p)', s0)
        /\ full'[s0][p].armed <=> ~last
        /\ full'[s0][p].tx = Cardinality(flying[p]) - 1
    <3>1. /\ c.phases = IF last THEN b.phases + 1 ELSE b.phases
          /\ c.armed <=> b.armed /\ ~last
          /\ c.tx = b.tx - 1
      OBVIOUS
    <3> HIDE DEF c, last
    <3>2. c.phases = Uses(Completed(p)', s0)
      BY <1>4, <1>8, <2>1, <3>1
    <3>3. QED
      BY <1>4, <1>5, <3>1, <3>2
  <2>3. ASSUME NEW s \in Slot, s # s0
        PROVE  full'[s][p].phases = Uses(Completed(p)', s) /\ ~full'[s][p].armed
               /\ full'[s][p].tx = 0
    BY <1>2, <1>4, <1>5, <1>8, <2>1, <2>3 DEF MailboxInv, PeerInv, FullInv
  <2>4. (Completed(p) < Armed(p))' <=> ~last
    BY <1>2, <1>7, <1>8
  <2>5. last <=> Cardinality(flying[p]) = 1
    BY <1>4
  <2>6. full'[s0][p].tx = IF ~full'[s0][p].armed THEN 0
                          ELSE IF flying'[p] # {} THEN Cardinality(flying'[p])
                          ELSE Pieces[episode[0]]
    BY <1>3, <1>5, <2>2, <2>5
  <2>7. QED
    BY <1>1, <1>4, <1>7, <2>2, <2>3, <2>4, <2>6 DEF FullInv
<1>12. PushInv(p)'
  <2>1. 1 .. Pieces[episode[p]] \subseteq Piece
    BY <1>2
  <2>2. \A v \in (1 .. Pieces[episode[p]]) \ flying'[p] : partial'[s0][p][v] = episode[p]
    BY <1>2, <1>5, <1>6, <2>1 DEF MailboxInv, PeerInv, PushInv
  <2>3. QED
    BY <1>1, <1>2, <1>4, <1>5, <2>2 DEF PushInv
<1>13. QED
  BY <1>9, <1>10, <1>11, <1>12 DEF PeerInv

-----------------------------------------------------------------------------
(***************************************************************************)
(* The theorems.                                                           *)
(***************************************************************************)
LEMMA PeerInvStep ==
    ASSUME MailboxInv, Next, NEW p \in Peer
    PROVE  PeerInv(p)'
<1> USE RankFacts
<1>1. ASSUME NEW q \in Peer, q # p,
             InitBarriers(q) \/ Open(q) \/ Compute(q) \/ Close(q) \/ PeerStep(q) \/ Land(q)
      PROVE  PeerInv(p)'
  <2>1. PeerUntouched(p) /\ SignalsUntouched(p) /\ RootUntouched
    <3>1. CASE InitBarriers(q) \/ Open(q) \/ Compute(q) \/ Close(q)
      BY <1>1, <3>1 DEF MailboxInv, MailboxType, BarrierType, DataType, InitBarriers, Open,
         Compute, Close, PeerUntouched, SignalsUntouched, RootUntouched, barrierVars, dataVars
    <3>2. CASE PeerStep(q)
      BY <1>1, <3>2 DEF MailboxInv, MailboxType, BarrierType, DataType, PeerStep, AwaitReady,
         Push, AwaitAck, NextEpisode, PeerUntouched, SignalsUntouched, RootUntouched,
         barrierVars, dataVars
    <3>3. CASE Land(q)
      <4>1. SlotOf(episode[q]) \in Slot
        BY CountersAreNaturals DEF MailboxInv
      <4>2. QED
        BY <1>1, <3>3, <4>1 DEF MailboxInv, MailboxType, BarrierType, DataType, Land,
           PeerUntouched, SignalsUntouched, RootUntouched
    <3>4. QED
      BY <1>1, <3>1, <3>2, <3>3
  <2>2. QED
    BY <2>1, OtherPeerStep DEF MailboxInv, RootUntouched
<1>2. CASE RankStep(0)
  <2>1. CASE InitBarriers(0)
    BY <2>1, RootInitializes
  <2>2. CASE Open(0) \/ Compute(0) \/ Close(0) \/ AwaitPartials \/ Finish
    BY <2>2, RootQuietSteps
  <2>3. CASE ExpectTx
    BY <2>3, RootExpects
  <2>4. CASE OfferReady
    BY <2>4, RootOffers
  <2>5. CASE Acknowledge
    BY <2>5, RootAcknowledges
  <2>6. QED
    BY <1>2, <2>1, <2>2, <2>3, <2>4, <2>5 DEF RankStep, RootStep
<1>3. CASE InitBarriers(p) \/ Open(p) \/ Compute(p) \/ Close(p) \/ PeerStep(p) \/ Land(p)
  BY <1>3, PeerInitializes, PeerQuietSteps, PeerPushes, PeerIsAcknowledged, PieceLands
  DEF PeerStep
<1>4. QED
  BY <1>1, <1>2, <1>3 DEF Next, RankStep

\* Rank 0's own tile is of this episode while its partials are gathered.
LEMMA OwnTileStep ==
    ASSUME MailboxInv, Next
    PROVE  (pc[0] \in {"sum", "finish"} => tile[0] = episode[0])'
<1> USE RankFacts
<1>1. ASSUME NEW r \in Rank, InitBarriers(r) \/ Open(r) \/ Compute(r) \/ Close(r)
      PROVE  (pc[0] \in {"sum", "finish"} => tile[0] = episode[0])'
  BY <1>1 DEF MailboxInv, MailboxType, DataType, InitBarriers, Open, FirstStep, Compute,
              Close, dataVars
<1>2. CASE RootStep
  BY <1>2 DEF MailboxInv, MailboxType, RootStep, ExpectTx, OfferReady, NextTurn,
              AwaitPartials, Finish, Acknowledge, NextEpisode, FirstStep, dataVars
<1>3. ASSUME NEW p \in Peer, PeerStep(p) \/ Land(p)
      PROVE  (pc[0] \in {"sum", "finish"} => tile[0] = episode[0])'
  BY <1>3 DEF MailboxInv, MailboxType, PeerStep, AwaitReady, Push, AwaitAck, NextEpisode,
              Land, dataVars
<1>4. QED
  BY <1>1, <1>2, <1>3 DEF Next, RankStep

LEMMA MailboxInvInit == Init => MailboxInv
<1> SUFFICES ASSUME Init PROVE MailboxInv
  OBVIOUS
<1> USE RankFacts
<1>1. BarrierType
  <2> DEFINE fresh == [phases |-> 1, armed |-> FALSE, tx |-> 0]
             row == [p \in Peer |-> fresh]
  <2>1. row \in [Peer -> [phases : Nat, armed : BOOLEAN, tx : Int]]
    OBVIOUS
  <2>2. full = [s \in Slot |-> row]
    BY DEF Init
  <2> HIDE DEF row
  <2>3. full \in [Slot -> [Peer -> [phases : Nat, armed : BOOLEAN, tx : Int]]]
    BY <2>1, <2>2
  <2> DEFINE ones == [s \in Slot |-> 1]
  <2>4. ones \in [Slot -> Nat] /\ ready = [p \in Peer |-> ones] /\ ack = [p \in Peer |-> ones]
    BY DEF Init
  <2> HIDE DEF ones
  <2>5. QED
    BY <2>3, <2>4 DEF BarrierType
<1>2. DataType
  <2> DEFINE none == [u \in Piece |-> Nothing]
             row == [p \in Peer |-> none]
  <2>1. none \in [Piece -> Int]
    BY DEF Nothing
  <2>2. row \in [Peer -> [Piece -> Int]]
    BY <2>1
  <2>3. partial = [s \in Slot |-> row]
    BY DEF Init
  <2> HIDE DEF row
  <2>4. partial \in [Slot -> [Peer -> [Piece -> Int]]]
    BY <2>2, <2>3
  <2>5. tile \in [Rank -> Int] /\ flying \in [Peer -> SUBSET Piece]
    BY DEF Init, Nothing
  <2>6. QED
    BY <2>4, <2>5 DEF DataType
<1>3. MailboxType
  BY <1>1, <1>2 DEF Init, MailboxType, RootPc, PeerPc
<1>4. RankInv /\ TurnInv
  BY DEF Init, RankInv, TurnInv
<1>5. ASSUME NEW p \in Peer
      PROVE  PeerInv(p)
  <2>1. pc[0] = "boot" /\ pc[p] = "boot" /\ episode[0] = 0 /\ episode[p] = 0 /\ flying[p] = {}
    BY DEF Init
  <2>2. QED
    BY <2>1 DEF PeerInv, OrderInv, SignalInv, FullInv, PushInv, Offered, Acked, Completed,
                OfferMade, Count
<1>6. QED
  BY <1>3, <1>4, <1>5 DEF MailboxInv, Init

\* A step that changes nothing keeps the invariant.
LEMMA MailboxInvStutter == MailboxInv /\ UNCHANGED vars => MailboxInv'
<1> SUFFICES ASSUME MailboxInv, UNCHANGED vars PROVE MailboxInv'
  OBVIOUS
<1>1. /\ pc' = pc /\ episode' = episode /\ turn' = turn /\ full' = full /\ ready' = ready
      /\ ack' = ack /\ tile' = tile /\ flying' = flying /\ partial' = partial
  BY DEF vars, barrierVars, dataVars
<1>2. MailboxType' /\ RankInv' /\ TurnInv'
  BY <1>1 DEF MailboxInv, MailboxType, BarrierType, DataType, RankInv, TurnInv
<1>3. ASSUME NEW p \in Peer
      PROVE  PeerInv(p)'
  BY <1>1, OtherPeerStep DEF MailboxInv, PeerUntouched, SignalsUntouched
<1>4. QED
  BY <1>1, <1>2, <1>3 DEF MailboxInv

\* Offers, pushes and acknowledgements stay in order and within one of each
\* other, per peer, however the ranks and the pieces are interleaved.
THEOREM MailboxInvariant == Spec => []MailboxInv
<1>1. Init => MailboxInv
  BY MailboxInvInit
<1>2. MailboxInv /\ [Next]_vars => MailboxInv'
  <2>1. ASSUME MailboxInv, Next
        PROVE  MailboxInv'
    <3>1. MailboxType' /\ RankInv' /\ TurnInv'
      BY <2>1, TypeStep, RankInvStep, TurnInvStep DEF MailboxInv
    <3>2. \A p \in Peer : PeerInv(p)'
      BY <2>1, PeerInvStep
    <3>3. (pc[0] \in {"sum", "finish"} => tile[0] = episode[0])'
      BY <2>1, OwnTileStep
    <3>4. QED
      BY <3>1, <3>2, <3>3 DEF MailboxInv
  <2>2. QED
    BY <2>1, MailboxInvStutter
<1>3. QED
  BY <1>1, <1>2, PTL DEF Spec

\* Past the wait for the partials every peer's push has landed whole and is
\* of rank 0's episode (ClusterMailbox::Run up to its reduction).
LEMMA SumsFollow == MailboxInv => SumsThisEpisode /\ SourceStable
<1> SUFFICES ASSUME MailboxInv PROVE SumsThisEpisode /\ SourceStable
  OBVIOUS
<1> USE RankFacts
<1>1. ASSUME pc[0] = "finish", NEW p \in Peer
      PROVE  pc[p] = "ack" /\ flying[p] = {} /\ episode[p] = episode[0]
  <2>1. Acked(p) = episode[0] /\ Completed(p) = episode[0] + 1
    BY <1>1, CountersAreNaturals DEF MailboxInv, PeerInv, OrderInv, Acked, Count
  <2>2. episode[p] = episode[0]
    BY <2>1, CountersAreNaturals DEF MailboxInv, PeerInv, OrderInv
  <2>3. QED
    BY <2>1, <2>2, CountersAreNaturals DEF MailboxInv, Completed, Count
<1>2. SumsThisEpisode
  BY <1>1 DEF SumsThisEpisode, MailboxInv, PeerInv, PushInv, Slot0
<1>3. SourceStable
  BY <1>1 DEF SourceStable, MailboxInv, PeerInv, PushInv
<1>4. QED
  BY <1>2, <1>3

\* Rank 0 sums the whole tile of every peer and of this episode, for either
\* size of cluster, every number of episodes and of pieces (ClusterMailbox::Run).
THEOREM SumsAreOfThisEpisode == Spec => []SumsThisEpisode
BY MailboxInvariant, SumsFollow, PTL

\* A peer's tile is not rewritten while a piece of it still travels or rank 0
\* has yet to read what it sent (the ack barrier of ClusterMailbox::Run).
THEOREM SourcesAreStable == Spec => []SourceStable
BY MailboxInvariant, SumsFollow, PTL

-----------------------------------------------------------------------------
(***************************************************************************)
(* The page ring: a page that a warp holds is a complete copy of the page  *)
(* it asked for, for every ring, every stream of tasks and every division  *)
(* of a task's pages among the warps.                                      *)
(*                                                                         *)
(* Per warp, Low and High bound the pages it has released and the pages it *)
(* has waited for.  Per slot, the tag says which page is in it, and the    *)
(* phases of its two barriers are those of that page: `full` has completed *)
(* one more when the page has landed, and `empty` counts the warps whose   *)
(* Low has passed it.  Hence the loader's parity wait is over only when    *)
(* every warp that drains the page is past it, and a warp's only when the  *)
(* page it asked for, which the tag has just named, has landed.            *)
(***************************************************************************)
Total == First[Len(Tasks) + 1]

\* The waves of a task, and the pages warp w drains in a wave.
Wave(i) == 0 .. (Tasks[i].waves - 1)
Drains(w, s) ==
    \E i \in DOMAIN Tasks : \E v \in Wave(i) :
        PageOf(i, w, v) <= s /\ s < PageOf(i, w, v) + Tasks[i].group

RingType ==
    /\ stream \in Streams
    /\ acquired \in Nat /\ published \in Nat
    /\ generation \in [PageSlot -> Int]
    /\ landing \in [PageSlot -> BOOLEAN]
    /\ content \in [PageSlot -> Int]
    /\ fullPhases \in [PageSlot -> Nat]
    /\ empties \in [PageSlot -> Nat]
    /\ at \in [Warp -> [task : Nat, wave : Nat, page : Nat]]
    /\ warpPc \in [Warp -> {"tag", "full", "read", "release", "done"}]

\* Where a warp may be: in its task's waves and group, and past the stream's
\* end only when it is done.
PlaceOf(w) ==
    /\ warpPc[w] # "done" => /\ at[w].task \in DOMAIN Tasks
                             /\ at[w].wave < WarpTask(w).waves
                             /\ at[w].page < WarpTask(w).group
    /\ warpPc[w] = "read" => at[w].page = 0
    /\ warpPc[w] = "release" /\ WarpTask(w).hold => LastWave(w)

\* Of the pages it drains, warp w has released those below Low(w) and has
\* waited for those below High(w).
Base(w) == PageOf(at[w].task, w, at[w].wave)
Pending(w) == IF WarpTask(w).hold /\ at[w].wave > 0 THEN Base(w) - 1 ELSE Base(w)
Low(w) ==
    CASE warpPc[w] = "done" -> Total
      [] warpPc[w] = "release" -> Base(w) + at[w].page
      [] OTHER -> Pending(w)
High(w) ==
    CASE warpPc[w] = "done" -> Total
      [] warpPc[w] \in {"read", "release"} -> Base(w) + WarpTask(w).group
      [] OTHER -> Base(w) + at[w].page

Users(s) == {w \in Warp : Drains(w, s)}
Released(s) == {w \in Users(s) : s < Low(w)}

LoaderInv ==
    /\ acquired <= Total
    /\ published <= acquired
    /\ acquired <= published + Pages

FreeSlot(p) ==
    /\ acquired <= p
    /\ fullPhases[p] = 0 /\ ~landing[p]
    /\ empties[p] = Warps

TaggedSlot(p) ==
    LET s == generation[p] IN
    /\ s \in Nat /\ s % Pages = p
    /\ s < acquired /\ acquired <= s + Pages
    /\ empties[p] = Warps * (s \div Pages + 1) + ReleaseArrivals(s) * Cardinality(Released(s))
    /\ s >= published => ~landing[p] /\ fullPhases[p] = s \div Pages
    /\ landing[p] => fullPhases[p] = s \div Pages
    /\ s < published /\ ~landing[p] => fullPhases[p] = s \div Pages + 1 /\ content[p] = s

SlotInv == \A p \in PageSlot : IF generation[p] = NoPage THEN FreeSlot(p) ELSE TaggedSlot(p)

\* What a warp has waited for has landed; what it has not released is there.
WarpInv ==
    \A w \in Warp :
        /\ PlaceOf(w)
        /\ \A s \in Nat : Drains(w, s) /\ s < High(w) =>
              /\ s < published
              /\ generation[s % Pages] = s => ~landing[s % Pages]
              /\ s < Low(w) \/ generation[s % Pages] = s
        /\ warpPc[w] = "full" => TagMatches(w)

RingInv == RingType /\ LoaderInv /\ SlotInv /\ WarpInv

-----------------------------------------------------------------------------
(***************************************************************************)
(* Arithmetic of slots and phases.                                         *)
(***************************************************************************)
LEMMA LeastNatural ==
    ASSUME NEW S \in SUBSET Nat, S # {}
    PROVE  \E m \in S : \A k \in S : m <= k
<1> DEFINE R == {ss \in Nat \X Nat : ss[1] < ss[2]}
<1>1. IsWellFoundedOn(R, Nat)
  BY NatLessThanWellFounded DEF OpToRel
<1>2. PICK m \in S : \A k \in S : ~ (<<k, m>> \in R)
  <2> HIDE DEF R
  <2>1. QED
    BY <1>1, WFMin
<1>3. ASSUME NEW k \in S, k < m
      PROVE  FALSE
  <2>1. <<k, m>> \in Nat \X Nat
    OBVIOUS
  <2>2. <<k, m>> \in R
    BY <1>3, <2>1
  <2>3. QED
    BY <1>2, <2>2
<1>4. m \in Nat /\ \A k \in S : k \in Nat /\ ~ (k < m)
  BY <1>3
<1>5. QED
  BY <1>4

LEMMA Division ==
    ASSUME NEW n \in Nat, NEW k \in Nat \ {0}
    PROVE  /\ n \div k \in Nat
           /\ n % k \in 0 .. (k - 1)
           /\ n = (n \div k) * k + (n % k)
BY SMT

LEMMA DivisionUnique ==
    ASSUME NEW k \in Nat \ {0}, NEW q \in Nat, NEW r \in 0 .. (k - 1)
    PROVE  /\ (q * k + r) \div k = q
           /\ (q * k + r) % k = r
BY SMT

LEMMA Times ==
    ASSUME NEW a \in Nat, NEW b \in Nat, NEW k \in Nat
    PROVE  /\ a * k \in Nat
           /\ a * k = k * a
           /\ (a + 1) * k = a * k + k
           /\ a <= b => a * k <= b * k
           /\ a < b => a * k + k <= b * k
<1>1. a * k \in Nat /\ b * k \in Nat /\ a * k = k * a /\ (a + 1) * k = a * k + k
  BY SMT
<1>2. a <= b => a * k <= b * k
  <2>1. SUFFICES ASSUME a <= b PROVE a * k <= b * k
    OBVIOUS
  <2>2. PICK d \in Nat : b = a + d
    <3>1. b - a \in Nat /\ b = a + (b - a)
      BY <2>1
    <3> QED
      BY <3>1
  <2>3. d * k \in Nat /\ (a + d) * k = a * k + d * k
    BY SMT
  <2> QED
    BY <1>1, <2>2, <2>3
<1>3. a < b => a * k + k <= b * k
  <2>1. SUFFICES ASSUME a < b PROVE a * k + k <= b * k
    OBVIOUS
  <2>2. PICK d \in Nat : b = (a + 1) + d
    <3>1. b - (a + 1) \in Nat /\ b = (a + 1) + (b - (a + 1))
      BY <2>1
    <3> QED
      BY <3>1
  <2>3. d * k \in Nat /\ ((a + 1) + d) * k = (a + 1) * k + d * k
    BY SMT
  <2> QED
    BY <1>1, <2>2, <2>3
<1> QED
  BY <1>1, <1>2, <1>3

LEMMA Parity ==
    ASSUME NEW n \in Nat
    PROVE  /\ (n + 1) % 2 # n % 2
           /\ (n + 2) % 2 = n % 2
BY SMT

\* Two sequences of one slot that are at most a ring apart are equal or one
\* generation apart.
LEMMA SameSlot ==
    ASSUME NEW k \in Nat \ {0}, NEW s \in Nat, NEW a \in Nat,
           s <= a, a <= s + k, s % k = a % k
    PROVE  \/ a = s
           \/ a = s + k /\ a \div k = s \div k + 1
<1>1. PICK q \in Nat : q = s \div k
  BY Division
<1>2. PICK p \in Nat : p = a \div k
  BY Division
<1>3. PICK r \in 0 .. (k - 1) : r = s % k
  BY Division
<1>4. s = q * k + r /\ a = p * k + r
  BY <1>1, <1>2, <1>3, Division
<1>5. PICK x \in Nat : x = q * k
  BY Times
<1>6. PICK y \in Nat : y = p * k
  BY Times
<1>7. s = x + r /\ a = y + r
  BY <1>4, <1>5, <1>6
<1>8. q = p \/ q + 1 = p
  <2>1. ~(p < q)
    <3>1. p < q => y + k <= x
      BY <1>5, <1>6, Times
    <3> QED
      BY <1>3, <1>7, <3>1
  <2>2. ~(q + 1 < p)
    <3>1. q + 1 < p => (q + 1) * k + k <= y
      BY <1>6, Times
    <3>2. (q + 1) * k = x + k
      BY <1>5, Times
    <3> QED
      BY <1>3, <1>7, <3>1, <3>2
  <2> QED
    BY <2>1, <2>2
<1>9. CASE q = p
  BY <1>4, <1>9
<1>10. CASE q + 1 = p
  <2>1. y = x + k
    BY <1>5, <1>6, <1>10, Times
  <2> QED
    BY <1>1, <1>2, <1>3, <1>7, <1>10, <2>1
<1> QED
  BY <1>8, <1>9, <1>10

LEMMA FirstRound ==
    ASSUME NEW k \in Nat \ {0}, NEW s \in 0 .. (k - 1)
    PROVE  s % k = s /\ s \div k = 0
BY SMT

-----------------------------------------------------------------------------
(***************************************************************************)
(* The layout of a stream: which pages are of which task, and which warps  *)
(* drain a page.                                                           *)
(***************************************************************************)
StreamShape ==
    /\ Pages \in Nat \ {0}
    /\ Warps \in Nat \ {0}
    /\ Len(Tasks) \in Nat
    /\ DOMAIN Tasks = 1 .. Len(Tasks)
    /\ \A i \in DOMAIN Tasks :
          /\ Tasks[i].waves \in Nat \ {0}
          /\ Tasks[i].group \in 1 .. Pages
          /\ Tasks[i].owners \in Nat \ {0}
          /\ Tasks[i].hold \in BOOLEAN
          /\ Warps % Tasks[i].owners = 0
          /\ Tasks[i].group > 1 => Tasks[i].owners = Warps
          /\ Tasks[i].hold => Tasks[i].group = 1 /\ Tasks[i].owners = Warps /\ Pages >= 2

LEMMA StreamFacts ==
    ASSUME RingConstants, stream \in Streams
    PROVE  StreamShape
<1>1. stream \in PageStream
  BY DEF RingConstants
<1>2. Warps \in Nat \ {0} /\ Tasks \in Seq(PageTask)
  BY <1>1 DEF PageStream, Warps, Tasks
<1>3. /\ Len(Tasks) \in Nat /\ DOMAIN Tasks = 1 .. Len(Tasks)
      /\ \A i \in DOMAIN Tasks : Tasks[i] \in PageTask
  BY <1>2
<1>4. \A t \in PageTask : /\ t.waves \in Nat \ {0} /\ t.group \in 1 .. Pages
                               /\ t.owners \in Nat \ {0} /\ t.hold \in BOOLEAN
  BY DEF PageTask
<1>5. \A i \in DOMAIN Tasks :
          /\ Warps % Tasks[i].owners = 0
          /\ Tasks[i].group > 1 => Tasks[i].owners = Warps
          /\ Tasks[i].hold => Tasks[i].group = 1 /\ Tasks[i].owners = Warps /\ Pages >= 2
  BY DEF RingConstants, Warps, Tasks
<1> QED
  BY <1>2, <1>3, <1>4, <1>5 DEF StreamShape, RingConstants

Shares(i) == Warps \div Tasks[i].owners

LEMMA ShareFacts ==
    ASSUME StreamShape, NEW i \in DOMAIN Tasks
    PROVE  /\ Shares(i) \in Nat \ {0}
           /\ Shares(i) * Tasks[i].owners = Warps
           /\ PagesPerWave(Tasks[i]) = Tasks[i].group * Shares(i)
           /\ PagesPerWave(Tasks[i]) \in Nat \ {0}
           /\ Tasks[i].hold => PagesPerWave(Tasks[i]) = 1
<1>1. PICK o \in Nat \ {0} : o = Tasks[i].owners
  BY DEF StreamShape
<1>2. Warps \in Nat \ {0} /\ Warps % o = 0
  BY <1>1 DEF StreamShape
<1>3. PICK n \in Nat : n = Shares(i)
  BY <1>1, <1>2, Division DEF Shares
<1>4. Warps = n * o
  <2>1. Warps = n * o + (Warps % o)
    <3>1. Warps = (Warps \div o) * o + (Warps % o)
      BY <1>2, Division
    <3>2. n = Warps \div o
      BY <1>1, <1>3 DEF Shares
    <3> QED
      BY <3>1, <3>2
  <2>2. n * o \in Nat
    BY Times
  <2> QED
    BY <1>2, <2>1, <2>2
<1>5. n # 0
  <2>1. 0 * o = 0
    BY SMT
  <2> QED
    BY <1>2, <1>4, <2>1
<1>6. PagesPerWave(Tasks[i]) = Tasks[i].group * n
  BY <1>3 DEF PagesPerWave, Shares
<1>7. PICK g \in Nat \ {0} : g = Tasks[i].group
  BY DEF StreamShape
<1>8. g * n \in Nat \ {0}
  <2>1. g * n \in Nat /\ 0 * n + n <= g * n
    BY <1>7, Times
  <2>2. 0 * n = 0
    BY SMT
  <2> QED
    BY <1>5, <2>1, <2>2
<1>9. Tasks[i].hold => g = 1 /\ o = Warps
  BY <1>1, <1>7 DEF StreamShape
<1>10. Tasks[i].hold => n = 1
  <2>1. SUFFICES ASSUME Tasks[i].hold, n # 1
                 PROVE  FALSE
    OBVIOUS
  <2>2. 1 * o + o <= n * o /\ 1 * o = o
    BY <1>5, <2>1, Times
  <2> QED
    BY <1>2, <1>4, <1>9, <2>1, <2>2
<1> QED
  BY <1>1, <1>3, <1>4, <1>5, <1>6, <1>7, <1>8, <1>9, <1>10

Starts(n, f) ==
    f = [i \in 1 .. (n + 1) |->
            IF i = 1 THEN 0 ELSE f[i - 1] + Tasks[i - 1].waves * PagesPerWave(Tasks[i - 1])]

\* The recursion that defines First has a solution for every stream.
LEMMA StartsExist ==
    ASSUME NEW n \in Nat
    PROVE  \E f : Starts(n, f)
<1> DEFINE Bad == {m \in Nat : ~ \E f : Starts(m, f)}
<1>1. SUFFICES ASSUME Bad # {}
               PROVE  FALSE
  OBVIOUS
<1>2. PICK k \in Bad : \A m \in Bad : k <= m
  <2>1. Bad \in SUBSET Nat
    OBVIOUS
  <2> HIDE DEF Bad
  <2> QED
    BY <1>1, <2>1, LeastNatural
<1>3. k \in Nat /\ ~ \E f : Starts(k, f)
  BY <1>2
<1>4. k # 0
  <2> DEFINE z == [i \in 1 .. (0 + 1) |-> 0]
  <2>1. \A i \in 1 .. (0 + 1) : i = 1
    OBVIOUS
  <2>2. z = [i \in 1 .. (0 + 1) |->
                IF i = 1 THEN 0 ELSE z[i - 1] + Tasks[i - 1].waves * PagesPerWave(Tasks[i - 1])]
    BY <2>1
  <2>3. Starts(0, z)
    BY <2>2 DEF Starts
  <2> QED
    BY <1>3, <2>3
<1>5. k - 1 \in Nat /\ k - 1 \notin Bad
  BY <1>2, <1>3, <1>4
<1>6. PICK g : Starts(k - 1, g)
  BY <1>5
<1> DEFINE More(i) == Tasks[i - 1].waves * PagesPerWave(Tasks[i - 1])
           f == [i \in 1 .. (k + 1) |-> IF i = k + 1 THEN g[k] + More(k + 1) ELSE g[i]]
<1>7. ASSUME NEW i \in 1 .. (k + 1)
      PROVE  f[i] = IF i = 1 THEN 0 ELSE f[i - 1] + More(i)
  <2>1. \A j \in 1 .. k : g[j] = IF j = 1 THEN 0 ELSE g[j - 1] + More(j)
    <3>1. (k - 1) + 1 = k
      BY <1>3
    <3> QED
      BY <1>6, <3>1 DEF Starts
  <2> HIDE DEF More
  <2>2. CASE i = k + 1
    <3>1. i - 1 \in 1 .. (k + 1) /\ i - 1 # k + 1 /\ i # 1 /\ i - 1 = k
      BY <1>3, <1>4, <2>2
    <3>2. f[i - 1] = g[k]
      BY <2>2, <3>1
    <3>3. f[i] = g[k] + More(i)
      BY <2>2
    <3> QED
      BY <3>1, <3>2, <3>3
  <2>3. CASE i # k + 1
    <3>1. i \in 1 .. k
      BY <1>3, <2>3
    <3>2. i # 1 => i - 1 \in 1 .. (k + 1) /\ i - 1 # k + 1
      BY <1>3, <3>1
    <3>3. f[i] = g[i] /\ (i # 1 => f[i - 1] = g[i - 1])
      BY <2>3, <3>2
    <3> QED
      BY <2>1, <3>1, <3>3
  <2> QED
    BY <2>2, <2>3
<1>8. Starts(k, f)
  <2>1. f = [i \in 1 .. (k + 1) |-> IF i = 1 THEN 0 ELSE f[i - 1] + More(i)]
    <3>1. f = [i \in 1 .. (k + 1) |-> f[i]]
      OBVIOUS
    <3> HIDE DEF f, More
    <3> QED
      BY <1>7, <3>1
  <2> QED
    BY <2>1 DEF Starts
<1> QED
  BY <1>3, <1>8

LEMMA FirstStarts ==
    ASSUME StreamShape
    PROVE  /\ First[1] = 0
           /\ \A i \in DOMAIN Tasks :
                 First[i + 1] = First[i] + Tasks[i].waves * PagesPerWave(Tasks[i])
<1> DEFINE n == Len(Tasks)
<1>1. Starts(n, CHOOSE f : Starts(n, f))
  BY StartsExist DEF StreamShape
<1>2. First = CHOOSE f : Starts(n, f)
  BY DEF First, Starts
<1>3. Starts(n, First)
  BY <1>1, <1>2
<1>4. \A i \in 1 .. (n + 1) : First[i] = IF i = 1 THEN 0
                                        ELSE First[i - 1] + Tasks[i - 1].waves * PagesPerWave(Tasks[i - 1])
  BY <1>3 DEF Starts
<1>5. n \in Nat /\ DOMAIN Tasks = 1 .. n
  BY DEF StreamShape
<1>6. First[1] = 0
  <2>1. 1 \in 1 .. (n + 1)
    BY <1>5
  <2> QED
    BY <1>4, <2>1, Zenon
<1>7. ASSUME NEW i \in DOMAIN Tasks
      PROVE  First[i + 1] = First[i] + Tasks[i].waves * PagesPerWave(Tasks[i])
  <2>1. i + 1 \in 1 .. (n + 1) /\ i + 1 # 1 /\ (i + 1) - 1 = i
    BY <1>5
  <2> QED
    BY <1>4, <2>1
<1> QED
  BY <1>6, <1>7

\* Every task has at least one page.
LEMMA FirstGrows ==
    ASSUME StreamShape
    PROVE  /\ \A i \in 1 .. (Len(Tasks) + 1) : First[i] \in Nat
           /\ \A i \in DOMAIN Tasks : First[i] < First[i + 1]
<1> DEFINE n == Len(Tasks)
<1>1. n \in Nat /\ DOMAIN Tasks = 1 .. n
  BY DEF StreamShape
<1>2. ASSUME NEW i \in DOMAIN Tasks, First[i] \in Nat
      PROVE  First[i + 1] \in Nat /\ First[i] < First[i + 1]
  <2>1. PICK v \in Nat \ {0} : v = Tasks[i].waves
    BY DEF StreamShape
  <2>2. PICK k \in Nat \ {0} : k = PagesPerWave(Tasks[i])
    BY ShareFacts
  <2>3. v * k \in Nat \ {0}
    <3>1. v * k \in Nat /\ 0 * k + k <= v * k
      BY Times
    <3>2. 0 * k = 0
      BY SMT
    <3> QED
      BY <3>1, <3>2
  <2>4. First[i + 1] = First[i] + v * k
    BY <2>1, <2>2, FirstStarts
  <2> QED
    BY <1>2, <2>3, <2>4
<1>3. \A i \in 1 .. (n + 1) : First[i] \in Nat
  <2> DEFINE Bad == {i \in 1 .. (n + 1) : First[i] \notin Nat}
  <2>1. SUFFICES ASSUME Bad # {}
                 PROVE  FALSE
    OBVIOUS
  <2>2. PICK k \in Bad : \A m \in Bad : k <= m
    <3>1. Bad \in SUBSET Nat
      BY <1>1
    <3> HIDE DEF Bad
    <3> QED
      BY <2>1, <3>1, LeastNatural
  <2>3. k \in 1 .. (n + 1) /\ k # 1
    BY <2>2, FirstStarts
  <2>4. k - 1 \in DOMAIN Tasks /\ k - 1 \in 1 .. (n + 1) /\ k - 1 \notin Bad
    BY <1>1, <2>2, <2>3
  <2>5. First[k - 1] \in Nat /\ (k - 1) + 1 = k
    BY <2>3, <2>4
  <2> QED
    BY <1>2, <2>2, <2>4, <2>5
<1>4. \A i \in DOMAIN Tasks : i \in 1 .. (n + 1)
  BY <1>1
<1> QED
  BY <1>2, <1>3, <1>4

LEMMA FirstMonotone ==
    ASSUME StreamShape, NEW i \in 1 .. (Len(Tasks) + 1), NEW j \in 1 .. (Len(Tasks) + 1), i <= j
    PROVE  First[i] <= First[j]
<1> DEFINE n == Len(Tasks)
           Bad == {m \in 1 .. (n + 1) : i <= m /\ ~(First[i] <= First[m])}
<1>1. n \in Nat /\ DOMAIN Tasks = 1 .. n
  BY DEF StreamShape
<1>2. SUFFICES ASSUME Bad # {}
               PROVE  FALSE
  OBVIOUS
<1>3. PICK k \in Bad : \A m \in Bad : k <= m
  <2>1. Bad \in SUBSET Nat
    BY <1>1
  <2> HIDE DEF Bad
  <2> QED
    BY <1>2, <2>1, LeastNatural
<1>4. k \in 1 .. (n + 1) /\ i <= k /\ ~(First[i] <= First[k])
  BY <1>3
<1>5. First[i] \in Nat /\ First[k] \in Nat
  BY <1>4, FirstGrows
<1>6. i # k
  BY <1>4, <1>5
<1>7. k - 1 \in DOMAIN Tasks /\ k - 1 \in 1 .. (n + 1) /\ i <= k - 1 /\ (k - 1) + 1 = k
  BY <1>1, <1>4, <1>6
<1>8. First[i] <= First[k - 1]
  BY <1>3, <1>7
<1>9. First[k - 1] < First[k] /\ First[k - 1] \in Nat
  BY <1>7, FirstGrows
<1> QED
  BY <1>4, <1>5, <1>8, <1>9

\* Every page of the stream is of exactly one task.
LEMMA TaskOfFacts ==
    ASSUME StreamShape, NEW s \in Nat
    PROVE  /\ \A i \in DOMAIN Tasks :
                 First[i] <= s /\ s < First[i + 1] => s < Total /\ TaskOf(s) = i
           /\ s < Total => /\ TaskOf(s) \in DOMAIN Tasks
                           /\ First[TaskOf(s)] <= s /\ s < First[TaskOf(s) + 1]
<1> DEFINE n == Len(Tasks)
           In(i) == First[i] <= s /\ s < First[i + 1]
<1>1. n \in Nat /\ DOMAIN Tasks = 1 .. n
  BY DEF StreamShape
<1>2. ASSUME NEW i \in DOMAIN Tasks, NEW j \in DOMAIN Tasks, In(i), In(j)
      PROVE  ~(i < j)
  <2>1. SUFFICES ASSUME i < j PROVE FALSE
    OBVIOUS
  <2>2. i + 1 \in 1 .. (n + 1) /\ j \in 1 .. (n + 1) /\ i + 1 <= j
    BY <1>1, <2>1
  <2>3. First[i + 1] <= First[j]
    BY <2>2, FirstMonotone
  <2>4. First[i + 1] \in Nat /\ First[j] \in Nat
    BY <2>2, FirstGrows
  <2> QED
    BY <1>2, <2>3, <2>4
<1>3. ASSUME NEW i \in DOMAIN Tasks, In(i)
      PROVE  s < Total /\ TaskOf(s) = i
  <2>1. \A j \in DOMAIN Tasks : In(j) => j = i
    BY <1>1, <1>2, <1>3
  <2>2. TaskOf(s) = i
    BY <1>3, <2>1 DEF TaskOf
  <2>3. i + 1 \in 1 .. (n + 1) /\ n + 1 \in 1 .. (n + 1) /\ i + 1 <= n + 1
    BY <1>1
  <2>4. First[i + 1] <= Total /\ First[i + 1] \in Nat /\ Total \in Nat
    BY <2>3, FirstMonotone, FirstGrows DEF Total
  <2> QED
    BY <1>3, <2>2, <2>4
<1>4. ASSUME s < Total
      PROVE  \E i \in DOMAIN Tasks : In(i)
  <2> DEFINE Above == {m \in 1 .. (n + 1) : s < First[m]}
  <2>1. Above # {} /\ Above \in SUBSET Nat
    <3>1. n + 1 \in 1 .. (n + 1)
      BY <1>1
    <3>2. n + 1 \in Above
      BY <1>4, <3>1 DEF Total
    <3> QED
      BY <1>1, <3>2
  <2>2. PICK k \in Above : \A m \in Above : k <= m
    <3> HIDE DEF Above
    <3> QED
      BY <2>1, LeastNatural
  <2>3. k \in 1 .. (n + 1) /\ s < First[k] /\ k # 1
    BY <2>2, FirstStarts
  <2>4. k - 1 \in DOMAIN Tasks /\ k - 1 \in 1 .. (n + 1) /\ k - 1 \notin Above /\ (k - 1) + 1 = k
    BY <1>1, <2>2, <2>3
  <2>5. First[k - 1] <= s
    BY <2>4, FirstGrows
  <2> QED
    BY <2>3, <2>4, <2>5
<1>5. s < Total => TaskOf(s) \in DOMAIN Tasks /\ In(TaskOf(s))
  BY <1>4 DEF TaskOf
<1> QED
  BY <1>3, <1>5

\* The page a warp starts from in a wave, and the pages of that wave.
LEMMA PageBounds ==
    ASSUME StreamShape, NEW i \in DOMAIN Tasks, NEW v \in Wave(i), NEW w \in Warp
    PROVE  /\ PageOf(i, w, v) \in Nat
           /\ PageOf(i, w, v) = First[i] + v * PagesPerWave(Tasks[i])
                                  + (w \div Tasks[i].owners) * Tasks[i].group
           /\ w \div Tasks[i].owners \in Nat
           /\ w \div Tasks[i].owners < Shares(i)
           /\ First[i] + v * PagesPerWave(Tasks[i]) <= PageOf(i, w, v)
           /\ PageOf(i, w, v) + Tasks[i].group <= First[i] + (v + 1) * PagesPerWave(Tasks[i])
           /\ PageOf(i, w, v) + Tasks[i].group <= First[i + 1]
<1>1. PICK o \in Nat \ {0} : o = Tasks[i].owners
  BY DEF StreamShape
<1>2. PICK g \in Nat \ {0} : g = Tasks[i].group
  BY DEF StreamShape
<1>3. PICK n \in Nat \ {0} : n = Shares(i)
  BY ShareFacts
<1>4. PICK k \in Nat \ {0} : k = PagesPerWave(Tasks[i])
  BY ShareFacts
<1>5. k = g * n /\ n * o = Warps
  BY <1>1, <1>2, <1>3, <1>4, ShareFacts
<1>6. w \in Nat /\ w < Warps /\ Warps \in Nat
  BY DEF Warp, StreamShape
<1>7. PICK c \in Nat : c = w \div o
  BY <1>6, Division
<1>8. c < n
  <2>1. SUFFICES ASSUME n <= c PROVE FALSE
    OBVIOUS
  <2>2. n * o <= c * o /\ n * o \in Nat /\ c * o \in Nat
    BY <2>1, Times
  <2>3. w = c * o + (w % o) /\ w % o \in 0 .. (o - 1)
    BY <1>6, <1>7, Division
  <2> QED
    BY <1>5, <1>6, <2>2, <2>3
<1>9. c * g \in Nat /\ c * g + g <= k
  <2>1. c * g + g <= n * g /\ n * g = g * n /\ c * g \in Nat
    BY <1>8, Times
  <2> QED
    BY <1>5, <2>1
<1>10. v \in Nat /\ v < Tasks[i].waves
  BY DEF Wave, StreamShape
<1>11. v * k \in Nat /\ (v + 1) * k = v * k + k
  BY <1>10, Times
<1>12. First[i] \in Nat
  <2>1. i \in 1 .. (Len(Tasks) + 1)
    BY DEF StreamShape
  <2> QED
    BY <2>1, FirstGrows
<1>13. PageOf(i, w, v) = First[i] + v * k + c * g
  BY <1>1, <1>2, <1>4, <1>7 DEF PageOf
<1>14. (v + 1) * k <= Tasks[i].waves * k /\ (v + 1) * k \in Nat /\ Tasks[i].waves * k \in Nat
  <2>1. v + 1 \in Nat /\ Tasks[i].waves \in Nat /\ v + 1 <= Tasks[i].waves
    BY <1>10 DEF StreamShape
  <2> QED
    BY <2>1, Times
<1>15. First[i + 1] = First[i] + Tasks[i].waves * k
  BY <1>4, FirstStarts
<1>16. PageOf(i, w, v) \in Nat /\ First[i] + v * k <= PageOf(i, w, v)
  BY <1>9, <1>11, <1>12, <1>13
<1>17. PageOf(i, w, v) + g <= First[i] + (v + 1) * k
  BY <1>9, <1>11, <1>12, <1>13
<1>18. First[i] + (v + 1) * k <= First[i + 1]
  BY <1>12, <1>14, <1>15
<1>19. PageOf(i, w, v) + g <= First[i + 1]
  <2>1. First[i] + (v + 1) * k \in Nat /\ First[i + 1] \in Nat
    BY <1>12, <1>14, <1>15
  <2> QED
    BY <1>16, <1>17, <1>18, <2>1
<1>20. c < Shares(i)
  BY <1>3, <1>8
<1> QED
  BY <1>1, <1>2, <1>4, <1>7, <1>13, <1>16, <1>17, <1>19, <1>20

\* A warp drains its groups in the order of its tasks and waves.
LEMMA PageOrder ==
    ASSUME StreamShape, NEW w \in Warp,
           NEW i \in DOMAIN Tasks, NEW u \in Wave(i), NEW j \in DOMAIN Tasks, NEW v \in Wave(j),
           i < j \/ (i = j /\ u < v)
    PROVE  PageOf(i, w, u) + Tasks[i].group <= PageOf(j, w, v)
<1>1. PageOf(i, w, u) \in Nat /\ PageOf(j, w, v) \in Nat /\ Tasks[i].group \in Nat
  BY PageBounds DEF StreamShape
<1>2. i \in 1 .. (Len(Tasks) + 1) /\ j \in 1 .. (Len(Tasks) + 1) /\ i + 1 \in 1 .. (Len(Tasks) + 1)
  BY DEF StreamShape
<1>3. First[i] \in Nat /\ First[j] \in Nat /\ First[i + 1] \in Nat
  BY <1>2, FirstGrows
<1>4. PICK k \in Nat \ {0} : k = PagesPerWave(Tasks[j])
  BY ShareFacts
<1>5. u \in Nat /\ v \in Nat
  BY DEF Wave, StreamShape
<1>6. v * k \in Nat /\ First[j] + v * k <= PageOf(j, w, v)
  BY <1>4, <1>5, Times, PageBounds
<1>7. CASE i < j
  <2>1. i + 1 <= j
    BY <1>2, <1>7
  <2>2. First[i + 1] <= First[j]
    BY <1>2, <2>1, FirstMonotone
  <2>3. PageOf(i, w, u) + Tasks[i].group <= First[i + 1]
    BY PageBounds
  <2> QED
    BY <1>1, <1>3, <1>6, <2>2, <2>3
<1>8. CASE i = j /\ u < v
  <2>1. PageOf(i, w, u) + Tasks[i].group <= First[j] + (u + 1) * k
    BY <1>4, <1>8, PageBounds
  <2>2. (u + 1) * k <= v * k /\ (u + 1) * k \in Nat
    <3>1. u + 1 \in Nat /\ u + 1 <= v
      BY <1>5, <1>8
    <3> QED
      BY <1>5, <3>1, Times
  <2> QED
    BY <1>1, <1>3, <1>6, <2>1, <2>2
<1> QED
  BY <1>7, <1>8

\* Within its task a page is of one wave and one share of the warps.
Class(s) ==
    LET i == TaskOf(s) IN ((s - First[i]) % PagesPerWave(Tasks[i])) \div Tasks[i].group

LEMMA ClassUses ==
    ASSUME StreamShape, NEW s \in Nat, NEW w \in Warp
    PROVE  /\ Drains(w, s) => s < Total
           /\ s < Total => (Drains(w, s) <=> w \div Tasks[TaskOf(s)].owners = Class(s))
           /\ s < Total => Class(s) \in Nat /\ Class(s) < Shares(TaskOf(s))
<1>1. ASSUME NEW j \in DOMAIN Tasks, NEW v \in Wave(j),
             PageOf(j, w, v) <= s, s < PageOf(j, w, v) + Tasks[j].group
      PROVE  s < Total /\ TaskOf(s) = j /\ w \div Tasks[j].owners = Class(s)
  <2>1. PICK k \in Nat \ {0} : k = PagesPerWave(Tasks[j])
    BY ShareFacts
  <2>2. PICK g \in Nat \ {0} : g = Tasks[j].group
    BY DEF StreamShape
  <2>3. PICK c \in Nat : c = w \div Tasks[j].owners
    BY PageBounds
  <2>4. v \in Nat
    BY DEF Wave, StreamShape
  <2>5. v * k \in Nat /\ c * g \in Nat /\ (v + 1) * k = v * k + k
    BY <2>4, Times
  <2>6. j \in 1 .. (Len(Tasks) + 1) /\ j + 1 \in 1 .. (Len(Tasks) + 1)
    BY DEF StreamShape
  <2>7. First[j] \in Nat /\ First[j + 1] \in Nat
    BY <2>6, FirstGrows
  <2>8. PICK b \in Nat : b = PageOf(j, w, v)
    BY PageBounds
  <2>9. b = First[j] + v * k + c * g
    BY <2>1, <2>2, <2>3, <2>8, PageBounds
  <2>10. b + g <= First[j] + (v + 1) * k /\ b + g <= First[j + 1] /\ b <= s /\ s < b + g
    BY <1>1, <2>1, <2>2, <2>8, PageBounds
  <2>11. First[j] <= s /\ s < First[j + 1]
    BY <2>5, <2>7, <2>9, <2>10
  <2>12. s < Total /\ TaskOf(s) = j
    BY <2>11, TaskOfFacts
  <2>13. PICK e \in 0 .. (g - 1) : s = b + e
    <3>1. s - b \in 0 .. (g - 1) /\ s = b + (s - b)
      BY <2>10
    <3> QED
      BY <3>1
  <2>14. c * g + e \in 0 .. (k - 1)
    BY <2>5, <2>7, <2>9, <2>10, <2>13
  <2>15. s - First[j] = v * k + (c * g + e)
    BY <2>5, <2>7, <2>9, <2>13
  <2>16. (s - First[j]) % k = c * g + e
    <3>1. (v * k + (c * g + e)) % k = c * g + e
      BY <2>4, <2>14, DivisionUnique
    <3> QED
      BY <2>15, <3>1
  <2>17. (c * g + e) \div g = c
    BY <2>13, DivisionUnique
  <2> QED
    BY <2>1, <2>2, <2>3, <2>12, <2>16, <2>17 DEF Class
<1>2. Drains(w, s) => s < Total /\ w \div Tasks[TaskOf(s)].owners = Class(s)
  BY <1>1 DEF Drains
<1>3. ASSUME s < Total
      PROVE  /\ Class(s) \in Nat /\ Class(s) < Shares(TaskOf(s))
             /\ w \div Tasks[TaskOf(s)].owners = Class(s) => Drains(w, s)
  <2>1. PICK j \in DOMAIN Tasks : j = TaskOf(s)
    BY <1>3, TaskOfFacts
  <2>2. First[j] <= s /\ s < First[j + 1]
    BY <1>3, <2>1, TaskOfFacts
  <2>3. PICK k \in Nat \ {0} : k = PagesPerWave(Tasks[j])
    BY ShareFacts
  <2>4. PICK g \in Nat \ {0} : g = Tasks[j].group
    BY DEF StreamShape
  <2>5. PICK n \in Nat \ {0} : n = Shares(j) /\ k = g * n
    BY <2>3, <2>4, ShareFacts
  <2>6. j \in 1 .. (Len(Tasks) + 1)
    BY DEF StreamShape
  <2>7. PICK f \in Nat : f = First[j]
    BY <2>6, FirstGrows
  <2>8. PICK d \in Nat : d = s - f
    BY <2>2, <2>7
  <2>9. PICK v \in Nat : v = d \div k
    BY Division
  <2>10. PICK r \in 0 .. (k - 1) : r = d % k
    BY Division
  <2>11. d = v * k + r /\ v * k \in Nat
    BY <2>9, <2>10, Division, Times
  <2>12. PICK q \in Nat : q = r \div g
    BY <2>10, Division
  <2>13. PICK e \in 0 .. (g - 1) : e = r % g
    BY <2>10, Division
  <2>14. r = q * g + e /\ q * g \in Nat
    <3>1. r \in Nat
      BY <2>10
    <3>2. r = (r \div g) * g + (r % g)
      BY <3>1, Division
    <3>3. q * g \in Nat
      BY Times
    <3> QED
      BY <2>12, <2>13, <3>2, <3>3
  <2>15. Class(s) = q
    BY <2>1, <2>3, <2>4, <2>7, <2>8, <2>10, <2>12 DEF Class
  <2>16. q < n
    <3>1. SUFFICES ASSUME n <= q PROVE FALSE
      OBVIOUS
    <3>2. n * g <= q * g /\ n * g = g * n
      BY <3>1, Times
    <3> QED
      BY <2>5, <2>10, <2>13, <2>14, <3>2
  <2>17. PICK m \in Nat : m = Tasks[j].waves
    BY DEF StreamShape
  <2>18. First[j + 1] = f + m * k /\ m * k \in Nat
    BY <2>3, <2>7, <2>17, FirstStarts, Times
  <2>19. v < m
    <3>1. SUFFICES ASSUME m <= v PROVE FALSE
      OBVIOUS
    <3>2. m * k <= v * k
      BY <3>1, Times
    <3> QED
      BY <2>2, <2>8, <2>10, <2>11, <2>18, <3>2
  <2>20. v \in Wave(j)
    BY <2>17, <2>19 DEF Wave
  <2>21. ASSUME w \div Tasks[j].owners = q
         PROVE  Drains(w, s)
    <3>1. PageOf(j, w, v) = f + v * k + q * g
      BY <2>3, <2>4, <2>7, <2>20, <2>21, PageBounds
    <3>2. s = f + v * k + q * g + e
      BY <2>8, <2>11, <2>14
    <3>3. PageOf(j, w, v) <= s /\ s < PageOf(j, w, v) + Tasks[j].group
      BY <2>4, <2>11, <2>13, <2>14, <3>1, <3>2
    <3> QED
      BY <2>20, <3>3 DEF Drains
  <2> QED
    BY <2>1, <2>5, <2>15, <2>16, <2>21
<1> QED
  BY <1>2, <1>3

LEMMA IntervalCardinality ==
    ASSUME NEW a \in Int, NEW b \in Int, a <= b + 1
    PROVE  IsFiniteSet(a .. b) /\ Cardinality(a .. b) = b - a + 1
<1>1. IsFiniteSet(a .. b) /\ Cardinality(a .. b) = IF a > b THEN 0 ELSE b - a + 1
  BY FS_Interval
<1> QED
  BY <1>1

\* A page has as many users as its task's owners, and their arrivals at its
\* empty barrier together are one per warp.
LEMMA UserCount ==
    ASSUME StreamShape, NEW s \in Nat, s < Total
    PROVE  /\ IsFiniteSet(Users(s))
           /\ Cardinality(Users(s)) \in Nat \ {0}
           /\ ReleaseArrivals(s) \in Nat \ {0}
           /\ Cardinality(Users(s)) * ReleaseArrivals(s) = Warps
<1>1. PICK i \in DOMAIN Tasks : i = TaskOf(s)
  BY TaskOfFacts
<1>2. PICK o \in Nat \ {0} : o = Tasks[i].owners
  BY DEF StreamShape
<1>3. PICK n \in Nat \ {0} : n = Shares(i) /\ n * o = Warps
  BY <1>2, ShareFacts
<1>4. ReleaseArrivals(s) = n
  BY <1>1, <1>3 DEF ReleaseArrivals, Shares
<1>5. Warps \in Nat \ {0}
  BY DEF StreamShape
<1>6. 0 \in Warp
  BY <1>5 DEF Warp
<1>7. PICK c \in Nat : c = Class(s)
  BY <1>6, ClassUses
<1>8. c < n
  BY <1>1, <1>3, <1>6, <1>7, ClassUses
<1>9. \A w \in Warp : Drains(w, s) <=> w \div o = c
  BY <1>1, <1>2, <1>7, ClassUses
<1>10. PICK x \in Nat : x = c * o
  BY Times
<1>11. x + o <= Warps
  BY <1>3, <1>8, <1>10, Times
<1>12. \A w \in Nat : w \div o = c <=> x <= w /\ w < x + o
  <2> SUFFICES ASSUME NEW w \in Nat
               PROVE  w \div o = c <=> x <= w /\ w < x + o
    OBVIOUS
  <2>1. PICK q \in Nat : q = w \div o
    BY Division
  <2>2. PICK y \in Nat : y = q * o
    BY Times
  <2>3. y <= w /\ w < y + o
    <3>1. w = q * o + (w % o) /\ w % o \in 0 .. (o - 1)
      BY <2>1, Division
    <3> QED
      BY <2>2, <3>1
  <2>4. q < c => y + o <= x
    BY <1>10, <2>2, Times
  <2>5. c < q => x + o <= y
    BY <1>10, <2>2, Times
  <2>6. q = c => x = y
    BY <1>10, <2>2
  <2> QED
    BY <2>1, <2>3, <2>4, <2>5, <2>6
<1>13. Users(s) = x .. (x + o - 1)
  <2>1. \A w : w \in Users(s) <=> w \in Warp /\ Drains(w, s)
    BY DEF Users
  <2>2. \A w \in Warp : w \in Nat
    BY <1>5 DEF Warp
  <2>3. \A w \in Warp : w \in Users(s) <=> x <= w /\ w < x + o
    BY <1>9, <1>12, <2>1, <2>2
  <2>4. \A w : w \in x .. (x + o - 1) <=> w \in Warp /\ x <= w /\ w < x + o
    BY <1>5, <1>11 DEF Warp
  <2> QED
    BY <2>1, <2>3, <2>4
<1>14. IsFiniteSet(x .. (x + o - 1)) /\ Cardinality(x .. (x + o - 1)) = o
  <2>1. x \in Int /\ x + o - 1 \in Int /\ x <= (x + o - 1) + 1
    OBVIOUS
  <2>2. IsFiniteSet(x .. (x + o - 1)) /\ Cardinality(x .. (x + o - 1)) = (x + o - 1) - x + 1
    BY <2>1, IntervalCardinality, Zenon
  <2> QED
    BY <2>2
<1>15. o * n = Warps
  BY <1>3, Times
<1> QED
  BY <1>4, <1>13, <1>14, <1>15

-----------------------------------------------------------------------------
(***************************************************************************)
(* Positions.                                                              *)
(***************************************************************************)
\* The layout of the stream does not change during a launch.
SameLayout ==
    /\ Warps' = Warps /\ Tasks' = Tasks /\ First' = First
    /\ Total' = Total
    /\ \A s : TaskOf(s)' = TaskOf(s)
    /\ \A s : GroupOf(s)' = GroupOf(s)
    /\ \A s : ReleaseArrivals(s)' = ReleaseArrivals(s)
    /\ \A i, w, v : PageOf(i, w, v)' = PageOf(i, w, v)
    /\ \A w, s : Drains(w, s)' = Drains(w, s)

LEMMA LayoutKept ==
    ASSUME stream' = stream
    PROVE  SameLayout
<1>1. Warps' = Warps /\ Tasks' = Tasks
  BY DEF Warps, Tasks
<1>2. First' = First
  BY DEF First, Tasks, PagesPerWave, Warps
<1>3. Total' = Total
  BY <1>1, <1>2 DEF Total
<1>4. \A s : TaskOf(s)' = TaskOf(s)
  BY <1>1, <1>2 DEF TaskOf
<1>5. \A s : GroupOf(s)' = GroupOf(s)
  BY <1>1, <1>2, <1>4 DEF GroupOf
<1>6. \A s : ReleaseArrivals(s)' = ReleaseArrivals(s)
  BY <1>1, <1>4 DEF ReleaseArrivals
<1>7. \A i, w, v : PageOf(i, w, v)' = PageOf(i, w, v)
  BY <1>1, <1>2 DEF PageOf, PagesPerWave
<1>8. \A w, s : Drains(w, s)' = Drains(w, s)
  BY <1>1, <1>7 DEF Drains, Wave
<1> QED
  BY <1>1, <1>2, <1>3, <1>4, <1>5, <1>6, <1>7, <1>8 DEF SameLayout

\* The only page of a wave of a body that holds its pages.
LEMMA HoldPage ==
    ASSUME StreamShape, NEW i \in DOMAIN Tasks, Tasks[i].hold, NEW v \in Wave(i), NEW w \in Warp
    PROVE  /\ Tasks[i].group = 1
           /\ First[i] \in Nat /\ v \in Nat
           /\ PageOf(i, w, v) = First[i] + v
<1>1. Tasks[i].group = 1 /\ Tasks[i].owners = Warps /\ Warps \in Nat \ {0}
  BY DEF StreamShape
<1>2. /\ PagesPerWave(Tasks[i]) = 1 /\ Shares(i) \in Nat
      /\ PagesPerWave(Tasks[i]) = Tasks[i].group * Shares(i)
  BY ShareFacts
<1>3. Shares(i) = 1
  BY <1>1, <1>2
<1>4. w \div Tasks[i].owners \in Nat /\ w \div Tasks[i].owners < Shares(i)
  BY PageBounds
<1>5. w \div Tasks[i].owners = 0
  BY <1>3, <1>4
<1>6. PageOf(i, w, v) = First[i] + v * 1 + 0 * 1
  BY <1>1, <1>2, <1>5, PageBounds
<1>7. i \in 1 .. (Len(Tasks) + 1) /\ v \in Nat
  BY DEF StreamShape, Wave
<1>8. First[i] \in Nat
  BY <1>7, FirstGrows
<1> QED
  BY <1>1, <1>6, <1>7, <1>8

\* Where a warp that is still running stands.
Running(w) ==
    /\ at[w].task \in DOMAIN Tasks
    /\ at[w].wave \in Wave(at[w].task)
    /\ at[w].wave \in Nat /\ at[w].page \in Nat
    /\ at[w].page < WarpTask(w).group
    /\ WarpTask(w).group \in 1 .. Pages /\ WarpTask(w).hold \in BOOLEAN
    /\ WarpTask(w).waves \in Nat \ {0}
    /\ Base(w) \in Nat
    /\ Base(w) + WarpTask(w).group <= Total
    /\ WarpTask(w).hold => /\ WarpTask(w).group = 1
                                /\ Base(w) = First[at[w].task] + at[w].wave
                                /\ First[at[w].task] \in Nat

LEMMA RunningFacts ==
    ASSUME StreamShape, RingType, NEW w \in Warp, PlaceOf(w), warpPc[w] # "done"
    PROVE  Running(w)
<1> DEFINE i == at[w].task
           v == at[w].wave
<1>1. i \in DOMAIN Tasks /\ v \in Nat /\ at[w].page \in Nat
         /\ v < Tasks[i].waves /\ at[w].page < Tasks[i].group
  BY DEF RingType, PlaceOf, WarpTask
<1>2. Tasks[i].waves \in Nat \ {0} /\ Tasks[i].group \in 1 .. Pages /\ Tasks[i].hold \in BOOLEAN
  BY <1>1 DEF StreamShape
<1>3. v \in Wave(i)
  BY <1>1, <1>2 DEF Wave
<1>4. Base(w) \in Nat /\ Base(w) + Tasks[i].group <= First[i + 1]
  BY <1>1, <1>3, PageBounds DEF Base
<1>5. First[i + 1] <= Total /\ First[i + 1] \in Nat /\ Total \in Nat /\ First[i] \in Nat
  <2>1. i \in 1 .. (Len(Tasks) + 1) /\ i + 1 \in 1 .. (Len(Tasks) + 1)
           /\ Len(Tasks) + 1 \in 1 .. (Len(Tasks) + 1) /\ i + 1 <= Len(Tasks) + 1
    BY <1>1 DEF StreamShape
  <2> QED
    BY <2>1, FirstMonotone, FirstGrows DEF Total
<1>6. Base(w) + Tasks[i].group <= Total
  BY <1>2, <1>4, <1>5
<1>7. ASSUME Tasks[i].hold
      PROVE  Tasks[i].group = 1 /\ Base(w) = First[i] + v
  BY <1>1, <1>3, <1>7, HoldPage DEF Base
<1> QED
  BY <1>1, <1>2, <1>3, <1>4, <1>5, <1>6, <1>7 DEF Running, WarpTask

LEMMA TotalIsNat ==
    ASSUME StreamShape
    PROVE  Total \in Nat
<1>1. Len(Tasks) + 1 \in 1 .. (Len(Tasks) + 1)
  BY DEF StreamShape
<1> QED
  BY <1>1, FirstGrows DEF Total

LEMMA LowHigh ==
    ASSUME StreamShape, RingType, NEW w \in Warp, PlaceOf(w)
    PROVE  Low(w) \in Nat /\ High(w) \in Nat /\ Low(w) <= High(w) /\ High(w) <= Total
<1>1. Total \in Nat
  BY TotalIsNat
<1>2. CASE warpPc[w] = "done"
  BY <1>1, <1>2 DEF Low, High
<1>3. CASE warpPc[w] # "done"
  <2>1. Running(w)
    BY <1>3, RunningFacts
  <2>2. Pending(w) \in Nat /\ Pending(w) <= Base(w)
    BY <2>1 DEF Pending, Running
  <2>3. warpPc[w] \in {"tag", "full", "read", "release"}
    BY <1>3 DEF RingType
  <2>4. CASE warpPc[w] = "release"
    <3>1. Low(w) = Base(w) + at[w].page /\ High(w) = Base(w) + WarpTask(w).group
      BY <2>4 DEF Low, High
    <3> QED
      BY <1>1, <2>1, <3>1 DEF Running
  <2>5. CASE warpPc[w] = "read"
    <3>1. Low(w) = Pending(w) /\ High(w) = Base(w) + WarpTask(w).group
      BY <2>5 DEF Low, High
    <3> QED
      BY <1>1, <2>1, <2>2, <3>1 DEF Running
  <2>6. CASE warpPc[w] \in {"tag", "full"}
    <3>1. Low(w) = Pending(w) /\ High(w) = Base(w) + at[w].page
      BY <2>6 DEF Low, High
    <3> QED
      BY <1>1, <2>1, <2>2, <3>1 DEF Running
  <2> QED
    BY <2>3, <2>4, <2>5, <2>6
<1> QED
  BY <1>2, <1>3

\* The page a warp is at is one it drains.
LEMMA CursorUsed ==
    ASSUME StreamShape, RingType, NEW w \in Warp, PlaceOf(w), warpPc[w] # "done"
    PROVE  /\ Cursor(w) = Base(w) + at[w].page
           /\ Cursor(w) \in Nat
           /\ Cursor(w) < Total
           /\ Drains(w, Cursor(w))
<1>1. Running(w)
  BY RunningFacts
<1>2. Cursor(w) = Base(w) + at[w].page
  BY DEF Cursor, Base
<1>3. Total \in Nat
  BY TotalIsNat
<1>4. Cursor(w) \in Nat /\ Base(w) <= Cursor(w) /\ Cursor(w) < Base(w) + WarpTask(w).group
  BY <1>1, <1>2 DEF Running
<1>5. Cursor(w) < Total
  BY <1>1, <1>3, <1>4 DEF Running
<1>6. Drains(w, Cursor(w))
  BY <1>1, <1>4 DEF Running, Drains, Base, WarpTask
<1> QED
  BY <1>2, <1>4, <1>5, <1>6

\* A body that holds pages drains every page of its task.
LEMMA HeldUsed ==
    ASSUME StreamShape, RingType, NEW w \in Warp, PlaceOf(w), warpPc[w] # "done",
           WarpTask(w).hold, at[w].wave > 0
    PROVE  Base(w) - 1 \in Nat /\ Drains(w, Base(w) - 1)
<1>1. Running(w)
  BY RunningFacts
<1>2. at[w].wave - 1 \in Wave(at[w].task)
  BY <1>1 DEF Running, Wave, WarpTask
<1>3. PICK b \in Nat : b = PageOf(at[w].task, w, at[w].wave - 1)
  BY <1>1, <1>2, PageBounds DEF Running
<1>4. b = First[at[w].task] + (at[w].wave - 1)
  BY <1>1, <1>2, <1>3, HoldPage DEF Running, WarpTask
<1>5. Base(w) - 1 = b
  BY <1>1, <1>4 DEF Running
<1>6. b <= b /\ b < b + Tasks[at[w].task].group
  BY <1>1, <1>3 DEF Running, WarpTask
<1> QED
  BY <1>1, <1>2, <1>3, <1>5, <1>6 DEF Running, Drains

-----------------------------------------------------------------------------
(***************************************************************************)
(* The loader.                                                             *)
(***************************************************************************)
LEMMA RingShape ==
    ASSUME RingConstants, RingInv
    PROVE  StreamShape /\ RingType /\ Pages \in Nat \ {0}
BY StreamFacts DEF RingInv, RingType, RingConstants

\* A page that has been acquired and not yet released by the ring's own
\* count is the one its slot is tagged with.
LEMMA TaggedPage ==
    ASSUME RingConstants, RingInv, NEW s \in Nat, s < acquired, acquired <= s + Pages
    PROVE  /\ s % Pages \in PageSlot
           /\ generation[s % Pages] = s
           /\ TaggedSlot(s % Pages)
<1> DEFINE p == s % Pages
           g == generation[p]
<1>1. Pages \in Nat \ {0} /\ acquired \in Nat /\ RingType
  BY RingShape DEF RingType
<1>2. p \in PageSlot
  BY <1>1, Division DEF PageSlot
<1>3. g # NoPage
  <2>1. SUFFICES ASSUME g = NoPage PROVE FALSE
    OBVIOUS
  <2>2. acquired <= p
    BY <1>2, <2>1 DEF RingInv, SlotInv, FreeSlot
  <2>3. s < Pages /\ p \in 0 .. (Pages - 1)
    BY <1>1, <1>2, <2>2 DEF PageSlot
  <2>4. s % Pages = s
    <3>1. s \in 0 .. (Pages - 1)
      BY <1>1, <2>3
    <3> QED
      BY <1>1, <3>1, FirstRound
  <2> QED
    BY <1>1, <2>2, <2>4
<1>4. TaggedSlot(p)
  BY <1>2, <1>3 DEF RingInv, SlotInv
<1>5. g \in Nat /\ g % Pages = p /\ g < acquired /\ acquired <= g + Pages
  BY <1>4 DEF TaggedSlot
<1> HIDE DEF g, p
<1>6. g = s
  <2>1. CASE s <= g
    <3>1. g <= s + Pages /\ s % Pages = g % Pages
      BY <1>1, <1>5 DEF p
    <3>2. g = s \/ g = s + Pages
      BY <1>1, <1>5, <2>1, <3>1, SameSlot
    <3> QED
      BY <1>1, <1>5, <3>2
  <2>2. CASE g <= s
    <3>1. s <= g + Pages /\ g % Pages = s % Pages
      BY <1>1, <1>5 DEF p
    <3>2. s = g \/ s = g + Pages
      BY <1>1, <1>5, <2>2, <3>1, SameSlot
    <3> QED
      BY <1>1, <1>5, <3>2
  <2> QED
    BY <1>5, <2>1, <2>2
<1> QED
  BY <1>2, <1>4, <1>6 DEF g, p

LEMMA ReleasedFacts ==
    ASSUME StreamShape, NEW s \in Nat, s < Total
    PROVE  /\ IsFiniteSet(Released(s))
           /\ Cardinality(Released(s)) \in Nat
           /\ Cardinality(Released(s)) <= Cardinality(Users(s))
           /\ Cardinality(Released(s)) = Cardinality(Users(s)) => Released(s) = Users(s)
<1>1. IsFiniteSet(Users(s)) /\ Released(s) \subseteq Users(s)
  BY UserCount DEF Released
<1>2. IsFiniteSet(Released(s)) /\ Cardinality(Released(s)) <= Cardinality(Users(s))
         /\ (Cardinality(Released(s)) = Cardinality(Users(s)) => Released(s) = Users(s))
  BY <1>1, FS_Subset
<1>3. Cardinality(Released(s)) \in Nat
  BY <1>2, FS_CardinalityType
<1> QED
  BY <1>2, <1>3

\* The empty barrier of a slot lets the next page in exactly when every
\* user of the page in it has released that page.
LEMMA EmptyPhases ==
    ASSUME StreamShape, NEW p \in PageSlot, TaggedSlot(p), acquired \in Nat, acquired <= Total,
           PhaseDone(empties[p] \div Warps, (generation[p] \div Pages + 1) % 2)
    PROVE  /\ Released(generation[p]) = Users(generation[p])
           /\ empties[p] = Warps * ((generation[p] \div Pages + 1) + 1)
<1> DEFINE s == generation[p]
<1>1. s \in Nat /\ s < Total
  BY TotalIsNat DEF TaggedSlot
<1>2. PICK q \in Nat : q = s \div Pages + 1
  <2>1. s \div Pages \in Nat
    BY <1>1, Division DEF StreamShape
  <2> QED
    BY <2>1
<1>3. PICK W \in Nat \ {0} : W = Warps
  BY DEF StreamShape
<1>4. PICK n \in Nat : n = Cardinality(Released(s))
  BY <1>1, ReleasedFacts
<1>5. PICK o \in Nat \ {0} : o = Cardinality(Users(s))
  BY <1>1, UserCount
<1>6. PICK r \in Nat \ {0} : r = ReleaseArrivals(s)
  BY <1>1, UserCount
<1>7. o * r = W /\ n <= o /\ (n = o => Released(s) = Users(s))
  BY <1>1, <1>3, <1>4, <1>5, <1>6, UserCount, ReleasedFacts
<1>8. empties[p] = W * q + r * n
  BY <1>2, <1>3, <1>4, <1>6 DEF TaggedSlot
<1>9. n = o
  <2>1. SUFFICES ASSUME n < o PROVE FALSE
    BY <1>7
  <2>2. n * r \in Nat /\ n * r + r <= o * r /\ n * r = r * n
    BY <2>1, Times
  <2>3. PICK x \in 0 .. (W - 1) : x = r * n
    BY <1>6, <1>7, <2>2
  <2>4. empties[p] = q * W + x
    <3>1. W * q = q * W
      BY Times
    <3> QED
      BY <1>8, <2>3, <3>1
  <2>5. empties[p] \div W = q
    BY <2>3, <2>4, DivisionUnique
  <2> QED
    BY <1>2, <1>3, <2>5 DEF PhaseDone
<1>10. empties[p] = W * (q + 1)
  <2>1. r * o = W
    BY <1>7, Times
  <2>2. W * (q + 1) = W * q + W
    BY SMT
  <2> QED
    BY <1>8, <1>9, <2>1, <2>2
<1> QED
  BY <1>2, <1>3, <1>7, <1>9, <1>10

LEMMA PositionsKept ==
    ASSUME SameLayout, NEW w, at'[w] = at[w], warpPc'[w] = warpPc[w]
    PROVE  /\ Low(w)' = Low(w) /\ High(w)' = High(w)
           /\ PlaceOf(w)' = PlaceOf(w)
           /\ Cursor(w)' = Cursor(w)
<1>1. WarpTask(w)' = WarpTask(w)
  BY DEF SameLayout, WarpTask
<1>2. Base(w)' = Base(w)
  BY DEF SameLayout, Base
<1>3. Pending(w)' = Pending(w)
  BY <1>1, <1>2 DEF Pending
<1>4. Low(w)' = Low(w)
  BY <1>2, <1>3 DEF Low, SameLayout
<1>5. High(w)' = High(w)
  BY <1>1, <1>2 DEF High, SameLayout
<1>6. PlaceOf(w)' = PlaceOf(w)
  BY <1>1 DEF PlaceOf, SameLayout, LastWave
<1>7. Cursor(w)' = Cursor(w)
  BY DEF Cursor, SameLayout
<1> QED
  BY <1>4, <1>5, <1>6, <1>7

LEMMA GroupFacts ==
    ASSUME StreamShape, NEW s \in Nat, s < Total
    PROVE  \E from \in Nat : \E g \in 1 .. Pages :
              GroupOf(s) = from .. (from + g - 1) /\ from <= s /\ s < from + g
<1>1. PICK i \in DOMAIN Tasks : i = TaskOf(s) /\ First[i] <= s
  BY TaskOfFacts
<1>2. PICK f \in Nat : f = First[i]
  <2>1. i \in 1 .. (Len(Tasks) + 1)
    BY DEF StreamShape
  <2> QED
    BY <2>1, FirstGrows
<1>3. PICK g \in 1 .. Pages : g = Tasks[i].group
  BY DEF StreamShape
<1>4. g \in Nat \ {0}
  BY <1>3 DEF StreamShape
<1>5. PICK d \in Nat : d = s - f
  BY <1>1, <1>2
<1>6. PICK q \in Nat : q = d \div g
  BY <1>4, Division
<1>7. PICK e \in 0 .. (g - 1) : e = d % g
  BY <1>4, Division
<1>8. d = q * g + e /\ q * g \in Nat
  <2>1. d = (d \div g) * g + (d % g)
    BY <1>4, Division
  <2>2. q * g \in Nat
    BY <1>4, Times
  <2> QED
    BY <1>6, <1>7, <2>1, <2>2
<1> DEFINE from == f + q * g
<1>9. GroupOf(s) = from .. (from + g - 1)
  BY <1>1, <1>2, <1>3, <1>5, <1>6 DEF GroupOf
<1>10. from \in Nat /\ from <= s /\ s < from + g
  BY <1>2, <1>4, <1>5, <1>7, <1>8
<1> HIDE DEF from
<1> QED
  BY <1>3, <1>9, <1>10

\* The loader only starts on a group when the one before is published, so it
\* is never more than a ring ahead of what it has published.
LEMMA AcquiredAhead ==
    ASSUME RingConstants, RingInv, AcquireEmpty
    PROVE  acquired \in Nat /\ acquired < Total /\ acquired + 1 <= published + Pages
<1>1. StreamShape /\ Total \in Nat /\ acquired \in Nat /\ published \in Nat /\ Pages \in Nat \ {0}
  BY RingShape, TotalIsNat DEF RingType
<1>2. acquired < Total
  BY <1>1 DEF AcquireEmpty, Sequence, Total
<1>3. PICK from \in Nat, g \in 1 .. Pages :
         GroupOf(acquired) = from .. (from + g - 1) /\ from <= acquired /\ acquired < from + g
  BY <1>1, <1>2, GroupFacts
<1>4. from <= published
  <2>1. CASE from = 0
    BY <1>1, <2>1
  <2>2. CASE from # 0
    <3>1. from - 1 \in Nat /\ from - 1 < acquired /\ from - 1 < Total /\ from - 1 \notin GroupOf(acquired)
      BY <1>1, <1>2, <1>3, <2>2
    <3>2. from - 1 \in Sequence
      BY <1>1, <3>1 DEF Sequence, Total
    <3>3. from - 1 < published
      BY <3>1, <3>2 DEF AcquireEmpty
    <3> QED
      BY <1>1, <3>3
  <2> QED
    BY <2>1, <2>2
<1> QED
  BY <1>1, <1>2, <1>3, <1>4

\* What the loader finds in the slot it acquires: nothing, or the page of the
\* generation before, loaded, drained by every user, and with its barriers
\* one phase further on.
LEMMA AcquiredSlot ==
    ASSUME RingConstants, RingInv, AcquireEmpty
    PROVE  LET p == acquired % Pages IN
           /\ p \in PageSlot
           /\ ~landing[p] /\ fullPhases[p] = acquired \div Pages
           /\ empties[p] = Warps * (acquired \div Pages + 1)
           /\ \A w \in Warp : \A s \in Nat : generation[p] = s /\ Drains(w, s) => s < Low(w)
<1> DEFINE a == acquired
           p == a % Pages
<1>1. /\ StreamShape /\ RingType /\ Total \in Nat /\ acquired \in Nat /\ published \in Nat
      /\ Pages \in Nat \ {0} /\ Warps \in Nat \ {0} /\ acquired < Total
  BY RingShape, TotalIsNat, AcquiredAhead DEF RingType, StreamShape
<1>2. p \in PageSlot
  BY <1>1, Division DEF PageSlot
<1>3. PhaseDone(empties[p] \div Warps, (a \div Pages) % 2)
  BY DEF AcquireEmpty, EmptyReady, SlotIndex, PagePhase
<1>4. CASE generation[p] = NoPage
  <2>1. FreeSlot(p)
    BY <1>2, <1>4 DEF RingInv, SlotInv
  <2>2. a <= p /\ p \in 0 .. (Pages - 1)
    BY <1>2, <2>1 DEF FreeSlot, PageSlot
  <2>3. a \in 0 .. (Pages - 1)
    BY <1>1, <2>2
  <2>4. a \div Pages = 0
    BY <1>1, <2>3, FirstRound
  <2>5. Warps * (0 + 1) = Warps
    BY <1>1
  <2>6. ~landing[p] /\ fullPhases[p] = 0 /\ empties[p] = Warps
    BY <2>1 DEF FreeSlot
  <2>7. \A s \in Nat : generation[p] # s
    BY <1>4 DEF NoPage
  <2> HIDE DEF p, a
  <2>8. \A w \in Warp : \A s \in Nat : generation[p] = s /\ Drains(w, s) => s < Low(w)
    BY <2>7
  <2>9. empties[p] = Warps * (a \div Pages + 1) /\ fullPhases[p] = a \div Pages
    BY <2>4, <2>5, <2>6
  <2> QED
    BY <1>2, <2>6, <2>8, <2>9 DEF p, a
<1>5. CASE generation[p] # NoPage
  <2> DEFINE s == generation[p]
  <2>1. TaggedSlot(p)
    BY <1>2, <1>5 DEF RingInv, SlotInv
  <2>2. s \in Nat /\ s % Pages = p /\ s < a /\ a <= s + Pages
    BY <2>1 DEF TaggedSlot
  <2>3. a = s + Pages /\ a \div Pages = s \div Pages + 1
    <3>1. s % Pages = a % Pages /\ s <= a /\ s # a
      BY <1>1, <2>2
    <3> HIDE DEF s, p
    <3> QED
      BY <1>1, <2>2, <3>1, SameSlot
  <2>4. PhaseDone(empties[p] \div Warps, (s \div Pages + 1) % 2)
    BY <1>3, <2>3
  <2>5. Released(s) = Users(s) /\ empties[p] = Warps * ((s \div Pages + 1) + 1)
    <3>1. a <= Total
      BY <1>1
    <3> QED
      BY <1>1, <1>2, <2>1, <2>4, <3>1, EmptyPhases
  <2>6. \A w \in Warp : Drains(w, s) => s < Low(w)
    BY <2>5 DEF Users, Released
  <2>7. s < Total
    BY <1>1, <2>2
  <2>8. PICK w \in Warp : Drains(w, s)
    <3>1. Cardinality(Users(s)) # 0
      BY <1>1, <2>2, <2>7, UserCount
    <3>2. Users(s) # {}
      BY <3>1, FS_EmptySet
    <3> QED
      BY <3>2 DEF Users
  <2>9. s < High(w)
    <3>1. PlaceOf(w)
      BY <2>8 DEF RingInv, WarpInv
    <3>2. Low(w) \in Nat /\ High(w) \in Nat /\ Low(w) <= High(w)
      BY <1>1, <2>8, <3>1, LowHigh
    <3> QED
      BY <2>2, <2>6, <2>8, <3>2
  <2>10. s < published /\ ~landing[p]
    <3>1. s % Pages = p /\ generation[p] = s
      BY <2>2
    <3>2. \A u \in Nat : Drains(w, u) /\ u < High(w) =>
              /\ u < published
              /\ generation[u % Pages] = u => ~landing[u % Pages]
      BY <2>8 DEF RingInv, WarpInv
    <3> QED
      BY <2>2, <2>8, <2>9, <3>1, <3>2
  <2>11. fullPhases[p] = s \div Pages + 1
    BY <2>1, <2>10 DEF TaggedSlot
  <2> HIDE DEF a, p
  <2> QED
    BY <1>2, <2>3, <2>5, <2>6, <2>10, <2>11 DEF a, p
<1> QED
  BY <1>4, <1>5

LEMMA NextRound ==
    ASSUME NEW k \in Nat \ {0}, NEW s \in Nat
    PROVE  (s + k) % k = s % k
<1>1. PICK q \in Nat : q = s \div k
  BY Division
<1>2. PICK r \in 0 .. (k - 1) : r = s % k
  BY Division
<1>3. s = q * k + r /\ q * k \in Nat /\ (q + 1) * k = q * k + k
  BY <1>1, <1>2, Division, Times
<1>4. s + k = (q + 1) * k + r
  BY <1>3
<1>5. ((q + 1) * k + r) % k = r
  BY DivisionUnique
<1> QED
  BY <1>2, <1>4, <1>5

LEMMA AcquireInv == ASSUME RingConstants, RingInv, AcquireEmpty PROVE RingInv'
<1>0. PICK a \in Nat : a = acquired
  BY RingShape DEF RingType
<1> DEFINE p == a % Pages
<1>1. /\ StreamShape /\ RingType /\ Total \in Nat /\ acquired \in Nat /\ published \in Nat
      /\ Pages \in Nat \ {0} /\ Warps \in Nat \ {0} /\ a < Total /\ a + 1 <= published + Pages
  BY <1>0, RingShape, TotalIsNat, AcquiredAhead DEF RingType, StreamShape
<1>2. SameLayout
  BY LayoutKept DEF AcquireEmpty
<1>3. /\ p \in PageSlot
      /\ ~landing[p] /\ fullPhases[p] = a \div Pages
      /\ empties[p] = Warps * (a \div Pages + 1)
      /\ \A w \in Warp : \A s \in Nat : generation[p] = s /\ Drains(w, s) => s < Low(w)
  BY <1>0, AcquiredSlot
<1>4. /\ stream' = stream /\ acquired' = a + 1 /\ published' = published
      /\ generation' = [generation EXCEPT ![p] = a]
      /\ content' = [content EXCEPT ![p] = NoPage]
      /\ landing' = landing /\ fullPhases' = fullPhases /\ empties' = empties
      /\ at' = at /\ warpPc' = warpPc
  BY <1>0 DEF AcquireEmpty, SlotIndex
<1>5. PageSlot' = PageSlot /\ Warp' = Warp
  BY <1>2 DEF PageSlot, Warp, SameLayout
<1> HIDE DEF p
<1>6. a \in Nat /\ a = acquired /\ p = a % Pages
  BY <1>0 DEF p
<1>7. RingType'
  <2>1. generation' \in [PageSlot -> Int] /\ content' \in [PageSlot -> Int]
    <3>1. generation \in [PageSlot -> Int] /\ content \in [PageSlot -> Int]
      BY <1>1 DEF RingType
    <3>2. a \in Int /\ NoPage \in Int
      BY DEF NoPage
    <3>3. generation' = [generation EXCEPT ![p] = a] /\ content' = [content EXCEPT ![p] = NoPage]
      BY <1>4
    <3> QED
      BY <3>1, <3>2, <3>3
  <2>2. stream' \in Streams /\ acquired' \in Nat /\ published' \in Nat
           /\ landing' \in [PageSlot -> BOOLEAN] /\ fullPhases' \in [PageSlot -> Nat] /\ empties' \in [PageSlot -> Nat]
           /\ at' \in [Warp -> [task : Nat, wave : Nat, page : Nat]]
           /\ warpPc' \in [Warp -> {"tag", "full", "read", "release", "done"}]
    BY <1>1, <1>4, <1>6 DEF RingType
  <2> QED
    BY <1>5, <2>1, <2>2 DEF RingType
<1>8. LoaderInv'
  <2>1. published <= acquired
    BY DEF RingInv, LoaderInv
  <2> QED
    BY <1>1, <1>2, <1>4, <1>6, <2>1 DEF LoaderInv, SameLayout
<1>9. \A w : Low(w)' = Low(w) /\ High(w)' = High(w) /\ PlaceOf(w)' = PlaceOf(w) /\ Cursor(w)' = Cursor(w)
  BY <1>2, <1>4, PositionsKept
<1>10. \A s : Released(s)' = Released(s)
  BY <1>2, <1>5, <1>9 DEF Released, Users, SameLayout
<1>11. ASSUME NEW w \in Warp
       PROVE  /\ PlaceOf(w)
              /\ Low(w) \in Nat /\ High(w) \in Nat /\ Low(w) <= High(w)
              /\ \A s \in Nat : Drains(w, s) /\ s < High(w) =>
                    /\ s < published
                    /\ generation[s % Pages] = s => ~landing[s % Pages]
                    /\ s < Low(w) \/ generation[s % Pages] = s
              /\ warpPc[w] = "full" => TagMatches(w)
  <2>1. PlaceOf(w)
    BY DEF RingInv, WarpInv
  <2> QED
    BY <1>1, <2>1, LowHigh DEF RingInv, WarpInv
<1>12. Released(a) = {}
  <2>1. SUFFICES ASSUME NEW w \in Warp, Drains(w, a), a < Low(w)
                 PROVE  FALSE
    BY DEF Released, Users
  <2>2. a < High(w)
    BY <1>6, <1>11, <2>1
  <2>3. a < published
    BY <1>6, <1>11, <2>1, <2>2
  <2>4. published <= a
    BY <1>6 DEF RingInv, LoaderInv
  <2> QED
    BY <1>1, <1>6, <2>3, <2>4
<1>13. SlotInv'
  <2>1. SUFFICES ASSUME NEW q \in PageSlot
                 PROVE  IF generation'[q] = NoPage THEN FreeSlot(q)' ELSE TaggedSlot(q)'
    BY <1>5 DEF SlotInv
  <2>2. CASE q = p
    <3>1. generation'[p] = a /\ a # NoPage
      BY <1>1, <1>3, <1>4, <1>6 DEF RingType, NoPage
    <3>2. ReleaseArrivals(a) \in Nat
      BY <1>1, <1>6, UserCount
    <3>3. Cardinality({}) = 0
      BY FS_EmptySet
    <3>4. ReleaseArrivals(a) * 0 = 0
      BY <3>2
    <3>5. Warps * (a \div Pages + 1) \in Nat
      <4>1. a \div Pages + 1 \in Nat
        BY <1>1, <1>6, Division
      <4> QED
        BY <1>1, <4>1, Times
    <3>6. empties'[p] = Warps' * (a \div Pages + 1)
                          + ReleaseArrivals(a)' * Cardinality(Released(a)')
      <4>1. empties[p] = Warps * (a \div Pages + 1) + ReleaseArrivals(a) * Cardinality(Released(a))
        BY <1>3, <1>12, <3>3, <3>4, <3>5
      <4>2. Warps' = Warps /\ ReleaseArrivals(a)' = ReleaseArrivals(a)
        BY <1>2 DEF SameLayout
      <4> QED
        BY <1>4, <1>10, <4>1, <4>2, Zenon
    <3>7. a < acquired' /\ acquired' <= a + Pages /\ ~(a < published')
      <4>1. published <= a
        BY <1>6 DEF RingInv, LoaderInv
      <4> QED
        BY <1>1, <1>4, <1>6, <4>1
    <3>8. ~landing'[p] /\ fullPhases'[p] = a \div Pages
      BY <1>3, <1>4
    <3>9. TaggedSlot(p)'
      BY <1>6, <3>1, <3>6, <3>7, <3>8 DEF TaggedSlot
    <3> QED
      BY <2>2, <3>1, <3>9
  <2>3. CASE q # p
    <3>1. generation'[q] = generation[q] /\ content'[q] = content[q]
      BY <1>1, <1>4, <2>3 DEF RingType
    <3>2. CASE generation[q] = NoPage
      <4>1. FreeSlot(q)
        BY <3>2 DEF RingInv, SlotInv
      <4>2. q \in 0 .. (Pages - 1) /\ a <= q
        BY <1>6, <4>1 DEF FreeSlot, PageSlot
      <4>3. a # q
        <5>1. SUFFICES ASSUME a = q PROVE FALSE
          OBVIOUS
        <5>2. a % Pages = a
          BY <1>1, <4>2, <5>1, FirstRound
        <5> QED
          BY <1>6, <2>3, <5>1, <5>2
      <4>4. acquired' <= q
        BY <1>1, <1>4, <1>6, <4>2, <4>3
      <4>5. FreeSlot(q)'
        BY <1>2, <1>4, <4>1, <4>4 DEF FreeSlot, SameLayout
      <4> QED
        BY <3>1, <3>2, <4>5
    <3>3. CASE generation[q] # NoPage
      <4>1. TaggedSlot(q)
        BY <3>3 DEF RingInv, SlotInv
      <4>9. PICK s \in Nat : s = generation[q]
        BY <4>1 DEF TaggedSlot
      <4>2. s \in Nat /\ s % Pages = q /\ s < a /\ a <= s + Pages
        BY <1>6, <4>1, <4>9 DEF TaggedSlot
      <4>3. a # s + Pages
        <5>1. (s + Pages) % Pages = s % Pages
          BY <1>1, <4>2, NextRound
        <5> QED
          BY <1>6, <2>3, <4>2, <5>1
      <4>4. s < acquired' /\ acquired' <= s + Pages
        BY <1>1, <1>4, <1>6, <4>2, <4>3
      <4>5. ReleaseArrivals(s)' = ReleaseArrivals(s) /\ Warps' = Warps
        BY <1>2 DEF SameLayout
      <4>6. Released(s)' = Released(s)
        BY <1>10
      <4>7. generation'[q] = s
        BY <3>1, <4>9
      <4>8. TaggedSlot(q)'
        BY <1>4, <3>1, <4>1, <4>2, <4>4, <4>5, <4>6, <4>7, <4>9 DEF TaggedSlot
      <4> QED
        BY <3>1, <3>3, <4>8
    <3> QED
      BY <3>2, <3>3
  <2> QED
    BY <2>2, <2>3
<1>14. WarpInv'
  <2>1. SUFFICES ASSUME NEW w \in Warp
                 PROVE  /\ PlaceOf(w)'
                        /\ \A s \in Nat : Drains(w, s)' /\ s < High(w)' =>
                              /\ s < published'
                              /\ generation'[s % Pages] = s => ~landing'[s % Pages]
                              /\ s < Low(w)' \/ generation'[s % Pages] = s
                        /\ warpPc'[w] = "full" => TagMatches(w)'
    BY <1>5 DEF WarpInv
  <2>2. PlaceOf(w)'
    BY <1>9, <1>11
  <2>3. ASSUME NEW s \in Nat, Drains(w, s)', s < High(w)'
        PROVE  /\ s < published'
               /\ generation'[s % Pages] = s => ~landing'[s % Pages]
               /\ s < Low(w)' \/ generation'[s % Pages] = s
    <3>1. Drains(w, s) /\ s < High(w)
      BY <1>2, <1>9, <2>3 DEF SameLayout
    <3>2. /\ s < published
          /\ generation[s % Pages] = s => ~landing[s % Pages]
          /\ s < Low(w) \/ generation[s % Pages] = s
      BY <1>11, <3>1
    <3>3. s # a
      <4>1. published <= a
        BY <1>6 DEF RingInv, LoaderInv
      <4> QED
        BY <1>1, <1>6, <3>2, <4>1
    <3>4. s % Pages \in PageSlot
      BY <1>1, Division DEF PageSlot
    <3>5. CASE s % Pages = p
      <4>1. generation'[p] = a /\ ~landing'[p]
        BY <1>1, <1>3, <1>4 DEF RingType
      <4>2. s < Low(w)
        <5>1. SUFFICES ASSUME ~(s < Low(w)) PROVE FALSE
          OBVIOUS
        <5>2. generation[p] = s
          BY <3>2, <3>5, <5>1
        <5>3. s < Low(w)
          BY <1>3, <3>1, <5>2
        <5> QED
          BY <1>11, <5>1, <5>3
      <4> QED
        BY <1>4, <1>9, <3>2, <3>5, <4>1, <4>2
    <3>6. CASE s % Pages # p
      <4>1. generation'[s % Pages] = generation[s % Pages]
        BY <1>1, <1>4, <3>4, <3>6 DEF RingType
      <4> QED
        BY <1>4, <1>9, <3>2, <4>1
    <3> QED
      BY <3>5, <3>6
  <2>4. ASSUME warpPc'[w] = "full"
        PROVE  TagMatches(w)'
    <3>1. warpPc[w] = "full" /\ warpPc[w] # "done"
      BY <1>4, <2>4
    <3>9. PICK c \in Nat : c = Cursor(w) /\ Drains(w, c) /\ c = Base(w) + at[w].page
      BY <1>1, <1>11, <3>1, CursorUsed
    <3>2. generation[c % Pages] = c
      BY <1>11, <3>1, <3>9 DEF TagMatches, SlotIndex
    <3>3. c \in Nat /\ Drains(w, c) /\ c = Base(w) + at[w].page
      BY <3>9
    <3>4. High(w) = c
      BY <3>1, <3>3 DEF High
    <3>5. c % Pages # p
      <4>1. SUFFICES ASSUME c % Pages = p PROVE FALSE
        OBVIOUS
      <4>2. c < Low(w)
        BY <1>3, <3>2, <3>3, <4>1
      <4> QED
        BY <1>11, <3>3, <3>4, <4>2
    <3>6. c % Pages \in PageSlot
      BY <1>1, <3>3, Division DEF PageSlot
    <3>7. generation'[c % Pages] = c
      BY <1>1, <1>4, <3>2, <3>5, <3>6 DEF RingType
    <3>8. Cursor(w)' = c
      BY <1>9, <3>9
    <3> QED
      BY <3>7, <3>8 DEF TagMatches, SlotIndex
  <2> QED
    BY <2>2, <2>3, <2>4
<1> QED
  BY <1>7, <1>8, <1>13, <1>14 DEF RingInv

\* A page in flight: its slot holds it until it lands.
LEMMA PublishInv == ASSUME RingConstants, RingInv, Publish PROVE RingInv'
<1>0. PICK b \in Nat : b = published
  BY RingShape DEF RingType
<1> DEFINE p == b % Pages
<1>1. /\ StreamShape /\ RingType /\ Total \in Nat /\ acquired \in Nat
      /\ Pages \in Nat \ {0} /\ Warps \in Nat \ {0} /\ b < Total
  BY <1>0, RingShape, TotalIsNat DEF RingType, StreamShape, Publish, Sequence, Total
<1>2. SameLayout
  BY LayoutKept DEF Publish
<1>3. b < acquired
  <2>1. b \in GroupOf(b)
    <3>1. PICK from \in Nat, g \in 1 .. Pages :
             GroupOf(b) = from .. (from + g - 1) /\ from <= b /\ b < from + g
      BY <1>1, GroupFacts
    <3> QED
      BY <1>1, <3>1
  <2> QED
    BY <1>0, <2>1 DEF Publish
<1>4. /\ stream' = stream /\ acquired' = acquired /\ published' = b + 1
      /\ landing' = [landing EXCEPT ![p] = TRUE]
      /\ generation' = generation
      /\ content' = content /\ fullPhases' = fullPhases /\ empties' = empties
      /\ at' = at /\ warpPc' = warpPc
  BY <1>0 DEF Publish, SlotIndex
<1>5. PageSlot' = PageSlot /\ Warp' = Warp
  BY <1>2 DEF PageSlot, Warp, SameLayout
<1>6. p \in PageSlot /\ generation[p] = b /\ TaggedSlot(p)
  <2>1. acquired <= b + Pages
    BY <1>0 DEF RingInv, LoaderInv
  <2> QED
    BY <1>3, <2>1, TaggedPage
<1> HIDE DEF p
<1>7. p = b % Pages
  BY DEF p
<1>8. ~landing[p] /\ fullPhases[p] = b \div Pages
  BY <1>0, <1>1, <1>6 DEF TaggedSlot
<1>9. RingType'
  <2>1. landing' \in [PageSlot -> BOOLEAN]
    BY <1>1, <1>4 DEF RingType
  <2>2. stream' \in Streams /\ acquired' \in Nat /\ published' \in Nat
           /\ generation' \in [PageSlot -> Int] /\ content' \in [PageSlot -> Int]
           /\ fullPhases' \in [PageSlot -> Nat] /\ empties' \in [PageSlot -> Nat]
           /\ at' \in [Warp -> [task : Nat, wave : Nat, page : Nat]]
           /\ warpPc' \in [Warp -> {"tag", "full", "read", "release", "done"}]
    BY <1>1, <1>4 DEF RingType
  <2> QED
    BY <1>5, <2>1, <2>2 DEF RingType
<1>10. LoaderInv'
  <2>1. acquired <= Total /\ acquired <= b + Pages
    BY <1>0 DEF RingInv, LoaderInv
  <2> QED
    BY <1>1, <1>2, <1>3, <1>4, <2>1 DEF LoaderInv, SameLayout
<1>11. \A w : Low(w)' = Low(w) /\ High(w)' = High(w) /\ PlaceOf(w)' = PlaceOf(w) /\ Cursor(w)' = Cursor(w)
  BY <1>2, <1>4, PositionsKept
<1>12. \A s : Released(s)' = Released(s)
  BY <1>2, <1>5, <1>11 DEF Released, Users, SameLayout
<1>13. SlotInv'
  <2>1. SUFFICES ASSUME NEW q \in PageSlot
                 PROVE  IF generation'[q] = NoPage THEN FreeSlot(q)' ELSE TaggedSlot(q)'
    BY <1>5 DEF SlotInv
  <2>2. CASE generation[q] = NoPage
    <3>1. FreeSlot(q) /\ q # p
      BY <1>6, <2>2 DEF RingInv, SlotInv, NoPage
    <3>2. landing'[q] = landing[q]
      BY <1>1, <1>4, <3>1 DEF RingType
    <3>3. FreeSlot(q)'
      BY <1>2, <1>4, <3>1, <3>2 DEF FreeSlot, SameLayout
    <3> QED
      BY <1>4, <2>2, <3>3
  <2>3. CASE generation[q] # NoPage
    <3>1. TaggedSlot(q)
      BY <2>3 DEF RingInv, SlotInv
    <3>2. PICK s \in Nat : s = generation[q]
      BY <3>1 DEF TaggedSlot
    <3>3. ReleaseArrivals(s)' = ReleaseArrivals(s) /\ Warps' = Warps /\ Released(s)' = Released(s)
      BY <1>2, <1>12 DEF SameLayout
    <3>4. generation'[q] = s
      BY <1>4, <3>2
    <3>5. empties'[q] = Warps' * (s \div Pages + 1) + ReleaseArrivals(s)' * Cardinality(Released(s)')
      <4>1. empties[q] = Warps * (s \div Pages + 1) + ReleaseArrivals(s) * Cardinality(Released(s))
        BY <3>1, <3>2 DEF TaggedSlot
      <4> QED
        BY <1>4, <3>3, <4>1, Zenon
    <3>6. s % Pages = q /\ s < acquired /\ acquired <= s + Pages
      BY <3>1, <3>2 DEF TaggedSlot
    <3>7. CASE q = p
      <4>1. s = b /\ landing'[q] /\ fullPhases'[q] = s \div Pages /\ s < published'
        BY <1>1, <1>4, <1>6, <1>8, <3>2, <3>7 DEF RingType
      <4>2. TaggedSlot(q)'
        BY <1>1, <1>4, <3>4, <3>5, <3>6, <4>1 DEF TaggedSlot
      <4> QED
        BY <2>3, <3>2, <3>4, <4>2
    <3>8. CASE q # p
      <4>1. landing'[q] = landing[q]
        BY <1>1, <1>4, <3>8 DEF RingType
      <4>2. s # b
        BY <1>7, <3>6, <3>8
      <4>3. s < published' <=> s < published
        BY <1>0, <1>4, <4>2
      <4>4. /\ s >= published => ~landing[q] /\ fullPhases[q] = s \div Pages
            /\ landing[q] => fullPhases[q] = s \div Pages
            /\ s < published /\ ~landing[q] => fullPhases[q] = s \div Pages + 1 /\ content[q] = s
        BY <3>1, <3>2 DEF TaggedSlot
      <4>5. s >= published' => s >= published
        BY <1>0, <1>4
      <4>6. TaggedSlot(q)'
        BY <1>4, <3>4, <3>5, <3>6, <4>1, <4>3, <4>4, <4>5 DEF TaggedSlot
      <4> QED
        BY <2>3, <3>2, <3>4, <4>6
    <3> QED
      BY <3>7, <3>8
  <2> QED
    BY <2>2, <2>3
<1>14. WarpInv'
  <2>1. SUFFICES ASSUME NEW w \in Warp
                 PROVE  /\ PlaceOf(w)'
                        /\ \A s \in Nat : Drains(w, s)' /\ s < High(w)' =>
                              /\ s < published'
                              /\ generation'[s % Pages] = s => ~landing'[s % Pages]
                              /\ s < Low(w)' \/ generation'[s % Pages] = s
                        /\ warpPc'[w] = "full" => TagMatches(w)'
    BY <1>5 DEF WarpInv
  <2>2. /\ PlaceOf(w)
        /\ \A s \in Nat : Drains(w, s) /\ s < High(w) =>
                    /\ s < published
                    /\ generation[s % Pages] = s => ~landing[s % Pages]
                    /\ s < Low(w) \/ generation[s % Pages] = s
        /\ warpPc[w] = "full" => TagMatches(w)
    BY DEF RingInv, WarpInv
  <2>3. ASSUME NEW s \in Nat, Drains(w, s)', s < High(w)'
        PROVE  /\ s < published'
               /\ generation'[s % Pages] = s => ~landing'[s % Pages]
               /\ s < Low(w)' \/ generation'[s % Pages] = s
    <3>1. Drains(w, s) /\ s < High(w)
      BY <1>2, <1>11, <2>3 DEF SameLayout
    <3>2. /\ s < published
          /\ generation[s % Pages] = s => ~landing[s % Pages]
          /\ s < Low(w) \/ generation[s % Pages] = s
      BY <2>2, <3>1
    <3>3. s % Pages \in PageSlot
      BY <1>1, Division DEF PageSlot
    <3>4. generation[s % Pages] = s => s % Pages # p
      BY <1>0, <1>6, <3>2
    <3>5. generation[s % Pages] = s => landing'[s % Pages] = landing[s % Pages]
      BY <1>1, <1>4, <3>3, <3>4 DEF RingType
    <3>6. s < published'
      BY <1>0, <1>4, <3>2
    <3> QED
      BY <1>4, <1>11, <3>2, <3>5, <3>6
  <2>4. warpPc'[w] = "full" => TagMatches(w)'
    BY <1>4, <1>11, <2>2 DEF TagMatches, SlotIndex
  <2>5. PlaceOf(w)'
    BY <1>11, <2>2
  <2> QED
    BY <2>3, <2>4, <2>5
<1> QED
  BY <1>9, <1>10, <1>13, <1>14 DEF RingInv

LEMMA LandInv == ASSUME RingConstants, RingInv, NEW p \in PageSlot, LandPage(p) PROVE RingInv'
<1>1. /\ StreamShape /\ RingType /\ Total \in Nat /\ acquired \in Nat /\ published \in Nat
      /\ Pages \in Nat \ {0} /\ Warps \in Nat \ {0}
  BY RingShape, TotalIsNat DEF RingType, StreamShape
<1>2. SameLayout
  BY LayoutKept DEF LandPage
<1>3. /\ landing[p]
      /\ stream' = stream /\ acquired' = acquired /\ published' = published
      /\ landing' = [landing EXCEPT ![p] = FALSE]
      /\ content' = [content EXCEPT ![p] = generation[p]]
      /\ fullPhases' = [fullPhases EXCEPT ![p] = @ + 1]
      /\ generation' = generation /\ empties' = empties
      /\ at' = at /\ warpPc' = warpPc
  BY DEF LandPage, loaderVars
<1>4. PageSlot' = PageSlot /\ Warp' = Warp
  BY <1>2 DEF PageSlot, Warp, SameLayout
<1>5. RingType'
  <2>1. /\ landing \in [PageSlot -> BOOLEAN] /\ content \in [PageSlot -> Int]
        /\ fullPhases \in [PageSlot -> Nat] /\ generation[p] \in Int /\ fullPhases[p] + 1 \in Nat
    BY <1>1 DEF RingType
  <2>2. landing' \in [PageSlot -> BOOLEAN] /\ content' \in [PageSlot -> Int] /\ fullPhases' \in [PageSlot -> Nat]
    BY <1>3, <2>1
  <2>3. stream' \in Streams /\ acquired' \in Nat /\ published' \in Nat
           /\ generation' \in [PageSlot -> Int] /\ empties' \in [PageSlot -> Nat]
           /\ at' \in [Warp -> [task : Nat, wave : Nat, page : Nat]]
           /\ warpPc' \in [Warp -> {"tag", "full", "read", "release", "done"}]
    BY <1>1, <1>3 DEF RingType
  <2> QED
    BY <1>4, <2>2, <2>3 DEF RingType
<1>6. LoaderInv'
  BY <1>2, <1>3 DEF RingInv, LoaderInv, SameLayout
<1>7. \A w : Low(w)' = Low(w) /\ High(w)' = High(w) /\ PlaceOf(w)' = PlaceOf(w) /\ Cursor(w)' = Cursor(w)
  BY <1>2, <1>3, PositionsKept
<1>8. \A s : Released(s)' = Released(s)
  BY <1>2, <1>4, <1>7 DEF Released, Users, SameLayout
<1>9. SlotInv'
  <2>1. SUFFICES ASSUME NEW q \in PageSlot
                 PROVE  IF generation'[q] = NoPage THEN FreeSlot(q)' ELSE TaggedSlot(q)'
    BY <1>4 DEF SlotInv
  <2>2. q # p => landing'[q] = landing[q] /\ content'[q] = content[q] /\ fullPhases'[q] = fullPhases[q]
    BY <1>1, <1>3 DEF RingType
  <2>3. CASE generation[q] = NoPage
    <3>1. FreeSlot(q) /\ q # p
      BY <1>3, <2>3 DEF RingInv, SlotInv, FreeSlot
    <3>2. FreeSlot(q)'
      BY <1>2, <1>3, <2>2, <3>1 DEF FreeSlot, SameLayout
    <3> QED
      BY <1>3, <2>3, <3>2
  <2>4. CASE generation[q] # NoPage
    <3>1. TaggedSlot(q)
      BY <2>4 DEF RingInv, SlotInv
    <3>2. PICK s \in Nat : s = generation[q]
      BY <3>1 DEF TaggedSlot
    <3>3. ReleaseArrivals(s)' = ReleaseArrivals(s) /\ Warps' = Warps /\ Released(s)' = Released(s)
      BY <1>2, <1>8 DEF SameLayout
    <3>4. generation'[q] = s
      BY <1>3, <3>2
    <3>5. empties'[q] = Warps' * (s \div Pages + 1) + ReleaseArrivals(s)' * Cardinality(Released(s)')
      <4>1. empties[q] = Warps * (s \div Pages + 1) + ReleaseArrivals(s) * Cardinality(Released(s))
        BY <3>1, <3>2 DEF TaggedSlot
      <4> QED
        BY <1>3, <3>3, <4>1, Zenon
    <3>6. s % Pages = q /\ s < acquired /\ acquired <= s + Pages
      BY <3>1, <3>2 DEF TaggedSlot
    <3>7. /\ s >= published => ~landing[q] /\ fullPhases[q] = s \div Pages
          /\ landing[q] => fullPhases[q] = s \div Pages
          /\ s < published /\ ~landing[q] => fullPhases[q] = s \div Pages + 1 /\ content[q] = s
      BY <3>1, <3>2 DEF TaggedSlot
    <3>8. CASE q = p
      <4>1. s < published /\ fullPhases[q] = s \div Pages
        BY <1>1, <1>3, <3>7, <3>8
      <4>2. ~landing'[q] /\ content'[q] = s /\ fullPhases'[q] = s \div Pages + 1
        BY <1>1, <1>3, <3>2, <3>8, <4>1 DEF RingType
      <4>3. TaggedSlot(q)'
        BY <1>1, <1>3, <3>4, <3>5, <3>6, <4>1, <4>2 DEF TaggedSlot
      <4> QED
        BY <2>4, <3>2, <3>4, <4>3
    <3>9. CASE q # p
      <4>1. TaggedSlot(q)'
        BY <1>3, <2>2, <3>4, <3>5, <3>6, <3>7, <3>9 DEF TaggedSlot
      <4> QED
        BY <2>4, <3>2, <3>4, <4>1
    <3> QED
      BY <3>8, <3>9
  <2> QED
    BY <2>3, <2>4
<1>10. WarpInv'
  <2>1. SUFFICES ASSUME NEW w \in Warp
                 PROVE  /\ PlaceOf(w)'
                        /\ \A s \in Nat : Drains(w, s)' /\ s < High(w)' =>
                              /\ s < published'
                              /\ generation'[s % Pages] = s => ~landing'[s % Pages]
                              /\ s < Low(w)' \/ generation'[s % Pages] = s
                        /\ warpPc'[w] = "full" => TagMatches(w)'
    BY <1>4 DEF WarpInv
  <2>2. /\ PlaceOf(w)
        /\ \A s \in Nat : Drains(w, s) /\ s < High(w) =>
                    /\ s < published
                    /\ generation[s % Pages] = s => ~landing[s % Pages]
                    /\ s < Low(w) \/ generation[s % Pages] = s
        /\ warpPc[w] = "full" => TagMatches(w)
    BY DEF RingInv, WarpInv
  <2>3. \A q \in PageSlot : ~landing[q] => ~landing'[q]
    BY <1>1, <1>3 DEF RingType
  <2>4. \A s \in Nat : s % Pages \in PageSlot
    BY <1>1, Division DEF PageSlot
  <2>5. \A s \in Nat : Drains(w, s)' = Drains(w, s)
    BY <1>2 DEF SameLayout
  <2>6. warpPc'[w] = "full" => TagMatches(w)'
    BY <1>3, <1>7, <2>2 DEF TagMatches, SlotIndex
  <2> QED
    BY <1>3, <1>7, <2>2, <2>3, <2>4, <2>5, <2>6
<1> QED
  BY <1>5, <1>6, <1>9, <1>10 DEF RingInv

-----------------------------------------------------------------------------
(***************************************************************************)
(* The compute warps.  A warp's step waits for a page (High moves), gives  *)
(* one back (Low moves, its arrival at the empty barrier), or only moves   *)
(* on; WarpMoves is the part all of these share.                           *)
(***************************************************************************)
Aside(w) ==
    /\ stream' = stream /\ acquired' = acquired /\ published' = published
    /\ generation' = generation /\ landing' = landing /\ content' = content
    /\ fullPhases' = fullPhases
    /\ at' \in [Warp -> [task : Nat, wave : Nat, page : Nat]]
    /\ warpPc' \in [Warp -> {"tag", "full", "read", "release", "done"}]
    /\ \A u \in Warp : u # w => at'[u] = at[u] /\ warpPc'[u] = warpPc[u]

Reaches(w) ==
    /\ PlaceOf(w)'
    /\ warpPc'[w] = "full" => TagMatches(w)'
    /\ \A s \in Nat : Drains(w, s) /\ s < High(w)' =>
          \/ s < High(w)
          \/ s < published /\ generation[s % Pages] = s /\ ~landing[s % Pages]

Keeps(w) ==
    /\ empties' = empties
    /\ \A s \in Nat : Drains(w, s) => (s < Low(w)' <=> s < Low(w))

Frees(w, c) ==
    /\ Drains(w, c) /\ Low(w) <= c /\ c < High(w)
    /\ empties' = [empties EXCEPT ![c % Pages] = @ + ReleaseArrivals(c)]
    /\ \A s \in Nat : Drains(w, s) => (s < Low(w)' <=> s < Low(w) \/ s = c)

LEMMA WarpMoves ==
    ASSUME RingConstants, RingInv, NEW w \in Warp,
           Aside(w), Reaches(w), Keeps(w) \/ \E c \in Nat : Frees(w, c)
    PROVE  RingInv'
<1>1. /\ StreamShape /\ RingType /\ Total \in Nat /\ acquired \in Nat /\ published \in Nat
      /\ Pages \in Nat \ {0} /\ Warps \in Nat \ {0} /\ acquired <= Total
  BY RingShape, TotalIsNat DEF RingType, StreamShape, RingInv, LoaderInv
<1>2. SameLayout
  BY LayoutKept DEF Aside
<1>3. /\ stream' = stream /\ acquired' = acquired /\ published' = published
      /\ generation' = generation /\ landing' = landing /\ content' = content
      /\ fullPhases' = fullPhases
  BY DEF Aside
<1>4. PageSlot' = PageSlot /\ Warp' = Warp
  BY <1>2 DEF PageSlot, Warp, SameLayout
<1>5. ASSUME NEW u \in Warp
      PROVE  /\ PlaceOf(u)
             /\ Low(u) \in Nat /\ High(u) \in Nat /\ Low(u) <= High(u)
             /\ \A s \in Nat : Drains(u, s) /\ s < High(u) =>
                   /\ s < published
                   /\ generation[s % Pages] = s => ~landing[s % Pages]
                   /\ s < Low(u) \/ generation[s % Pages] = s
             /\ warpPc[u] = "full" => TagMatches(u)
  <2>1. PlaceOf(u)
    BY DEF RingInv, WarpInv
  <2> QED
    BY <1>1, <2>1, LowHigh DEF RingInv, WarpInv
<1>6. ASSUME NEW u \in Warp, u # w
      PROVE  Low(u)' = Low(u) /\ High(u)' = High(u) /\ PlaceOf(u)' = PlaceOf(u) /\ Cursor(u)' = Cursor(u)
  <2>1. at'[u] = at[u] /\ warpPc'[u] = warpPc[u]
    BY <1>6 DEF Aside
  <2> QED
    BY <1>2, <2>1, PositionsKept
<1>7. \A c \in Nat : c % Pages \in PageSlot
  BY <1>1, Division DEF PageSlot
<1>8. \A u, s : Drains(u, s)' = Drains(u, s)
  BY <1>2 DEF SameLayout
<1>9. ASSUME NEW c \in Nat, Frees(w, c)
      PROVE  /\ c < Total /\ generation[c % Pages] = c
             /\ w \in Users(c) /\ w \notin Released(c)
             /\ Released(c)' = Released(c) \cup {w}
             /\ \A s \in Nat : s # c => Released(s)' = Released(s)
             /\ empties' = [empties EXCEPT ![c % Pages] = @ + ReleaseArrivals(c)]
  <2>1. c < Total /\ generation[c % Pages] = c
    <3>1. Drains(w, c) /\ Low(w) <= c /\ c < High(w)
      BY <1>9 DEF Frees
    <3>2. generation[c % Pages] = c
      BY <1>5, <3>1
    <3>3. c < Total
      BY <1>1, <3>1, ClassUses
    <3> QED
      BY <3>2, <3>3
  <2>2. w \in Users(c) /\ w \notin Released(c)
    BY <1>5, <1>9 DEF Frees, Users, Released
  <2>3. \A s \in Nat : \A u \in Warp : u # w => (u \in Released(s)' <=> u \in Released(s))
    BY <1>4, <1>6, <1>8 DEF Released, Users
  <2>4. \A s \in Nat : w \in Released(s)' <=> w \in Released(s) \/ (s = c /\ Drains(w, s))
    BY <1>4, <1>8, <1>9 DEF Released, Users, Frees
  <2>5. \A s : Released(s) \subseteq Warp /\ Released(s)' \subseteq Warp
    BY <1>4 DEF Released, Users
  <2>6. Released(c)' = Released(c) \cup {w}
    <3>1. Drains(w, c)
      BY <1>9 DEF Frees
    <3> QED
      BY <2>3, <2>4, <2>5, <3>1
  <2>7. \A s \in Nat : s # c => Released(s)' = Released(s)
    BY <2>3, <2>4, <2>5
  <2> QED
    BY <1>9, <2>1, <2>2, <2>6, <2>7 DEF Frees
<1>10. ASSUME Keeps(w)
       PROVE  \A s \in Nat : Released(s)' = Released(s)
  <2>1. \A s \in Nat : \A u \in Warp : u \in Released(s)' <=> u \in Released(s)
    BY <1>4, <1>6, <1>8, <1>10 DEF Released, Users, Keeps
  <2>2. \A s : Released(s) \subseteq Warp /\ Released(s)' \subseteq Warp
    BY <1>4 DEF Released, Users
  <2> QED
    BY <2>1, <2>2
<1>11. \A s \in Nat : ReleaseArrivals(s)' = ReleaseArrivals(s) /\ Warps' = Warps
  BY <1>2 DEF SameLayout
\* The barrier of a slot counts the releases of the page in it.
<1>12. ASSUME NEW q \in PageSlot
       PROVE  /\ empties'[q] \in Nat
              /\ generation[q] = NoPage => empties'[q] = empties[q]
              /\ \A s \in Nat : s = generation[q] /\ TaggedSlot(q) =>
                    empties'[q] = Warps * (s \div Pages + 1)
                                    + ReleaseArrivals(s) * Cardinality(Released(s)')
  <2>1. empties[q] \in Nat /\ empties \in [PageSlot -> Nat]
    BY <1>1 DEF RingType
  <2>2. CASE Keeps(w)
    <3>1. empties' = empties
      BY <2>2 DEF Keeps
    <3>2. \A s \in Nat : Released(s)' = Released(s)
      BY <1>10, <2>2
    <3>3. ASSUME NEW s \in Nat, s = generation[q], TaggedSlot(q)
          PROVE  empties'[q] = Warps * (s \div Pages + 1)
                                    + ReleaseArrivals(s) * Cardinality(Released(s)')
      <4>1. empties[q] = Warps * (s \div Pages + 1) + ReleaseArrivals(s) * Cardinality(Released(s))
        BY <3>3 DEF TaggedSlot
      <4>2. Released(s)' = Released(s)
        BY <3>2
      <4> QED
        BY <3>1, <4>1, <4>2, Zenon
    <3> QED
      BY <2>1, <3>1, <3>3
  <2>3. ASSUME NEW c \in Nat, Frees(w, c)
        PROVE  /\ empties'[q] \in Nat
               /\ generation[q] = NoPage => empties'[q] = empties[q]
               /\ \A s \in Nat : s = generation[q] /\ TaggedSlot(q) =>
                     empties'[q] = Warps * (s \div Pages + 1)
                                     + ReleaseArrivals(s) * Cardinality(Released(s)')
    <3>1. /\ c < Total /\ generation[c % Pages] = c
          /\ w \in Users(c) /\ w \notin Released(c)
          /\ Released(c)' = Released(c) \cup {w}
          /\ \A s \in Nat : s # c => Released(s)' = Released(s)
          /\ empties' = [empties EXCEPT ![c % Pages] = @ + ReleaseArrivals(c)]
      BY <1>9, <2>3
    <3>2. PICK r \in Nat : r = ReleaseArrivals(c)
      BY <1>1, <3>1, UserCount
    <3>3. CASE q = c % Pages
      <4>1. empties'[q] = empties[q] + r
        BY <2>1, <3>1, <3>2, <3>3
      <4>2. generation[q] = c /\ c # NoPage
        BY <3>1, <3>3 DEF NoPage
      <4>3. PICK n \in Nat : n = Cardinality(Released(c))
        BY <1>1, <3>1, ReleasedFacts
      <4>4. Cardinality(Released(c)') = n + 1
        <5>1. IsFiniteSet(Released(c))
          BY <1>1, <3>1, ReleasedFacts
        <5>2. Cardinality(Released(c) \cup {w}) = n + 1
          BY <3>1, <4>3, <5>1, FS_AddElement
        <5> QED
          BY <3>1, <5>2
      <4>5. ASSUME TaggedSlot(q)
            PROVE  empties'[q] = Warps * (c \div Pages + 1) + r * (n + 1)
        <5>1. empties[q] = Warps * (c \div Pages + 1) + r * n
          BY <3>2, <4>2, <4>3, <4>5 DEF TaggedSlot
        <5>2. PICK k \in Nat : k = Warps * (c \div Pages + 1)
          <6>1. c \div Pages + 1 \in Nat
            BY <1>1, Division
          <6> QED
            BY <1>1, <6>1, Times
        <5>3. r * (n + 1) = r * n + r /\ r * n \in Nat
          BY SMT
        <5> QED
          BY <4>1, <5>1, <5>2, <5>3
      <4>6. ASSUME NEW s \in Nat, s = generation[q], TaggedSlot(q)
            PROVE  empties'[q] = Warps * (s \div Pages + 1)
                                     + ReleaseArrivals(s) * Cardinality(Released(s)')
        <5>1. s = c
          BY <4>2, <4>6
        <5>2. empties'[q] = Warps * (c \div Pages + 1) + r * (n + 1)
          BY <4>5, <4>6
        <5> QED
          BY <3>2, <4>4, <5>1, <5>2, Zenon
      <4>7. empties'[q] \in Nat
        BY <2>1, <4>1
      <4> QED
        BY <4>2, <4>6, <4>7
    <3>4. CASE q # c % Pages
      <4>1. empties'[q] = empties[q]
        BY <2>1, <3>1, <3>4
      <4>2. ASSUME NEW s \in Nat, s = generation[q], TaggedSlot(q)
            PROVE  empties'[q] = Warps * (s \div Pages + 1)
                                     + ReleaseArrivals(s) * Cardinality(Released(s)')
        <5>1. s # c
          BY <3>4, <4>2 DEF TaggedSlot
        <5>2. Released(s)' = Released(s)
          BY <3>1, <5>1
        <5>3. empties[q] = Warps * (s \div Pages + 1) + ReleaseArrivals(s) * Cardinality(Released(s))
          BY <4>2 DEF TaggedSlot
        <5> QED
          BY <4>1, <5>2, <5>3, Zenon
      <4> QED
        BY <2>1, <4>1, <4>2
    <3> QED
      BY <3>3, <3>4
  <2> QED
    BY <2>2, <2>3
<1>13. RingType'
  <2>1. empties' \in [PageSlot -> Nat]
    <3>1. \E f : empties' = [empties EXCEPT ![f] = empties'[f]]
      <4>1. CASE Keeps(w)
        BY <1>1, <4>1 DEF Keeps, RingType
      <4>2. ASSUME NEW c \in Nat, Frees(w, c)
            PROVE  \E f : empties' = [empties EXCEPT ![f] = empties'[f]]
        BY <1>1, <1>7, <1>9, <4>2 DEF RingType
      <4> QED
        BY <4>1, <4>2
    <3>2. empties' = [q \in PageSlot |-> empties'[q]]
      BY <1>1, <3>1 DEF RingType
    <3> QED
      BY <1>12, <3>2
  <2>2. stream' \in Streams /\ acquired' \in Nat /\ published' \in Nat
           /\ generation' \in [PageSlot -> Int] /\ landing' \in [PageSlot -> BOOLEAN]
           /\ content' \in [PageSlot -> Int] /\ fullPhases' \in [PageSlot -> Nat]
    BY <1>1, <1>3 DEF RingType
  <2> QED
    BY <1>4, <2>1, <2>2 DEF RingType, Aside
<1>14. LoaderInv'
  BY <1>2, <1>3 DEF RingInv, LoaderInv, SameLayout
<1>15. SlotInv'
  <2>1. SUFFICES ASSUME NEW q \in PageSlot
                 PROVE  IF generation'[q] = NoPage THEN FreeSlot(q)' ELSE TaggedSlot(q)'
    BY <1>4 DEF SlotInv
  <2>2. CASE generation[q] = NoPage
    <3>1. FreeSlot(q)
      BY <2>2 DEF RingInv, SlotInv
    <3>2. empties'[q] = empties[q]
      BY <1>12, <2>2
    <3>3. FreeSlot(q)'
      BY <1>2, <1>3, <3>1, <3>2 DEF FreeSlot, SameLayout
    <3> QED
      BY <1>3, <2>2, <3>3
  <2>3. CASE generation[q] # NoPage
    <3>1. TaggedSlot(q)
      BY <2>3 DEF RingInv, SlotInv
    <3>2. PICK s \in Nat : s = generation[q]
      BY <3>1 DEF TaggedSlot
    <3>3. empties'[q] = Warps * (s \div Pages + 1)
                                    + ReleaseArrivals(s) * Cardinality(Released(s)')
      BY <1>12, <3>1, <3>2
    <3>4. generation'[q] = s /\ Warps' = Warps /\ ReleaseArrivals(s)' = ReleaseArrivals(s)
      BY <1>3, <1>11, <3>2
    <3>5. /\ s % Pages = q /\ s < acquired /\ acquired <= s + Pages
          /\ s >= published => ~landing[q] /\ fullPhases[q] = s \div Pages
          /\ landing[q] => fullPhases[q] = s \div Pages
          /\ s < published /\ ~landing[q] => fullPhases[q] = s \div Pages + 1 /\ content[q] = s
      BY <3>1, <3>2 DEF TaggedSlot
    <3>6. empties'[q] = Warps' * (s \div Pages + 1) + ReleaseArrivals(s)' * Cardinality(Released(s)')
      BY <3>3, <3>4, Zenon
    <3>7. TaggedSlot(q)'
      BY <1>3, <3>4, <3>5, <3>6 DEF TaggedSlot
    <3> QED
      BY <1>3, <2>3, <3>7
  <2> QED
    BY <2>2, <2>3
<1>16. WarpInv'
  <2>1. SUFFICES ASSUME NEW u \in Warp
                 PROVE  /\ PlaceOf(u)'
                        /\ \A s \in Nat : Drains(u, s)' /\ s < High(u)' =>
                              /\ s < published'
                              /\ generation'[s % Pages] = s => ~landing'[s % Pages]
                              /\ s < Low(u)' \/ generation'[s % Pages] = s
                        /\ warpPc'[u] = "full" => TagMatches(u)'
    BY <1>4 DEF WarpInv
  <2>2. CASE u # w
    <3>1. Low(u)' = Low(u) /\ High(u)' = High(u) /\ PlaceOf(u)' = PlaceOf(u) /\ Cursor(u)' = Cursor(u)
      BY <1>6, <2>2
    <3>2. warpPc'[u] = warpPc[u]
      BY <2>2 DEF Aside
    <3>3. warpPc'[u] = "full" => TagMatches(u)'
      BY <1>3, <1>5, <3>1, <3>2 DEF TagMatches, SlotIndex
    <3> QED
      BY <1>3, <1>5, <1>8, <3>1, <3>3
  <2>3. CASE u = w
    <3>1. /\ PlaceOf(w)'
          /\ warpPc'[w] = "full" => TagMatches(w)'
      BY DEF Reaches
    <3>2. ASSUME NEW s \in Nat, Drains(w, s)', s < High(w)'
          PROVE  /\ s < published
                 /\ generation[s % Pages] = s => ~landing[s % Pages]
                 /\ s < Low(w)' \/ generation[s % Pages] = s
      <4>1. Drains(w, s)
        BY <1>8, <3>2
      <4>2. s < High(w) \/ (s < published /\ generation[s % Pages] = s /\ ~landing[s % Pages])
        BY <3>2, <4>1 DEF Reaches
      <4>3. s < Low(w) => s < Low(w)'
        BY <4>1 DEF Keeps, Frees
      <4> QED
        BY <1>5, <4>1, <4>2, <4>3
    <3>3. /\ PlaceOf(w)'
          /\ \A s \in Nat : Drains(w, s)' /\ s < High(w)' =>
                /\ s < published'
                /\ generation'[s % Pages] = s => ~landing'[s % Pages]
                /\ s < Low(w)' \/ generation'[s % Pages] = s
          /\ warpPc'[w] = "full" => TagMatches(w)'
      BY <1>3, <3>1, <3>2
    <3> QED
      BY <2>3, <3>3, Zenon
  <2> QED
    BY <2>2, <2>3
<1> QED
  BY <1>13, <1>14, <1>15, <1>16 DEF RingInv

\* Between one group a warp drains and its next there is none of its pages.
NextPage(i, w, v) ==
    IF v + 1 < Tasks[i].waves THEN PageOf(i, w, v + 1)
    ELSE IF i < Len(Tasks) THEN PageOf(i + 1, w, 0) ELSE Total

LEMMA NextPageFacts ==
    ASSUME StreamShape, NEW w \in Warp, NEW i \in DOMAIN Tasks, NEW v \in Wave(i)
    PROVE  /\ NextPage(i, w, v) \in Nat
           /\ PageOf(i, w, v) + Tasks[i].group <= NextPage(i, w, v)
           /\ \A s \in Nat : Drains(w, s) =>
                 (s < NextPage(i, w, v) <=> s < PageOf(i, w, v) + Tasks[i].group)
<1> DEFINE e == NextPage(i, w, v)
           b == PageOf(i, w, v) + Tasks[i].group
<1>1. v \in Nat /\ i \in Nat /\ Len(Tasks) \in Nat /\ i >= 1 /\ i <= Len(Tasks)
         /\ Tasks[i].waves \in Nat \ {0} /\ Tasks[i].group \in Nat /\ v < Tasks[i].waves
  BY DEF Wave, StreamShape
<1>2. b \in Nat
  BY <1>1, PageBounds
\* A group is at or before this one, or starts at NextPage or later.
<1>3. /\ e \in Nat /\ b <= e
      /\ \A j \in DOMAIN Tasks : \A u \in Wave(j) :
            j > i \/ (j = i /\ u > v) => e <= PageOf(j, w, u)
  <2>1. CASE v + 1 < Tasks[i].waves
    <3>1. v + 1 \in Wave(i) /\ e = PageOf(i, w, v + 1)
      BY <1>1, <2>1 DEF Wave, NextPage
    <3>2. e \in Nat /\ b <= e
      BY <1>1, <3>1, PageBounds, PageOrder
    <3>3. ASSUME NEW j \in DOMAIN Tasks, NEW u \in Wave(j), j > i \/ (j = i /\ u > v)
          PROVE  e <= PageOf(j, w, u)
      <4>1. u \in Nat /\ j \in Nat
        BY DEF Wave, StreamShape
      <4>2. PageOf(j, w, u) \in Nat
        BY PageBounds
      <4>3. CASE j = i /\ u = v + 1
        BY <3>1, <3>2, <4>2, <4>3
      <4>4. CASE i < j \/ (i = j /\ v + 1 < u)
        <5>1. PageOf(i, w, v + 1) + Tasks[i].group <= PageOf(j, w, u)
          BY <3>1, <4>4, PageOrder
        <5> QED
          BY <1>1, <3>1, <3>2, <4>2, <5>1
      <4> QED
        BY <1>1, <3>3, <4>1, <4>3, <4>4
    <3> QED
      BY <3>2, <3>3
  <2>2. CASE ~(v + 1 < Tasks[i].waves) /\ i < Len(Tasks)
    <3>1. i + 1 \in DOMAIN Tasks /\ 0 \in Wave(i + 1) /\ e = PageOf(i + 1, w, 0) /\ i < i + 1
      <4>1. i + 1 \in DOMAIN Tasks
        BY <1>1, <2>2 DEF StreamShape
      <4>2. Tasks[i + 1].waves \in Nat \ {0}
        BY <4>1 DEF StreamShape
      <4> QED
        BY <1>1, <2>2, <4>1, <4>2 DEF Wave, NextPage
    <3>2. e \in Nat /\ b <= e
      BY <1>1, <3>1, PageBounds, PageOrder
    <3>3. ASSUME NEW j \in DOMAIN Tasks, NEW u \in Wave(j), j > i \/ (j = i /\ u > v)
          PROVE  e <= PageOf(j, w, u)
      <4>1. u \in Nat /\ j \in Nat
        BY DEF Wave, StreamShape
      <4>2. PageOf(j, w, u) \in Nat
        BY PageBounds
      <4>3. ~(j = i /\ u > v)
        BY <1>1, <2>2, <4>1 DEF Wave
      <4>4. CASE j = i + 1 /\ u = 0
        BY <3>1, <3>2, <4>2, <4>4
      <4>5. CASE i + 1 < j \/ (i + 1 = j /\ 0 < u)
        <5>1. PageOf(i + 1, w, 0) + Tasks[i + 1].group <= PageOf(j, w, u)
          BY <3>1, <4>5, PageOrder
        <5>2. Tasks[i + 1].group \in Nat
          BY <3>1 DEF StreamShape
        <5> QED
          BY <3>1, <3>2, <4>2, <5>1, <5>2
      <4> QED
        BY <1>1, <3>3, <4>1, <4>3, <4>4, <4>5
    <3> QED
      BY <3>2, <3>3
  <2>3. CASE ~(v + 1 < Tasks[i].waves) /\ ~(i < Len(Tasks))
    <3>1. e = Total /\ i = Len(Tasks)
      BY <1>1, <2>3 DEF NextPage
    <3>2. b <= First[i + 1] /\ First[i + 1] = Total
      BY <3>1, PageBounds DEF Total
    <3>3. Total \in Nat
      BY TotalIsNat
    <3>4. \A j \in DOMAIN Tasks : \A u \in Wave(j) : ~(j > i \/ (j = i /\ u > v))
      BY <1>1, <2>3 DEF Wave, StreamShape
    <3> QED
      BY <3>1, <3>2, <3>3, <3>4
  <2> QED
    BY <2>1, <2>2, <2>3
<1> HIDE DEF e, b
<1>4. ASSUME NEW s \in Nat, Drains(w, s), s < e
      PROVE  s < b
  <2>1. PICK j \in DOMAIN Tasks : \E u \in Wave(j) :
           PageOf(j, w, u) <= s /\ s < PageOf(j, w, u) + Tasks[j].group
    BY <1>4 DEF Drains
  <2>2. PICK u \in Wave(j) : PageOf(j, w, u) <= s /\ s < PageOf(j, w, u) + Tasks[j].group
    BY <2>1
  <2>3. PageOf(j, w, u) \in Nat /\ j \in Nat /\ u \in Nat /\ Tasks[j].group \in Nat
    <3>1. PageOf(j, w, u) \in Nat
      BY PageBounds
    <3> QED
      BY <3>1 DEF Wave, StreamShape
  <2>4. ~(j > i \/ (j = i /\ u > v))
    BY <1>3, <1>4, <2>2, <2>3
  <2>5. CASE j = i /\ u = v
    BY <2>2, <2>5 DEF b
  <2>6. CASE j < i \/ (j = i /\ u < v)
    <3>1. PageOf(j, w, u) + Tasks[j].group <= PageOf(i, w, v)
      BY <2>6, PageOrder
    <3>2. PageOf(i, w, v) \in Nat
      BY PageBounds
    <3>3. PageOf(i, w, v) <= b
      BY <1>1, <3>2 DEF b
    <3> QED
      BY <1>2, <2>2, <2>3, <3>1, <3>2, <3>3
  <2> QED
    BY <1>1, <2>3, <2>4, <2>5, <2>6
<1>5. \A s \in Nat : Drains(w, s) => (s < e <=> s < b)
  BY <1>2, <1>3, <1>4
<1> QED
  BY <1>3, <1>5 DEF e, b

\* Going on to the next group: everything of this one is behind the warp, and
\* of the next one only what a holding body has still to give back.
LEMMA AdvanceMoves ==
    ASSUME StreamShape, RingType, stream' = stream, NEW w \in Warp, PlaceOf(w), warpPc[w] # "done",
           Advance(w)
    PROVE  LET i == at[w].task
               v == at[w].wave
           IN  /\ at' \in [Warp -> [task : Nat, wave : Nat, page : Nat]]
               /\ warpPc' \in [Warp -> {"tag", "full", "read", "release", "done"}]
               /\ \A u \in Warp : u # w => at'[u] = at[u] /\ warpPc'[u] = warpPc[u]
               /\ PlaceOf(w)' /\ warpPc'[w] # "full"
               /\ High(w)' = NextPage(i, w, v)
               /\ Low(w)' = IF WarpTask(w).hold /\ ~LastWave(w)
                            THEN NextPage(i, w, v) - 1 ELSE NextPage(i, w, v)
<1> DEFINE i == at[w].task
           v == at[w].wave
<1>1. Running(w)
  BY RunningFacts
<1>2. SameLayout
  BY LayoutKept
<1>3. /\ i \in DOMAIN Tasks /\ i \in Nat /\ v \in Nat /\ v < Tasks[i].waves
      /\ DOMAIN Tasks = 1 .. Len(Tasks) /\ Len(Tasks) \in Nat
      /\ Tasks[i].waves \in Nat \ {0} /\ Tasks[i].group \in Nat \ {0}
  <2>1. i \in DOMAIN Tasks /\ v \in Nat /\ v \in Wave(i) /\ Tasks[i].group \in 1 .. Pages
           /\ Tasks[i].waves \in Nat \ {0}
    BY <1>1 DEF Running, WarpTask
  <2>2. DOMAIN Tasks = 1 .. Len(Tasks) /\ Len(Tasks) \in Nat /\ Pages \in Nat
    BY DEF StreamShape
  <2> QED
    BY <2>1, <2>2 DEF Wave
<1>4. /\ at \in [Warp -> [task : Nat, wave : Nat, page : Nat]]
      /\ warpPc \in [Warp -> {"tag", "full", "read", "release", "done"}]
  BY DEF RingType
<1>5. LastWave(w) <=> v + 1 = Tasks[i].waves
  BY DEF LastWave, WarpTask
<1>6. CASE ~LastWave(w)
  <2>1. at' = [at EXCEPT ![w].wave = @ + 1, ![w].page = 0] /\ warpPc' = [warpPc EXCEPT ![w] = "tag"]
    BY <1>6 DEF Advance
  <2>2. at'[w] = [task |-> i, wave |-> v + 1, page |-> 0] /\ warpPc'[w] = "tag"
    BY <1>4, <2>1
  <2>3. at' \in [Warp -> [task : Nat, wave : Nat, page : Nat]]
    <3>1. [task |-> i, wave |-> v + 1, page |-> 0] \in [task : Nat, wave : Nat, page : Nat]
      BY <1>3
    <3>2. at' = [u \in Warp |-> at'[u]]
      BY <1>4, <2>1
    <3>3. \A u \in Warp : u # w => at'[u] = at[u]
      BY <1>4, <2>1
    <3>4. \A u \in Warp : at'[u] \in [task : Nat, wave : Nat, page : Nat]
      BY <1>4, <2>2, <3>1, <3>3
    <3> QED
      BY <3>2, <3>4
  <2>4. warpPc' \in [Warp -> {"tag", "full", "read", "release", "done"}]
    BY <1>4, <2>1
  <2>5. \A u \in Warp : u # w => at'[u] = at[u] /\ warpPc'[u] = warpPc[u]
    BY <1>4, <2>1
  <2>6. WarpTask(w)' = WarpTask(w) /\ WarpTask(w) = Tasks[i]
    BY <1>2, <2>2 DEF WarpTask, SameLayout
  <2>7. PlaceOf(w)'
    BY <1>2, <1>3, <1>5, <1>6, <2>2, <2>6 DEF PlaceOf, SameLayout
  <2>8. Base(w)' = PageOf(i, w, v + 1) /\ NextPage(i, w, v) = PageOf(i, w, v + 1)
    BY <1>2, <1>3, <1>5, <1>6, <2>2 DEF Base, SameLayout, NextPage
  <2>9. NextPage(i, w, v) \in Nat
    BY <1>1, NextPageFacts DEF Running
  <2>10. High(w)' = NextPage(i, w, v)
    BY <2>2, <2>8, <2>9 DEF High
  <2>11. Low(w)' = IF WarpTask(w).hold THEN NextPage(i, w, v) - 1 ELSE NextPage(i, w, v)
    BY <1>3, <2>2, <2>6, <2>8 DEF Low, Pending
  <2> QED
    BY <1>6, <2>2, <2>3, <2>4, <2>5, <2>7, <2>10, <2>11
<1>7. CASE LastWave(w)
  <2>1. /\ at' = [at EXCEPT ![w] = [task |-> @.task + 1, wave |-> 0, page |-> 0]]
        /\ warpPc' = [warpPc EXCEPT ![w] = IF at[w].task = Len(Tasks) THEN "done" ELSE "tag"]
    BY <1>7 DEF Advance
  <2>2. /\ at'[w] = [task |-> i + 1, wave |-> 0, page |-> 0]
        /\ warpPc'[w] = IF i = Len(Tasks) THEN "done" ELSE "tag"
    BY <1>4, <2>1
  <2>3. at' \in [Warp -> [task : Nat, wave : Nat, page : Nat]]
    <3>1. [task |-> at[w].task + 1, wave |-> 0, page |-> 0] \in [task : Nat, wave : Nat, page : Nat]
      BY <1>3
    <3> QED
      BY <1>4, <2>1, <3>1
  <2>4. warpPc' \in [Warp -> {"tag", "full", "read", "release", "done"}]
    BY <1>4, <2>1
  <2>5. \A u \in Warp : u # w => at'[u] = at[u] /\ warpPc'[u] = warpPc[u]
    BY <1>4, <2>1
  <2>6. ~(v + 1 < Tasks[i].waves)
    BY <1>3, <1>5, <1>7
  <2>7. CASE i = Len(Tasks)
    <3>1. warpPc'[w] = "done" /\ NextPage(i, w, v) = Total
      BY <1>3, <2>2, <2>6, <2>7 DEF NextPage
    <3>2. PlaceOf(w)'
      BY <3>1 DEF PlaceOf
    <3>3. High(w)' = Total /\ Low(w)' = Total
      BY <1>2, <3>1 DEF High, Low, SameLayout
    <3> QED
      BY <1>7, <2>3, <2>4, <2>5, <3>1, <3>2, <3>3
  <2>8. CASE i # Len(Tasks)
    <3>1. i + 1 \in DOMAIN Tasks
      BY <1>3, <2>8
    <3>2. warpPc'[w] = "tag" /\ NextPage(i, w, v) = PageOf(i + 1, w, 0)
      BY <1>3, <2>2, <2>6, <2>8 DEF NextPage
    <3>3. WarpTask(w)' = Tasks[i + 1]
      BY <1>2, <2>2 DEF WarpTask, SameLayout
    <3>4. Tasks[i + 1].waves \in Nat \ {0} /\ Tasks[i + 1].group \in Nat \ {0}
      BY <3>1 DEF StreamShape
    <3>5. PlaceOf(w)'
      BY <1>2, <2>2, <3>1, <3>2, <3>3, <3>4 DEF PlaceOf, SameLayout
    <3>6. Base(w)' = NextPage(i, w, v)
      BY <1>2, <2>2, <3>2 DEF Base, SameLayout
    <3>7. NextPage(i, w, v) \in Nat
      BY <1>1, NextPageFacts DEF Running
    <3>8. High(w)' = NextPage(i, w, v)
      BY <2>2, <3>2, <3>6, <3>7 DEF High
    <3>9. Low(w)' = NextPage(i, w, v)
      BY <2>2, <3>2, <3>6 DEF Low, Pending
    <3> QED
      BY <1>7, <2>3, <2>4, <2>5, <3>2, <3>5, <3>8, <3>9
  <2> QED
    BY <2>7, <2>8
<1> QED
  BY <1>6, <1>7

-----------------------------------------------------------------------------
(***************************************************************************)
(* The warps' steps, one by one.                                           *)
(***************************************************************************)
\* What every one of them starts from.
LEMMA WarpStart ==
    ASSUME RingConstants, RingInv, NEW w \in Warp, warpPc[w] # "done"
    PROVE  /\ StreamShape /\ RingType /\ PlaceOf(w) /\ Running(w)
           /\ at \in [Warp -> [task : Nat, wave : Nat, page : Nat]]
           /\ warpPc \in [Warp -> {"tag", "full", "read", "release", "done"}]
           /\ Base(w) \in Nat /\ at[w].page \in Nat
           /\ WarpTask(w).group \in Nat \ {0}
           /\ WarpTask(w) = Tasks[at[w].task]
           /\ Cursor(w) = Base(w) + at[w].page
           /\ Drains(w, Cursor(w))
<1>1. StreamShape /\ RingType /\ PlaceOf(w)
  BY RingShape DEF RingInv, WarpInv
<1>2. Running(w)
  BY <1>1, RunningFacts
<1>3. WarpTask(w).group \in Nat \ {0}
  BY <1>1, <1>2 DEF Running, StreamShape
<1> QED
  BY <1>1, <1>2, <1>3, CursorUsed DEF RingType, Running, WarpTask

LEMMA AwaitTagInv == ASSUME RingConstants, RingInv, NEW w \in Warp, AwaitTag(w) PROVE RingInv'
<1>1. /\ warpPc[w] = "tag" /\ TagMatches(w) /\ warpPc' = [warpPc EXCEPT ![w] = "full"] /\ at' = at
      /\ UNCHANGED <<stream, acquired, published, generation, landing, content, fullPhases, empties>>
  BY DEF AwaitTag, loaderVars, slotVars
<1>2. /\ StreamShape /\ RingType /\ PlaceOf(w) /\ Running(w)
      /\ at \in [Warp -> [task : Nat, wave : Nat, page : Nat]]
      /\ warpPc \in [Warp -> {"tag", "full", "read", "release", "done"}]
  BY <1>1, WarpStart
<1>3. SameLayout
  BY <1>1, LayoutKept
<1>4. warpPc'[w] = "full"
  BY <1>1, <1>2
<1>5. Aside(w)
  BY <1>1, <1>2 DEF Aside
<1>6. WarpTask(w)' = WarpTask(w) /\ Base(w)' = Base(w) /\ Cursor(w)' = Cursor(w)
  BY <1>1, <1>3 DEF SameLayout, WarpTask, Base, Cursor
<1>7. High(w)' = High(w) /\ Low(w)' = Low(w)
  BY <1>1, <1>4, <1>6 DEF High, Low, Pending
<1>8. PlaceOf(w)'
  BY <1>1, <1>2, <1>3, <1>4, <1>6 DEF PlaceOf, SameLayout
<1>9. TagMatches(w)'
  BY <1>1, <1>6 DEF TagMatches, SlotIndex
<1>10. Reaches(w)
  BY <1>7, <1>8, <1>9 DEF Reaches
<1>11. Keeps(w)
  BY <1>1, <1>7 DEF Keeps
<1> QED
  BY <1>5, <1>10, <1>11, WarpMoves

\* The tag says the slot is this page's, so its phase is this page's too: the
\* parity wait is over only when the page has landed.
LEMMA FullMeansLanded ==
    ASSUME RingConstants, RingInv, NEW w \in Warp, AwaitFull(w)
    PROVE  LET c == Cursor(w) IN
           c < published /\ generation[c % Pages] = c /\ ~landing[c % Pages]
<1>1. warpPc[w] = "full" /\ PhaseDone(fullPhases[SlotIndex(Cursor(w))], PagePhase(Cursor(w)))
  BY DEF AwaitFull
<1>2. StreamShape /\ RingType /\ Pages \in Nat \ {0} /\ published \in Nat
  BY RingShape DEF RingType
<1>3. PICK c \in Nat : c = Cursor(w)
  BY <1>1, WarpStart
<1>4. TagMatches(w)
  BY <1>1 DEF RingInv, WarpInv
<1>5. generation[c % Pages] = c
  BY <1>3, <1>4 DEF TagMatches, SlotIndex
<1>6. c % Pages \in PageSlot
  BY <1>2, Division DEF PageSlot
<1>7. TaggedSlot(c % Pages)
  BY <1>5, <1>6 DEF RingInv, SlotInv, NoPage
<1>8. c \div Pages \in Nat
  BY <1>2, Division
<1>9. fullPhases[c % Pages] # c \div Pages
  BY <1>1, <1>3 DEF PhaseDone, SlotIndex, PagePhase
<1>10. c < published /\ ~landing[c % Pages]
  BY <1>2, <1>5, <1>7, <1>9 DEF TaggedSlot
<1> QED
  BY <1>3, <1>5, <1>10

LEMMA AwaitFullInv == ASSUME RingConstants, RingInv, NEW w \in Warp, AwaitFull(w) PROVE RingInv'
<1>1. /\ warpPc[w] = "full"
      /\ UNCHANGED <<stream, acquired, published, generation, landing, content, fullPhases, empties>>
      /\ IF at[w].page + 1 < WarpTask(w).group
         THEN at' = [at EXCEPT ![w].page = @ + 1] /\ warpPc' = [warpPc EXCEPT ![w] = "tag"]
         ELSE at' = [at EXCEPT ![w].page = 0] /\ warpPc' = [warpPc EXCEPT ![w] = "read"]
  BY DEF AwaitFull, loaderVars, slotVars
<1>2. /\ StreamShape /\ RingType /\ PlaceOf(w) /\ Running(w)
      /\ at \in [Warp -> [task : Nat, wave : Nat, page : Nat]]
      /\ warpPc \in [Warp -> {"tag", "full", "read", "release", "done"}]
      /\ Base(w) \in Nat /\ at[w].page \in Nat /\ WarpTask(w).group \in Nat \ {0}
      /\ Cursor(w) = Base(w) + at[w].page
  BY <1>1, WarpStart
<1>3. SameLayout
  BY <1>1, LayoutKept
<1>4. PICK n \in Nat : n = (IF at[w].page + 1 < WarpTask(w).group THEN at[w].page + 1 ELSE 0)
  BY <1>2
<1>5. /\ at' = [at EXCEPT ![w].page = n]
      /\ at'[w] = [at[w] EXCEPT !.page = n]
      /\ at'[w].task = at[w].task /\ at'[w].wave = at[w].wave /\ at'[w].page = n
  BY <1>1, <1>2, <1>4
<1>6. warpPc'[w] = IF at[w].page + 1 < WarpTask(w).group THEN "tag" ELSE "read"
  BY <1>1, <1>2
<1>7. Aside(w)
  <2>1. at' \in [Warp -> [task : Nat, wave : Nat, page : Nat]]
    BY <1>2, <1>5
  <2>2. warpPc' \in [Warp -> {"tag", "full", "read", "release", "done"}]
    BY <1>1, <1>2
  <2>3. \A u \in Warp : u # w => at'[u] = at[u] /\ warpPc'[u] = warpPc[u]
    BY <1>1, <1>2
  <2> QED
    BY <1>1, <2>1, <2>2, <2>3 DEF Aside
<1>8. WarpTask(w)' = WarpTask(w) /\ Base(w)' = Base(w)
  BY <1>3, <1>5 DEF SameLayout, WarpTask, Base
<1>9. High(w) = Cursor(w) /\ High(w)' = Cursor(w) + 1
  <2>1. High(w) = Cursor(w)
    BY <1>1, <1>2 DEF High
  <2>2. CASE at[w].page + 1 < WarpTask(w).group
    BY <1>2, <1>4, <1>5, <1>6, <1>8, <2>1, <2>2 DEF High
  <2>3. CASE ~(at[w].page + 1 < WarpTask(w).group)
    <3>1. at[w].page + 1 = WarpTask(w).group
      BY <1>2, <2>3 DEF PlaceOf, Running
    <3>2. High(w)' = Base(w) + WarpTask(w).group
      BY <1>6, <1>8, <2>3 DEF High
    <3> QED
      BY <1>2, <2>1, <3>1, <3>2
  <2> QED
    BY <2>2, <2>3
<1>10. Low(w)' = Low(w)
  BY <1>1, <1>5, <1>6, <1>8 DEF Low, Pending
<1>11. PlaceOf(w)'
  <2>1. at[w].task \in DOMAIN Tasks /\ at[w].wave < WarpTask(w).waves
    BY <1>1, <1>2 DEF PlaceOf
  <2>2. n < WarpTask(w).group
    BY <1>2, <1>4
  <2>3. warpPc'[w] \in {"tag", "read"} /\ (warpPc'[w] = "read" => n = 0)
    BY <1>4, <1>6
  <2> QED
    BY <1>3, <1>5, <1>8, <2>1, <2>2, <2>3 DEF PlaceOf, SameLayout
<1>12. Reaches(w)
  <2>1. PICK c \in Nat : c = Cursor(w)
    BY <1>2
  <2>2. c < published /\ generation[c % Pages] = c /\ ~landing[c % Pages]
    BY <2>1, FullMeansLanded
  <2>3. \A s \in Nat : s < c + 1 => s < c \/ s = c
    OBVIOUS
  <2>4. warpPc'[w] # "full"
    BY <1>6
  <2> QED
    BY <1>9, <1>11, <2>1, <2>2, <2>3, <2>4 DEF Reaches
<1>13. Keeps(w)
  BY <1>1, <1>10 DEF Keeps
<1> QED
  BY <1>7, <1>12, <1>13, WarpMoves

LEMMA EndReadInv == ASSUME RingConstants, RingInv, NEW w \in Warp, EndRead(w) PROVE RingInv'
<1>1. /\ warpPc[w] = "read" /\ ~WarpTask(w).hold /\ warpPc' = [warpPc EXCEPT ![w] = "release"] /\ at' = at
      /\ UNCHANGED <<stream, acquired, published, generation, landing, content, fullPhases, empties>>
  BY DEF EndRead, loaderVars, slotVars
<1>2. /\ StreamShape /\ RingType /\ PlaceOf(w) /\ Running(w)
      /\ at \in [Warp -> [task : Nat, wave : Nat, page : Nat]]
      /\ warpPc \in [Warp -> {"tag", "full", "read", "release", "done"}]
      /\ Base(w) \in Nat
  BY <1>1, WarpStart
<1>3. SameLayout
  BY <1>1, LayoutKept
<1>4. warpPc'[w] = "release" /\ at[w].page = 0
  BY <1>1, <1>2 DEF PlaceOf
<1>5. Aside(w)
  BY <1>1, <1>2 DEF Aside
<1>6. WarpTask(w)' = WarpTask(w) /\ Base(w)' = Base(w)
  BY <1>1, <1>3 DEF SameLayout, WarpTask, Base
<1>7. High(w)' = High(w)
  BY <1>1, <1>4, <1>6 DEF High
<1>8. Low(w)' = Low(w)
  BY <1>1, <1>2, <1>4, <1>6 DEF Low, Pending
<1>9. PlaceOf(w)'
  BY <1>1, <1>2, <1>3, <1>4, <1>6 DEF PlaceOf, SameLayout
<1>10. Reaches(w)
  BY <1>4, <1>7, <1>9 DEF Reaches
<1>11. Keeps(w)
  BY <1>1, <1>8 DEF Keeps
<1> QED
  BY <1>5, <1>10, <1>11, WarpMoves

LEMMA ReleasePageInv == ASSUME RingConstants, RingInv, NEW w \in Warp, ReleasePage(w) PROVE RingInv'
<1>1. /\ warpPc[w] = "release" /\ ~WarpTask(w).hold
      /\ UNCHANGED <<stream, acquired, published, generation, landing, content, fullPhases>>
      /\ IF at[w].page + 1 < WarpTask(w).group
         THEN at' = [at EXCEPT ![w].page = @ + 1] /\ warpPc' = warpPc
         ELSE Advance(w)
  BY DEF ReleasePage, loaderVars
<1>2. /\ StreamShape /\ RingType /\ PlaceOf(w) /\ Running(w)
      /\ at \in [Warp -> [task : Nat, wave : Nat, page : Nat]]
      /\ warpPc \in [Warp -> {"tag", "full", "read", "release", "done"}]
      /\ Base(w) \in Nat /\ at[w].page \in Nat /\ WarpTask(w).group \in Nat \ {0}
      /\ Cursor(w) = Base(w) + at[w].page /\ Drains(w, Cursor(w))
  BY <1>1, WarpStart
<1>3. SameLayout
  BY <1>1, LayoutKept
<1>4. PICK c \in Nat : c = Cursor(w)
  BY <1>2
<1>5. Low(w) = c /\ c < High(w) /\ High(w) = Base(w) + WarpTask(w).group
  BY <1>1, <1>2, <1>4 DEF Low, High, PlaceOf
<1>6. empties' = [empties EXCEPT ![c % Pages] = @ + ReleaseArrivals(c)]
  BY <1>4 DEF ReleasePage, Release, SlotIndex
<1>7. CASE at[w].page + 1 < WarpTask(w).group
  <2>1. at' = [at EXCEPT ![w].page = @ + 1] /\ warpPc' = warpPc
    BY <1>1, <1>7
  <2>2. at'[w].task = at[w].task /\ at'[w].wave = at[w].wave /\ at'[w].page = at[w].page + 1
    BY <1>2, <2>1
  <2>3. Aside(w)
    <3>1. at' \in [Warp -> [task : Nat, wave : Nat, page : Nat]]
      BY <1>2, <2>1
    <3> QED
      BY <1>1, <1>2, <2>1, <3>1 DEF Aside
  <2>4. WarpTask(w)' = WarpTask(w) /\ Base(w)' = Base(w)
    BY <1>3, <2>2 DEF SameLayout, WarpTask, Base
  <2>5. High(w)' = High(w)
    BY <1>1, <1>5, <2>1, <2>4 DEF High
  <2>6. Low(w)' = c + 1
    BY <1>1, <1>2, <1>4, <2>1, <2>2, <2>4 DEF Low
  <2>7. PlaceOf(w)'
    BY <1>1, <1>2, <1>3, <1>7, <2>1, <2>2, <2>4 DEF PlaceOf, SameLayout
  <2>8. Reaches(w)
    BY <1>1, <2>1, <2>5, <2>7 DEF Reaches
  <2>9. \A s \in Nat : s < c + 1 <=> s < c \/ s = c
    OBVIOUS
  <2>10. Frees(w, c)
    BY <1>2, <1>4, <1>5, <1>6, <2>6, <2>9 DEF Frees
  <2> QED
    BY <2>3, <2>8, <2>10, WarpMoves
<1>8. CASE ~(at[w].page + 1 < WarpTask(w).group)
  <2> DEFINE i == at[w].task
             v == at[w].wave
  <2>1. Advance(w)
    BY <1>1, <1>8
  <2>2. PICK e \in Nat : e = NextPage(i, w, v)
    BY <1>2, NextPageFacts DEF Running
  <2>3. /\ at' \in [Warp -> [task : Nat, wave : Nat, page : Nat]]
        /\ warpPc' \in [Warp -> {"tag", "full", "read", "release", "done"}]
        /\ \A u \in Warp : u # w => at'[u] = at[u] /\ warpPc'[u] = warpPc[u]
        /\ PlaceOf(w)' /\ warpPc'[w] # "full"
        /\ High(w)' = e /\ Low(w)' = e
    BY <1>1, <1>2, <2>1, <2>2, AdvanceMoves
  <2>4. Aside(w)
    BY <1>1, <2>3 DEF Aside
  <2>5. Base(w) + WarpTask(w).group = c + 1
    BY <1>2, <1>4, <1>8 DEF Running
  <2>6. \A s \in Nat : Drains(w, s) => (s < e <=> s < c + 1)
    BY <1>2, <2>2, <2>5, NextPageFacts DEF Running, Base, WarpTask
  <2>7. \A s \in Nat : s < c + 1 <=> s < c \/ s = c
    OBVIOUS
  <2>8. Reaches(w)
    BY <1>5, <2>3, <2>5, <2>6 DEF Reaches
  <2>9. Frees(w, c)
    BY <1>2, <1>4, <1>5, <1>6, <2>3, <2>6, <2>7 DEF Frees
  <2> QED
    BY <2>4, <2>8, <2>9, WarpMoves
<1> QED
  BY <1>7, <1>8

LEMMA EndHeldReadInv == ASSUME RingConstants, RingInv, NEW w \in Warp, EndHeldRead(w) PROVE RingInv'
<1> DEFINE i == at[w].task
           v == at[w].wave
<1>1. /\ warpPc[w] = "read" /\ WarpTask(w).hold
      /\ UNCHANGED <<stream, acquired, published, generation, landing, content, fullPhases>>
      /\ IF v > 0 THEN Release(Cursor(w) - 1) ELSE empties' = empties
      /\ IF LastWave(w)
         THEN warpPc' = [warpPc EXCEPT ![w] = "release"] /\ at' = at
         ELSE Advance(w)
  BY DEF EndHeldRead, loaderVars
<1>2. /\ StreamShape /\ RingType /\ PlaceOf(w) /\ Running(w)
      /\ at \in [Warp -> [task : Nat, wave : Nat, page : Nat]]
      /\ warpPc \in [Warp -> {"tag", "full", "read", "release", "done"}]
      /\ Cursor(w) = Base(w) + at[w].page
      /\ WarpTask(w) = Tasks[i]
  BY <1>1, WarpStart
<1>3. SameLayout
  BY <1>1, LayoutKept
<1>4. PICK b \in Nat : b = Base(w)
  BY <1>2 DEF Running
<1>5. /\ at[w].page = 0 /\ WarpTask(w).group = 1 /\ v \in Nat
      /\ Cursor(w) = b /\ High(w) = b + 1
  BY <1>1, <1>2, <1>4 DEF PlaceOf, Running, High
<1>6. Low(w) = IF v > 0 THEN b - 1 ELSE b
  BY <1>1, <1>4 DEF Low, Pending
<1>7. Aside(w) /\ PlaceOf(w)' /\ warpPc'[w] # "full" /\ High(w)' = b + 1 /\ Low(w)' = b
  <2>1. CASE LastWave(w)
    <3>1. at' = at /\ warpPc' = [warpPc EXCEPT ![w] = "release"] /\ warpPc'[w] = "release"
      BY <1>1, <1>2, <2>1
    <3>2. Aside(w)
      BY <1>1, <1>2, <3>1 DEF Aside
    <3>3. WarpTask(w)' = WarpTask(w) /\ Base(w)' = Base(w) /\ LastWave(w)'
      BY <1>3, <2>1, <3>1 DEF SameLayout, WarpTask, Base, LastWave
    <3>4. High(w)' = b + 1 /\ Low(w)' = b
      BY <1>4, <1>5, <3>1, <3>3 DEF High, Low
    <3>5. PlaceOf(w)'
      BY <1>1, <1>2, <1>3, <3>1, <3>3 DEF PlaceOf, SameLayout
    <3> QED
      BY <3>1, <3>2, <3>4, <3>5
  <2>2. CASE ~LastWave(w)
    <3>1. Advance(w)
      BY <1>1, <2>2
    <3>2. v + 1 < Tasks[i].waves
      BY <1>1, <1>2, <1>5, <2>2 DEF LastWave, PlaceOf, Running
    <3>3. i \in DOMAIN Tasks /\ v \in Wave(i) /\ v + 1 \in Wave(i)
      BY <1>2, <1>5, <3>2 DEF Running, Wave
    <3>4. PageOf(i, w, v + 1) = First[i] + (v + 1) /\ b = First[i] + v /\ First[i] \in Nat
      BY <1>1, <1>2, <1>4, <3>3, HoldPage DEF Base
    <3>5. NextPage(i, w, v) = b + 1
      BY <1>5, <3>2, <3>4 DEF NextPage
    <3>6. /\ at' \in [Warp -> [task : Nat, wave : Nat, page : Nat]]
          /\ warpPc' \in [Warp -> {"tag", "full", "read", "release", "done"}]
          /\ \A u \in Warp : u # w => at'[u] = at[u] /\ warpPc'[u] = warpPc[u]
          /\ PlaceOf(w)' /\ warpPc'[w] # "full"
          /\ High(w)' = b + 1 /\ Low(w)' = (b + 1) - 1
      BY <1>1, <1>2, <2>2, <3>1, <3>5, AdvanceMoves
    <3>7. Aside(w)
      BY <1>1, <3>6 DEF Aside
    <3> QED
      BY <3>6, <3>7
  <2> QED
    BY <2>1, <2>2
<1>8. Reaches(w)
  BY <1>5, <1>7 DEF Reaches
<1>9. CASE v > 0
  <2>1. PICK c \in Nat : c = b - 1 /\ Drains(w, c)
    BY <1>1, <1>2, <1>4, <1>9, HeldUsed
  <2>2. empties' = [empties EXCEPT ![c % Pages] = @ + ReleaseArrivals(c)]
    BY <1>1, <1>5, <1>9, <2>1 DEF Release, SlotIndex
  <2>3. \A s \in Nat : s < b <=> s < b - 1 \/ s = c
    BY <2>1
  <2>4. Low(w) = c
    BY <1>6, <1>9, <2>1
  <2>5. Frees(w, c)
    BY <1>5, <1>7, <2>1, <2>2, <2>3, <2>4 DEF Frees
  <2> QED
    BY <1>7, <1>8, <2>5, WarpMoves
<1>10. CASE ~(v > 0)
  <2>1. Keeps(w)
    BY <1>1, <1>6, <1>7, <1>10 DEF Keeps
  <2> QED
    BY <1>7, <1>8, <2>1, WarpMoves
<1> QED
  BY <1>9, <1>10

LEMMA ReleaseHeldInv == ASSUME RingConstants, RingInv, NEW w \in Warp, ReleaseHeld(w) PROVE RingInv'
<1> DEFINE i == at[w].task
           v == at[w].wave
<1>1. /\ warpPc[w] = "release" /\ WarpTask(w).hold /\ Advance(w)
      /\ UNCHANGED <<stream, acquired, published, generation, landing, content, fullPhases>>
  BY DEF ReleaseHeld, loaderVars
<1>2. /\ StreamShape /\ RingType /\ PlaceOf(w) /\ Running(w)
      /\ Cursor(w) = Base(w) + at[w].page /\ Drains(w, Cursor(w))
      /\ WarpTask(w) = Tasks[i]
  BY <1>1, WarpStart
<1>3. PICK c \in Nat : c = Base(w)
  BY <1>2 DEF Running
<1>4. at[w].page = 0 /\ WarpTask(w).group = 1 /\ LastWave(w) /\ Cursor(w) = c /\ Drains(w, c)
  BY <1>1, <1>2, <1>3 DEF PlaceOf, Running
<1>5. Low(w) = c /\ High(w) = c + 1
  BY <1>1, <1>3, <1>4 DEF Low, High
<1>6. empties' = [empties EXCEPT ![c % Pages] = @ + ReleaseArrivals(c)]
  BY <1>4 DEF ReleaseHeld, Release, SlotIndex
<1>7. PICK e \in Nat : e = NextPage(i, w, v)
  BY <1>2, NextPageFacts DEF Running
<1>8. /\ at' \in [Warp -> [task : Nat, wave : Nat, page : Nat]]
      /\ warpPc' \in [Warp -> {"tag", "full", "read", "release", "done"}]
      /\ \A u \in Warp : u # w => at'[u] = at[u] /\ warpPc'[u] = warpPc[u]
      /\ PlaceOf(w)' /\ warpPc'[w] # "full"
      /\ High(w)' = e /\ Low(w)' = e
  BY <1>1, <1>2, <1>4, <1>7, AdvanceMoves
<1>9. Aside(w)
  BY <1>1, <1>8 DEF Aside
<1>10. \A s \in Nat : Drains(w, s) => (s < e <=> s < c + 1)
  BY <1>2, <1>3, <1>4, <1>7, NextPageFacts DEF Running, Base
<1>11. \A s \in Nat : s < c + 1 <=> s < c \/ s = c
  OBVIOUS
<1>12. Reaches(w)
  BY <1>5, <1>8, <1>10 DEF Reaches
<1>13. Frees(w, c)
  BY <1>4, <1>5, <1>6, <1>8, <1>10, <1>11 DEF Frees
<1> QED
  BY <1>9, <1>12, <1>13, WarpMoves

-----------------------------------------------------------------------------
LEMMA InitInv == RingConstants /\ RingInit => RingInv
<1> SUFFICES ASSUME RingConstants, RingInit
             PROVE  RingInv
  OBVIOUS
<1>1. StreamShape /\ Total \in Nat
  BY StreamFacts, TotalIsNat DEF RingInit
<1>2. Pages \in Nat \ {0} /\ Warps \in Nat \ {0}
  BY <1>1 DEF StreamShape
<1>3. RingType
  <2>1. NoPage \in Int /\ 0 \in Nat /\ Warps \in Nat
    BY <1>2 DEF NoPage
  <2>2. at \in [Warp -> [task : Nat, wave : Nat, page : Nat]]
    BY DEF RingInit
  <2>3. warpPc \in [Warp -> {"tag", "full", "read", "release", "done"}]
    BY DEF RingInit
  <2> QED
    BY <2>1, <2>2, <2>3 DEF RingInit, Initialize, RingType
<1>4. LoaderInv
  BY <1>1, <1>2 DEF RingInit, Initialize, LoaderInv
<1>5. SlotInv
  BY <1>2 DEF RingInit, Initialize, SlotInv, FreeSlot, PageSlot
<1>6. ASSUME NEW w \in Warp
      PROVE  /\ PlaceOf(w)
             /\ warpPc[w] # "full"
             /\ \A s \in Nat : ~(Drains(w, s) /\ s < High(w))
  <2>1. at[w] = [task |-> 1, wave |-> 0, page |-> 0] /\ warpPc[w] = IF Tasks = <<>> THEN "done" ELSE "tag"
    BY DEF RingInit
  <2>2. CASE Tasks = <<>>
    <3>1. \A s : ~Drains(w, s)
      BY <2>2 DEF Drains
    <3> QED
      BY <2>1, <2>2, <3>1 DEF PlaceOf
  <2>3. CASE Tasks # <<>>
    <3>1. 1 \in DOMAIN Tasks
      <4>1. Tasks \in Seq(PageTask)
        BY DEF RingInit, RingConstants, PageStream, Tasks
      <4> QED
        BY <2>3, <4>1
    <3>2. Tasks[1].waves \in Nat \ {0} /\ Tasks[1].group \in Nat \ {0}
      BY <1>1, <1>2, <3>1 DEF StreamShape
    <3>3. PlaceOf(w)
      BY <2>1, <2>3, <3>1, <3>2 DEF PlaceOf, WarpTask
    <3>4. 0 \in Wave(1)
      BY <3>2 DEF Wave
    <3>5. PICK b \in Nat : b = PageOf(1, w, 0)
      BY <1>1, <3>1, <3>4, PageBounds
    <3>6. High(w) = b
      BY <2>1, <2>3, <3>5 DEF High, Base
    <3>7. ASSUME NEW j \in DOMAIN Tasks, NEW u \in Wave(j)
          PROVE  b <= PageOf(j, w, u)
      <4>1. j \in Nat /\ j >= 1 /\ u \in Nat /\ PageOf(j, w, u) \in Nat
        <5>1. PageOf(j, w, u) \in Nat
          BY <1>1, PageBounds
        <5> QED
          BY <1>1, <5>1 DEF Wave, StreamShape
      <4>2. CASE j = 1 /\ u = 0
        BY <3>5, <4>2
      <4>3. CASE 1 < j \/ (1 = j /\ 0 < u)
        <5>1. PageOf(1, w, 0) + Tasks[1].group <= PageOf(j, w, u)
          BY <1>1, <3>1, <3>4, <4>3, PageOrder
        <5> QED
          BY <3>2, <3>5, <4>1, <5>1
      <4> QED
        BY <4>1, <4>2, <4>3
    <3>8. \A s \in Nat : ~(Drains(w, s) /\ s < b)
      <4>1. SUFFICES ASSUME NEW s \in Nat, Drains(w, s), s < b
                     PROVE  FALSE
        OBVIOUS
      <4>2. PICK j \in DOMAIN Tasks : \E u \in Wave(j) : PageOf(j, w, u) <= s
        BY <4>1 DEF Drains
      <4>3. PICK u \in Wave(j) : PageOf(j, w, u) <= s
        BY <4>2
      <4>4. PageOf(j, w, u) \in Nat
        BY <1>1, PageBounds
      <4> QED
        BY <3>7, <4>1, <4>3, <4>4
    <3> QED
      BY <2>1, <2>3, <3>3, <3>6, <3>8
  <2> QED
    BY <2>2, <2>3
<1>7. WarpInv
  BY <1>6 DEF WarpInv
<1> QED
  BY <1>3, <1>4, <1>5, <1>7 DEF RingInv

LEMMA StepInv == ASSUME RingConstants PROVE RingInv /\ [RingNext]_ringVars => RingInv'
<1> SUFFICES ASSUME RingInv, [RingNext]_ringVars
             PROVE  RingInv'
  OBVIOUS
<1>1. CASE AcquireEmpty
  BY <1>1, AcquireInv
<1>2. CASE Publish
  BY <1>2, PublishInv
<1>3. ASSUME NEW p \in PageSlot, LandPage(p)
      PROVE  RingInv'
  BY <1>3, LandInv
<1>4. ASSUME NEW w \in Warp, WarpStep(w)
      PROVE  RingInv'
  <2>1. CASE AwaitTag(w)
    BY <2>1, AwaitTagInv
  <2>2. CASE AwaitFull(w)
    BY <2>2, AwaitFullInv
  <2>3. CASE EndRead(w)
    BY <2>3, EndReadInv
  <2>4. CASE ReleasePage(w)
    BY <2>4, ReleasePageInv
  <2>5. CASE EndHeldRead(w)
    BY <2>5, EndHeldReadInv
  <2>6. CASE ReleaseHeld(w)
    BY <2>6, ReleaseHeldInv
  <2> QED
    BY <1>4, <2>1, <2>2, <2>3, <2>4, <2>5, <2>6 DEF WarpStep
<1>5. CASE UNCHANGED ringVars
  <2>1. UNCHANGED <<stream, acquired, published, generation, landing, content, fullPhases, empties, at, warpPc>>
    BY <1>5 DEF ringVars, loaderVars, slotVars
  <2>2. StreamShape /\ RingType
    BY RingShape
  <2>3. PICK w \in Warp : w = 0
    BY <2>2 DEF StreamShape, Warp
  <2>4. SameLayout
    BY <2>1, LayoutKept
  <2>5. Low(w)' = Low(w) /\ High(w)' = High(w) /\ PlaceOf(w)' = PlaceOf(w) /\ Cursor(w)' = Cursor(w)
    BY <2>1, <2>4, PositionsKept
  <2>6. Aside(w)
    BY <2>1, <2>2 DEF Aside, RingType
  <2>7. PlaceOf(w) /\ (warpPc[w] = "full" => TagMatches(w))
    BY DEF RingInv, WarpInv
  <2>8. Reaches(w)
    BY <2>1, <2>5, <2>7 DEF Reaches, TagMatches, SlotIndex
  <2>9. Keeps(w)
    BY <2>1, <2>5 DEF Keeps
  <2> QED
    BY <2>6, <2>8, <2>9, WarpMoves
<1> QED
  BY <1>1, <1>2, <1>3, <1>4, <1>5 DEF RingNext, LoaderStep

\* The pages a warp holds are among those between Low and High.
LEMMA HeldBetween ==
    ASSUME RingConstants, RingInv, NEW w \in Warp, NEW s \in Held(w)
    PROVE  s \in Nat /\ Drains(w, s) /\ ~(s < Low(w)) /\ s < High(w)
<1>1. warpPc[w] # "done"
  BY DEF Held
<1>2. /\ StreamShape /\ RingType /\ PlaceOf(w) /\ Running(w)
      /\ warpPc \in [Warp -> {"tag", "full", "read", "release", "done"}]
      /\ WarpTask(w).group \in Nat \ {0} /\ at[w].page \in Nat
      /\ WarpTask(w) = Tasks[at[w].task]
  BY <1>1, WarpStart
<1>3. PICK b \in Nat : b = Base(w)
  BY <1>2 DEF Running
<1>4. warpPc[w] \in {"tag", "full", "read", "release"}
  BY <1>1, <1>2
<1>5. at[w].page < WarpTask(w).group /\ at[w].wave \in Nat /\ WarpTask(w).hold \in BOOLEAN
  BY <1>2 DEF Running
<1>6. \A x \in Nat : b <= x /\ x < b + WarpTask(w).group => Drains(w, x)
  BY <1>2, <1>3 DEF Running, Drains, Base
<1>7. CASE WarpTask(w).hold /\ at[w].wave > 0 /\ warpPc[w] # "release" /\ s = b - 1
  <2>1. s \in Nat /\ Drains(w, s)
    BY <1>1, <1>2, <1>3, <1>7, HeldUsed
  <2>2. Low(w) = s
    BY <1>1, <1>3, <1>7 DEF Low, Pending
  <2>3. High(w) \in {b + WarpTask(w).group, b + at[w].page}
    BY <1>1, <1>3 DEF High
  <2> QED
    BY <1>2, <1>3, <1>7, <2>1, <2>2, <2>3
<1>8. CASE ~(WarpTask(w).hold /\ at[w].wave > 0 /\ warpPc[w] # "release" /\ s = b - 1)
  <2>1. s \in (CASE warpPc[w] = "read" -> b .. (b + WarpTask(w).group - 1)
                 [] warpPc[w] = "release" -> (b + at[w].page) .. (b + WarpTask(w).group - 1)
                 [] OTHER -> b .. (b + at[w].page - 1))
    BY <1>1, <1>3, <1>8 DEF Held, Base
  <2>2. CASE warpPc[w] = "read"
    <3>1. s \in b .. (b + WarpTask(w).group - 1)
      BY <2>1, <2>2
    <3>2. Low(w) <= b /\ Low(w) \in Int /\ High(w) = b + WarpTask(w).group
      BY <1>3, <2>2 DEF Low, High, Pending
    <3> QED
      BY <1>2, <1>3, <1>6, <3>1, <3>2
  <2>3. CASE warpPc[w] = "release"
    <3>1. s \in (b + at[w].page) .. (b + WarpTask(w).group - 1)
      BY <2>1, <2>3
    <3>2. Low(w) = b + at[w].page /\ High(w) = b + WarpTask(w).group
      BY <1>3, <2>3 DEF Low, High
    <3> QED
      BY <1>2, <1>3, <1>6, <3>1, <3>2
  <2>4. CASE warpPc[w] \in {"tag", "full"}
    <3>1. s \in b .. (b + at[w].page - 1)
      BY <2>1, <2>4
    <3>2. Low(w) <= b /\ Low(w) \in Int /\ High(w) = b + at[w].page
      BY <1>3, <2>4 DEF Low, High, Pending
    <3> QED
      BY <1>2, <1>3, <1>5, <1>6, <3>1, <3>2
  <2> QED
    BY <1>4, <2>2, <2>3, <2>4
<1> QED
  BY <1>7, <1>8

LEMMA InvIntact == ASSUME RingConstants, RingInv PROVE PageIntact
<1> SUFFICES ASSUME NEW w \in Warp, NEW s \in Held(w)
             PROVE  content[SlotIndex(s)] = s
  BY DEF PageIntact
<1>1. s \in Nat /\ Drains(w, s) /\ ~(s < Low(w)) /\ s < High(w)
  BY HeldBetween
<1>2. s < published /\ generation[s % Pages] = s /\ ~landing[s % Pages]
  BY <1>1 DEF RingInv, WarpInv
<1>3. s % Pages \in PageSlot
  BY <1>1, Division DEF PageSlot, RingConstants
<1>4. TaggedSlot(s % Pages)
  BY <1>1, <1>2, <1>3 DEF RingInv, SlotInv, NoPage
<1> QED
  BY <1>2, <1>4 DEF TaggedSlot, SlotIndex

\* The inductive invariant of the ring holds for every ring, and every stream
\* of tasks a CTA may be given.
THEOREM RingInductive == RingSpec => []RingInv
<1>1. RingInit => RingInv
  BY InitInv, RingAssumption
<1>2. RingInv /\ [RingNext]_ringVars => RingInv'
  BY StepInv, RingAssumption
<1> QED
  BY <1>1, <1>2, PTL DEF RingSpec

\* A page a warp holds is a complete copy of what it asked for, until the warp
\* lets it go: no refill of its slot overtakes it and no parity misleads it.
THEOREM PagesIntact == RingSpec => []PageIntact
<1>1. RingInv => PageIntact
  BY InvIntact, RingAssumption
<1> QED
  BY <1>1, RingInductive, PTL

-----------------------------------------------------------------------------
(***************************************************************************)
(* Proofs about storage reuse.  The plan keeps, for every slot, enough of  *)
(* its history that any two buffers of the slot are ordered through one    *)
(* buffer in between that covers the older one; the run keeps this order,  *)
(* so that memory holds, at every element, the newest buffer whose writer  *)
(* has run, and no older buffer has a task left that needs it.             *)
(***************************************************************************)

Writer(b, e) == <<b, program.owner[b][e]>>

-----------------------------------------------------------------------------
(* The inductive invariant. *)

TypeInv ==
    /\ program \in Program
    /\ next \in Nat
    /\ DOMAIN aliases \subseteq Stage
    /\ \A b \in DOMAIN aliases : b < next /\ aliases[b] \in Nat
    /\ arena_bytes \in Nat
    /\ done \subseteq Task
    /\ next \in Stage => done = {}

\* Slots are disjoint, and hold what their history names.
ArenaInv ==
    /\ \A s \in slots :
          /\ s.offset \in Nat /\ s.size \in Nat \ {0} /\ s.occupant \in Nat
          /\ s.offset + s.size <= arena_bytes
          /\ s.history \subseteq DOMAIN aliases
          /\ \A h \in s.history : aliases[h] = s.offset
    /\ \A s, r \in slots :
          s = r \/ s.offset + s.size <= r.offset \/ r.offset + r.size <= s.offset

\* Each buffer of the arena lies inside a slot.
PlaceInv ==
    \A b \in DOMAIN aliases : \E s \in slots : aliases[b] = s.offset /\ Size(b) <= s.size

\* The history of a slot covers every buffer that was ever there.
HistoryInv ==
    \A s \in slots, a \in DOMAIN aliases :
        aliases[a] = s.offset =>
            \E c \in s.history : a <= c /\ Elements(a) \subseteq Elements(c)

Ordered(a, b) ==
    \E c \in DOMAIN aliases :
        /\ a <= c /\ c < b /\ aliases[c] = aliases[a]
        /\ Elements(a) \subseteq Elements(c)
        /\ StorageHazards(c, b) \subseteq hazards

\* A younger buffer is ordered after a buffer that covers the older one.
HistoryOrderInv ==
    \A a, b \in DOMAIN aliases : a < b /\ aliases[a] = aliases[b] => Ordered(a, b)

\* Edges of reuse lead to later stages; who accesses a buffer of the history
\* does so no later than the last access of the occupant.
ForwardInv ==
    /\ \A h \in hazards : h \in Task \X Task /\ h[1][1] < h[2][1]
    /\ \A s \in slots : \A h \in s.history : \A r \in Lifetime(h) :
          \E q \in Lifetime(s.occupant) : r <= q

PlanInv == TypeInv /\ ArenaInv /\ PlaceInv /\ HistoryInv /\ HistoryOrderInv /\ ForwardInv

ClosedInv == \A t \in done, q \in Task : <<q, t>> \in Couplings \cup hazards => q \in done

\* Once an element was overwritten, the old buffer's tasks there have run.
OverwrittenInv ==
    \A a, b \in DOMAIN aliases :
        a < b /\ aliases[a] = aliases[b] =>
            \A e \in Elements(a) \cap Elements(b) :
                Writer(b, e) \in done =>
                    /\ Writer(a, e) \in done
                    /\ \A t \in Task : e \in Reads(t, a) => t \in done

Stored(b, e) == Address(b, e) \in DOMAIN memory /\ memory[Address(b, e)] = b
Overwritten(b, e) ==
    \E c \in DOMAIN aliases :
        b < c /\ aliases[c] = aliases[b] /\ e \in Elements(c) /\ Writer(c, e) \in done

MemoryInv ==
    \A b \in DOMAIN aliases : \A e \in Elements(b) :
        Writer(b, e) \in done => Stored(b, e) \/ Overwritten(b, e)

RunInv == ClosedInv /\ OverwrittenInv /\ MemoryInv

Inv == PlanInv /\ RunInv

-----------------------------------------------------------------------------
(* What a program is. *)

LEMMA ProgramFacts ==
    ASSUME program \in Program
    PROVE  /\ Stage \subseteq Nat \ {0}
           /\ \A s \in Stage : Elements(s) = 1..Size(s) /\ Size(s) \in Nat \ {0}
           /\ \A s \in Stage, e \in Nat : e \in Elements(s) => program.owner[s][e] \in Nat
           /\ \A s \in Stage : \A b : b \in program.reads[s] => b \in Stage /\ b < s
<1>1. program.owner \in Seq(Seq(Nat) \ {<<>>})  BY ProgramAssumption
<1>2. Stage = 1..Len(program.owner)  BY <1>1 DEF Stage
<1>3. \A s \in Stage : program.owner[s] \in Seq(Nat) \ {<<>>}  BY <1>1, <1>2
<1>4. \A s \in Stage : Size(s) \in Nat \ {0} /\ Elements(s) = 1..Size(s)
  BY <1>3 DEF Size, Elements
<1>5. \A s \in Stage : \A b : b \in program.reads[s] => b \in Stage /\ b < s
  BY ProgramAssumption DEF Stage
<1>6. \A s \in Stage, e \in Nat : e \in Elements(s) => program.owner[s][e] \in Nat
  BY <1>3 DEF Elements
<1>7. Stage \subseteq Nat \ {0}  BY <1>2
<1> QED  BY <1>4, <1>5, <1>6, <1>7

LEMMA TaskFacts ==
    ASSUME program \in Program
    PROVE  /\ \A s \in Stage : \A e \in Elements(s) :
                 /\ Writer(s, e) \in Task /\ Writer(s, e) \in TasksOf(s)
                 /\ e \in Writes(Writer(s, e)) /\ Writer(s, e)[1] = s
           /\ \A t \in Task : /\ t[1] \in Stage /\ t \in TasksOf(t[1])
                              /\ \A e \in Writes(t) : e \in Elements(t[1]) /\ t = Writer(t[1], e)
           /\ \A s \in Stage : \A t \in TasksOf(s) : t[1] = s /\ t \in Task
BY DEF Writer, Task, TasksOf, Writes

LEMMA ReadFacts ==
    ASSUME program \in Program, NEW t \in Task, NEW b, NEW e \in Reads(t, b)
    PROVE  b \in program.reads[t[1]] /\ b \in Stage /\ e \in Elements(b) /\ t[1] \in Lifetime(b) /\ b < t[1]
BY ProgramFacts, TaskFacts DEF Reads, Lifetime, Readers

\* Couplings follow the order of the stages.
LEMMA CouplingForward ==
    ASSUME program \in Program, NEW x \in Couplings
    PROVE  x \in Task \X Task /\ x[1][1] < x[2][1]
<1>1. x \in Task \X Task /\ Writes(x[1]) \cap Reads(x[2], x[1][1]) # {}
  BY DEF Couplings
<1>2. PICK e \in Reads(x[2], x[1][1]) : TRUE
  BY <1>1
<1> QED  BY <1>1, <1>2, ReadFacts

\* The writer of an element is coupled to every task that reads it.
LEMMA WriterCoupled ==
    ASSUME program \in Program, NEW t \in Task, NEW b, NEW e \in Reads(t, b)
    PROVE  <<Writer(b, e), t>> \in Couplings /\ Writer(b, e) \in Task
<1>1. b \in Stage /\ e \in Elements(b)  BY ReadFacts
<1>2. Writer(b, e) \in Task /\ e \in Writes(Writer(b, e)) /\ Writer(b, e)[1] = b
  BY <1>1, TaskFacts
<1> QED  BY <1>2 DEF Couplings

LEMMA AlignFacts ==
    ASSUME NEW n \in Nat PROVE Align(n) \in Nat /\ n <= Align(n)
BY ProgramAssumption DEF Align

-----------------------------------------------------------------------------
(* The plan. *)

LEMMA InitPlanInv == MemoryInit => Inv
<1> SUFFICES ASSUME MemoryInit PROVE Inv  OBVIOUS
<1>1. PlanInv
  BY DEF MemoryInit, PlanInv, TypeInv, ArenaInv, PlaceInv, HistoryInv, HistoryOrderInv, ForwardInv
<1>2. RunInv
  BY DEF MemoryInit, RunInv, ClosedInv, OverwrittenInv, MemoryInv
<1> QED  BY <1>1, <1>2 DEF Inv

\* Nothing has run while the plan is made.
LEMMA NothingRan ==
    ASSUME Inv, next \in Stage, UNCHANGED <<program, runVars>>
    PROVE  RunInv'
<1>1. done' = {}  BY DEF Inv, PlanInv, TypeInv, runVars
<1> QED  BY <1>1 DEF RunInv, ClosedInv, OverwrittenInv, MemoryInv

\* The operators of a program are those of the state after it.
LEMMA SameProgram ==
    ASSUME UNCHANGED program
    PROVE  /\ Stage' = Stage /\ Task' = Task /\ Couplings' = Couplings
           /\ \A b : /\ Elements(b)' = Elements(b) /\ Size(b)' = Size(b)
                     /\ Lifetime(b)' = Lifetime(b) /\ AllReads(b)' = AllReads(b)
           /\ \A t, b : Reads(t, b)' = Reads(t, b)
           /\ \A t : Writes(t)' = Writes(t)
           /\ \A b, e : Writer(b, e)' = Writer(b, e)
           /\ \A a, b : StorageHazards(a, b)' = StorageHazards(a, b)
<1>1. /\ Stage' = Stage /\ \A b : Elements(b)' = Elements(b) /\ Size(b)' = Size(b)
  BY DEF Stage, Elements, Size
<1>2. \A s : TasksOf(s)' = TasksOf(s)  BY <1>1 DEF TasksOf
<1>3. Task' = Task  BY <1>1, <1>2 DEF Task
<1>4. \A t : Writes(t)' = Writes(t)  BY <1>1 DEF Writes
<1>5. \A t, b : Reads(t, b)' = Reads(t, b)  BY <1>1, <1>4 DEF Reads
<1>6. \A b : AllReads(b)' = AllReads(b)  BY <1>3, <1>5 DEF AllReads
<1>7. \A b : Lifetime(b)' = Lifetime(b)  BY <1>1 DEF Lifetime, Readers
<1>8. Couplings' = Couplings  BY <1>3, <1>4, <1>5 DEF Couplings
<1>9. \A a, b : StorageHazards(a, b)' = StorageHazards(a, b)
  BY <1>2, <1>3, <1>4, <1>5, <1>6 DEF StorageHazards, WAR, WAW
<1>10. \A b, e : Writer(b, e)' = Writer(b, e)  BY DEF Writer
<1> QED  BY <1>1, <1>3, <1>4, <1>5, <1>6, <1>7, <1>8, <1>9, <1>10

\* The edges between two buffers lead from the old one's lifetime to the new.
LEMMA HazardsForward ==
    ASSUME program \in Program, NEW h \in Stage, NEW b \in Stage, Over(h, b),
           NEW x \in StorageHazards(h, b)
    PROVE  x \in Task \X Task /\ x[1][1] < x[2][1]
<1>1. CASE x \in WAR(h, b)
  <2>1. x \in Task \X TasksOf(b) /\ Reads(x[1], h) # {}  BY <1>1 DEF WAR
  <2>2. x[1][1] \in Lifetime(h)  BY <2>1, ReadFacts
  <2> QED  BY <2>1, <2>2, TaskFacts DEF Over
<1>2. CASE x \in WAW(h, b)
  <2>1. x \in TasksOf(h) \X TasksOf(b)  BY <1>2 DEF WAW
  <2> QED  BY <2>1, TaskFacts DEF Over, Lifetime
<1> QED  BY <1>1, <1>2 DEF StorageHazards

LEMMA KeepApartStep == Inv /\ KeepApart => Inv'
<1> SUFFICES ASSUME Inv, KeepApart PROVE Inv'  OBVIOUS
<1>1. next \in Stage /\ next' = next + 1
  BY DEF KeepApart
<1>2. /\ UNCHANGED <<program, policy, slots, aliases, arena_bytes, hazards, done, memory>>
      /\ UNCHANGED runVars
  BY DEF KeepApart, runVars
<1>3. PlanInv  BY DEF Inv
<1>4. TypeInv'
  <2>1. done' = {} /\ program \in Program
    BY <1>1, <1>2, <1>3 DEF PlanInv, TypeInv
  <2>2. ASSUME NEW b \in DOMAIN aliases
        PROVE  b \in Stage /\ b < next' /\ aliases[b] \in Nat
    <3>1. b \in Stage /\ b < next /\ aliases[b] \in Nat /\ next \in Nat
      BY <1>3 DEF PlanInv, TypeInv
    <3>2. b \in Nat  BY <2>1, <3>1, ProgramFacts
    <3> QED  BY <1>1, <3>1, <3>2
  <2>3. next' \in Nat /\ arena_bytes \in Nat  BY <1>1, <1>3 DEF PlanInv, TypeInv
  <2> QED  BY <1>2, <2>1, <2>2, <2>3, SameProgram DEF TypeInv
<1>5. ArenaInv'  BY <1>2, <1>3 DEF PlanInv, ArenaInv
<1>6. PlaceInv'  BY <1>2, <1>3, SameProgram DEF PlanInv, PlaceInv
<1>7. HistoryInv'  BY <1>2, <1>3, SameProgram DEF PlanInv, HistoryInv
<1>8. HistoryOrderInv'
  <2> USE <1>2, <1>3, SameProgram DEF PlanInv, HistoryOrderInv
  <2>1. \A a, b : Ordered(a, b) => Ordered(a, b)'  BY DEF Ordered
  <2> QED  BY <2>1
<1>9. ForwardInv'  BY <1>2, <1>3, SameProgram DEF PlanInv, ForwardInv
<1>10. RunInv'  BY <1>1, <1>2, NothingRan
<1> QED  BY <1>4, <1>5, <1>6, <1>7, <1>8, <1>9, <1>10 DEF Inv, PlanInv

\* What placing the next buffer does to the addresses.
LEMMA PlaceAtFacts ==
    ASSUME Inv, next \in Stage, NEW address \in Nat, PlaceAt(address)
    PROVE  /\ UNCHANGED program /\ UNCHANGED runVars
           /\ next \notin DOMAIN aliases
           /\ DOMAIN aliases' = DOMAIN aliases \cup {next}
           /\ aliases'[next] = address
           /\ \A b \in DOMAIN aliases : aliases'[b] = aliases[b] /\ b < next /\ b \in Nat
           /\ RunInv'
           /\ arena_bytes' \in Nat => TypeInv'
<1>1. UNCHANGED program /\ UNCHANGED runVars  BY DEF PlaceAt
<1>2. /\ \A b \in DOMAIN aliases : b < next /\ b \in Stage /\ b \in Nat
      /\ next \in Nat /\ done = {}
  BY ProgramFacts DEF Inv, PlanInv, TypeInv
<1>3. next \notin DOMAIN aliases  BY <1>2
<1>4. /\ DOMAIN aliases' = DOMAIN aliases \cup {next}
      /\ aliases'[next] = address
      /\ \A b \in DOMAIN aliases : aliases'[b] = aliases[b]
  BY <1>3 DEF PlaceAt
<1>5. RunInv'  BY <1>1, NothingRan
<1>6. ASSUME arena_bytes' \in Nat PROVE TypeInv'
  <2>1. next' = next + 1 /\ done' = {}  BY <1>2 DEF PlaceAt, runVars
  <2>2. program' \in Program  BY <1>1 DEF Inv, PlanInv, TypeInv
  <2>3. \A b \in DOMAIN aliases' : b \in Stage /\ b < next' /\ aliases'[b] \in Nat
    BY <1>2, <1>4, <2>1 DEF Inv, PlanInv, TypeInv
  <2> QED  BY <1>1, <1>2, <1>6, <2>1, <2>2, <2>3, SameProgram DEF TypeInv
<1> QED  BY <1>1, <1>2, <1>3, <1>4, <1>5, <1>6

LEMMA OpenSlotStep == Inv /\ OpenSlot => Inv'
<1> SUFFICES ASSUME Inv, OpenSlot PROVE Inv'  OBVIOUS
<1> DEFINE opened == [offset |-> arena_bytes, size |-> Align(Size(next)),
                      occupant |-> next, history |-> {next}]
<1>1. PlanInv /\ program \in Program /\ arena_bytes \in Nat
  BY DEF Inv, PlanInv, TypeInv
<1>2. /\ next \in Stage /\ PlaceAt(arena_bytes) /\ hazards' = hazards
      /\ slots' = slots \cup {opened}
      /\ arena_bytes' = arena_bytes + Align(Size(next))
  BY DEF OpenSlot
<1>3. Size(next) \in Nat \ {0} /\ Align(Size(next)) \in Nat /\ Size(next) <= Align(Size(next))
  BY <1>1, <1>2, ProgramFacts, AlignFacts
<1>4. /\ UNCHANGED program
      /\ next \notin DOMAIN aliases /\ DOMAIN aliases' = DOMAIN aliases \cup {next}
      /\ aliases'[next] = arena_bytes
      /\ \A b \in DOMAIN aliases : aliases'[b] = aliases[b] /\ b < next /\ b \in Nat
      /\ RunInv' /\ TypeInv'
  <2>1. arena_bytes' \in Nat  BY <1>1, <1>2, <1>3
  <2> HIDE DEF opened
  <2> QED  BY <1>1, <1>2, <2>1, PlaceAtFacts
<1>5. /\ \A s \in slots : /\ s.offset \in Nat /\ s.size \in Nat \ {0} /\ s.occupant \in Nat
                           /\ s.offset + s.size <= arena_bytes
                           /\ s.history \subseteq DOMAIN aliases
                           /\ \A h \in s.history : aliases[h] = s.offset
      /\ opened.offset = arena_bytes /\ opened.size \in Nat \ {0}
      /\ opened.occupant = next /\ opened.history = {next}
      /\ Size(next) <= opened.size /\ arena_bytes' = arena_bytes + opened.size
  BY <1>1, <1>2, <1>3 DEF PlanInv, ArenaInv
<1> HIDE DEF opened
<1>6. ArenaInv'
  <2>1. ASSUME NEW s \in slots'
        PROVE  /\ s.offset \in Nat /\ s.size \in Nat \ {0} /\ s.occupant \in Nat
               /\ s.offset + s.size <= arena_bytes'
               /\ s.history \subseteq DOMAIN aliases'
               /\ \A h \in s.history : aliases'[h] = s.offset
    <3>1. CASE s \in slots  BY <1>1, <1>4, <1>5, <3>1
    <3>2. CASE s = opened
      <4>1. next \in Nat  BY <1>1, <1>2, ProgramFacts
      <4> QED  BY <1>1, <1>4, <1>5, <3>2, <4>1
    <3> QED  BY <1>2, <3>1, <3>2
  <2>2. ASSUME NEW s \in slots', NEW r \in slots'
        PROVE  s = r \/ s.offset + s.size <= r.offset \/ r.offset + r.size <= s.offset
    <3>1. CASE s \in slots /\ r \in slots  BY <1>1, <3>1 DEF PlanInv, ArenaInv
    <3>2. CASE s = opened \/ r = opened  BY <1>2, <1>5, <3>2
    <3> QED  BY <1>2, <3>1, <3>2
  <2> QED  BY <2>1, <2>2 DEF ArenaInv
<1>7. PlaceInv'
  <2>1. ASSUME NEW b \in DOMAIN aliases'
        PROVE  \E s \in slots' : aliases'[b] = s.offset /\ Size(b) <= s.size
    <3>1. CASE b = next  BY <1>2, <1>4, <1>5, <3>1
    <3>2. CASE b \in DOMAIN aliases  BY <1>1, <1>2, <1>4, <3>2 DEF PlanInv, PlaceInv
    <3> QED  BY <1>4, <3>1, <3>2
  <2> QED  BY <1>4, <2>1, SameProgram DEF PlaceInv
\* The new slot begins where the arena ended, so no older buffer is in it.
<1>8. \A b \in DOMAIN aliases : aliases[b] # arena_bytes
  <2> SUFFICES ASSUME NEW b \in DOMAIN aliases PROVE aliases[b] # arena_bytes  OBVIOUS
  <2>1. PICK s \in slots : aliases[b] = s.offset  BY <1>1 DEF PlanInv, PlaceInv
  <2> QED  BY <1>1, <1>5, <2>1
<1>9. HistoryInv'
  <2>1. ASSUME NEW s \in slots', NEW a \in DOMAIN aliases', aliases'[a] = s.offset
        PROVE  \E c \in s.history : a <= c /\ Elements(a) \subseteq Elements(c)
    <3>1. CASE s \in slots
      <4>1. s.offset # arena_bytes  BY <1>1, <1>5, <3>1
      <4>2. a \in DOMAIN aliases  BY <1>4, <2>1, <4>1
      <4> QED  BY <1>1, <1>4, <2>1, <3>1, <4>2 DEF PlanInv, HistoryInv
    <3>2. CASE s = opened
      <4>1. a = next  BY <1>4, <1>5, <1>8, <2>1, <3>2
      <4>2. next \in Nat  BY <1>1, <1>2, ProgramFacts
      <4> QED  BY <1>5, <3>2, <4>1, <4>2
    <3> QED  BY <1>2, <3>1, <3>2
  <2> QED  BY <1>4, <2>1, SameProgram DEF HistoryInv
<1>10. HistoryOrderInv'
  <2>1. ASSUME NEW a \in DOMAIN aliases', NEW b \in DOMAIN aliases',
               a < b, aliases'[a] = aliases'[b]
        PROVE  Ordered(a, b)'
    <3>1. a \in DOMAIN aliases /\ b \in DOMAIN aliases
      <4>1. next \in Nat  BY <1>1, <1>2, ProgramFacts
      <4>2. ~ (a = next)  BY <1>4, <2>1, <4>1
      <4>3. ~ (b = next)  BY <1>4, <1>8, <2>1, <4>2
      <4> QED  BY <1>4, <4>2, <4>3
    <3>2. Ordered(a, b)  BY <1>1, <1>4, <2>1, <3>1 DEF PlanInv, HistoryOrderInv
    <3> QED  BY <1>2, <1>4, <3>1, <3>2, SameProgram DEF Ordered
  <2> QED  BY <2>1 DEF HistoryOrderInv
<1>11. ForwardInv'
  <2>1. \A h \in hazards' : h \in Task \X Task /\ h[1][1] < h[2][1]
    BY <1>1, <1>2 DEF PlanInv, ForwardInv
  <2>2. ASSUME NEW s \in slots', NEW h \in s.history, NEW r \in Lifetime(h)
        PROVE  \E q \in Lifetime(s.occupant) : r <= q
    <3>1. CASE s \in slots  BY <1>1, <3>1 DEF PlanInv, ForwardInv
    <3>2. CASE s = opened
      <4>1. r \in Lifetime(next) /\ s.occupant = next  BY <1>5, <2>2, <3>2
      <4>2. r \in Nat  BY <1>1, <1>2, <4>1, ProgramFacts DEF Lifetime, Readers
      <4> QED  BY <4>1, <4>2
    <3> QED  BY <1>2, <3>1, <3>2
  <2> QED  BY <1>4, <2>1, <2>2, SameProgram DEF ForwardInv
<1> QED  BY <1>4, <1>6, <1>7, <1>9, <1>10, <1>11 DEF Inv, PlanInv

LEMMA ReuseSlotStep == Inv /\ ReuseSlot => Inv'
<1> SUFFICES ASSUME Inv, ReuseSlot PROVE Inv'  OBVIOUS
<1>1. PlanInv /\ program \in Program /\ arena_bytes \in Nat /\ next \in Stage /\ next \in Nat
  BY ProgramFacts DEF Inv, PlanInv, TypeInv, ReuseSlot
<1>2. PICK s \in Fitting(next) :
        /\ hazards' = hazards \cup UNION {StorageHazards(h, next) : h \in s.history}
        /\ slots' = (slots \ {s}) \cup
              {[offset |-> s.offset, size |-> s.size, occupant |-> next,
                history |-> Retained(s.history, next) \cup {next}]}
        /\ PlaceAt(s.offset)
  BY DEF ReuseSlot
<1> DEFINE taken == [offset |-> s.offset, size |-> s.size, occupant |-> next,
                     history |-> Retained(s.history, next) \cup {next}]
<1>3. s \in slots /\ Over(s.occupant, next) /\ Size(next) <= s.size
  BY <1>2 DEF Fitting
<1>4. /\ taken.offset = s.offset /\ taken.size = s.size /\ taken.occupant = next
      /\ taken.history = Retained(s.history, next) \cup {next}
      /\ slots' = (slots \ {s}) \cup {taken}
      /\ arena_bytes' = arena_bytes
  BY <1>2 DEF ReuseSlot
<1> HIDE DEF taken
<1>5. \A q \in slots : /\ q.offset \in Nat /\ q.size \in Nat \ {0} /\ q.occupant \in Nat
                      /\ q.offset + q.size <= arena_bytes
                      /\ q.history \subseteq DOMAIN aliases
                      /\ \A h \in q.history : aliases[h] = q.offset
  BY <1>1 DEF PlanInv, ArenaInv
<1>6. /\ UNCHANGED program
      /\ next \notin DOMAIN aliases /\ DOMAIN aliases' = DOMAIN aliases \cup {next}
      /\ aliases'[next] = s.offset
      /\ \A b \in DOMAIN aliases : aliases'[b] = aliases[b] /\ b < next /\ b \in Nat
      /\ RunInv' /\ TypeInv'
  <2>1. arena_bytes' \in Nat /\ s.offset \in Nat  BY <1>1, <1>3, <1>4, <1>5
  <2> QED  BY <1>1, <1>2, <2>1, PlaceAtFacts
<1>7. Retained(s.history, next) \subseteq s.history  BY DEF Retained
\* A slot is known by its offset, since none is empty.
<1>8. \A q \in slots : q.offset = s.offset => q = s
  BY <1>1, <1>3, <1>5 DEF PlanInv, ArenaInv
<1>9. ArenaInv'
  <2>1. ASSUME NEW q \in slots'
        PROVE  /\ q.offset \in Nat /\ q.size \in Nat \ {0} /\ q.occupant \in Nat
               /\ q.offset + q.size <= arena_bytes'
               /\ q.history \subseteq DOMAIN aliases'
               /\ \A h \in q.history : aliases'[h] = q.offset
    <3>1. CASE q \in slots  BY <1>4, <1>5, <1>6, <3>1
    <3>2. CASE q = taken  BY <1>1, <1>3, <1>4, <1>5, <1>6, <1>7, <3>2
    <3> QED  BY <1>4, <3>1, <3>2
  <2>2. ASSUME NEW q \in slots', NEW r \in slots'
        PROVE  q = r \/ q.offset + q.size <= r.offset \/ r.offset + r.size <= q.offset
    <3>1. CASE q \in slots \ {s} /\ r \in slots \ {s}  BY <1>1, <3>1 DEF PlanInv, ArenaInv
    <3>2. CASE q = taken /\ r \in slots \ {s}  BY <1>1, <1>3, <1>4, <3>2 DEF PlanInv, ArenaInv
    <3>3. CASE q \in slots \ {s} /\ r = taken  BY <1>1, <1>3, <1>4, <3>3 DEF PlanInv, ArenaInv
    <3> QED  BY <1>4, <3>1, <3>2, <3>3
  <2> QED  BY <2>1, <2>2 DEF ArenaInv
<1>10. PlaceInv'
  <2>1. ASSUME NEW b \in DOMAIN aliases'
        PROVE  \E q \in slots' : aliases'[b] = q.offset /\ Size(b) <= q.size
    <3>1. CASE b = next  BY <1>3, <1>4, <1>6, <3>1
    <3>2. CASE b \in DOMAIN aliases
      <4>1. PICK q \in slots : aliases[b] = q.offset /\ Size(b) <= q.size
        BY <1>1, <3>2 DEF PlanInv, PlaceInv
      <4>2. CASE q = s  BY <1>4, <1>6, <3>2, <4>1, <4>2
      <4>3. CASE q # s  BY <1>4, <1>6, <3>2, <4>1, <4>3
      <4> QED  BY <4>2, <4>3
    <3> QED  BY <1>6, <3>1, <3>2
  <2> QED  BY <1>6, <2>1, SameProgram DEF PlaceInv
<1>11. HistoryInv'
  <2>1. ASSUME NEW q \in slots', NEW a \in DOMAIN aliases', aliases'[a] = q.offset
        PROVE  \E c \in q.history : a <= c /\ Elements(a) \subseteq Elements(c)
    <3>1. CASE q \in slots \ {s}
      <4>1. a \in DOMAIN aliases  BY <1>6, <1>8, <2>1, <3>1
      <4> QED  BY <1>1, <1>6, <2>1, <3>1, <4>1 DEF PlanInv, HistoryInv
    <3>2. CASE q = taken /\ a = next  BY <1>1, <1>4, <3>2
    <3>3. CASE q = taken /\ a \in DOMAIN aliases
      <4>1. PICK c \in s.history : a <= c /\ Elements(a) \subseteq Elements(c)
        BY <1>1, <1>3, <1>4, <1>6, <2>1, <3>3 DEF PlanInv, HistoryInv
      <4>2. CASE c \in Retained(s.history, next)  BY <1>4, <3>3, <4>1, <4>2
      <4>3. CASE c \notin Retained(s.history, next)
        <5>1. Elements(c) \subseteq Elements(next)  BY <4>1, <4>3 DEF Retained
        <5> QED  BY <1>1, <1>4, <1>6, <3>3, <4>1, <5>1
      <4> QED  BY <4>2, <4>3
    <3> QED  BY <1>4, <1>6, <3>1, <3>2, <3>3
  <2> QED  BY <1>6, <2>1, SameProgram DEF HistoryInv
<1>12. HistoryOrderInv'
  <2>1. ASSUME NEW a \in DOMAIN aliases', NEW b \in DOMAIN aliases',
               a < b, aliases'[a] = aliases'[b]
        PROVE  Ordered(a, b)'
    <3>1. a \in DOMAIN aliases  BY <1>1, <1>6, <2>1
    <3>2. CASE b \in DOMAIN aliases
      <4>1. Ordered(a, b)  BY <1>1, <1>6, <2>1, <3>1, <3>2 DEF PlanInv, HistoryOrderInv
      <4>2. hazards \subseteq hazards'  BY <1>2
      <4> QED  BY <1>6, <3>1, <4>1, <4>2, SameProgram DEF Ordered
    <3>3. CASE b = next
      <4>1. aliases[a] = s.offset  BY <1>6, <2>1, <3>1, <3>3
      <4>2. PICK c \in s.history : a <= c /\ Elements(a) \subseteq Elements(c)
        BY <1>1, <1>3, <3>1, <4>1 DEF PlanInv, HistoryInv
      <4>3. StorageHazards(c, next) \subseteq hazards'  BY <1>2, <4>2
      <4>4. c \in DOMAIN aliases /\ aliases[c] = s.offset  BY <1>3, <1>5, <4>2
      <4> QED  BY <1>6, <3>1, <3>3, <4>1, <4>2, <4>3, <4>4, SameProgram DEF Ordered
    <3> QED  BY <1>6, <3>2, <3>3
  <2> QED  BY <2>1 DEF HistoryOrderInv
<1>13. ForwardInv'
  \* Who accesses a buffer of the slot's history is before the new buffer.
  <2>1. ASSUME NEW h \in s.history, NEW r \in Lifetime(h) PROVE r \in Nat /\ r < next
    <3>1. PICK q \in Lifetime(s.occupant) : r <= q  BY <1>1, <1>3 DEF PlanInv, ForwardInv
    <3>2. q < next  BY <1>3, <3>1 DEF Over
    <3>3. h \in Stage  BY <1>1, <1>3, <1>5 DEF PlanInv, TypeInv
    <3>4. r \in Nat  BY <1>1, <3>3, ProgramFacts DEF Lifetime, Readers
    <3>5. q \in Nat
      <4>1. s.occupant \in Nat  BY <1>3, <1>5
      <4> QED  BY <1>1, <3>1, <4>1, ProgramFacts DEF Lifetime, Readers
    <3> QED  BY <1>1, <3>1, <3>2, <3>4, <3>5
  <2>2. ASSUME NEW x \in hazards' PROVE x \in Task \X Task /\ x[1][1] < x[2][1]
    <3>1. CASE x \in hazards  BY <1>1, <3>1 DEF PlanInv, ForwardInv
    <3>2. ASSUME NEW h \in s.history, x \in StorageHazards(h, next)
          PROVE  x \in Task \X Task /\ x[1][1] < x[2][1]
      <4>1. h \in Stage  BY <1>1, <1>3, <1>5 DEF PlanInv, TypeInv
      <4>2. Over(h, next)  BY <2>1 DEF Over
      <4> QED  BY <1>1, <3>2, <4>1, <4>2, HazardsForward
    <3> QED  BY <1>2, <3>1, <3>2
  <2>3. ASSUME NEW q \in slots', NEW h \in q.history, NEW r \in Lifetime(h)
        PROVE  \E l \in Lifetime(q.occupant) : r <= l
    <3>1. CASE q \in slots  BY <1>1, <3>1 DEF PlanInv, ForwardInv
    <3>2. CASE q = taken
      <4>1. next \in Lifetime(q.occupant)  BY <1>4, <3>2 DEF Lifetime
      <4>2. CASE h = next
        <5>1. r \in Lifetime(q.occupant) /\ r \in Nat
          BY <1>1, <1>4, <3>2, <4>2, ProgramFacts DEF Lifetime, Readers
        <5> QED  BY <5>1
      <4>3. CASE h \in s.history
        <5>1. r \in Nat /\ r < next  BY <2>1, <2>3, <4>3
        <5> QED  BY <1>1, <4>1, <5>1
      <4> QED  BY <1>4, <1>7, <2>3, <3>2, <4>2, <4>3
    <3> QED  BY <1>4, <3>1, <3>2
  <2> QED  BY <1>6, <2>2, <2>3, SameProgram DEF ForwardInv
<1> QED  BY <1>6, <1>9, <1>10, <1>11, <1>12, <1>13 DEF Inv, PlanInv

-----------------------------------------------------------------------------
(* The run. *)

\* An ordered pair of buffers: once the younger's writer of an element may run,
\* the tasks of the buffer before it have all run there.
LEMMA DirectOrder ==
    ASSUME Inv, NEW c \in DOMAIN aliases, NEW b \in DOMAIN aliases,
           StorageHazards(c, b) \subseteq hazards,
           NEW e \in Elements(c) \cap Elements(b), Ready(Writer(b, e))
    PROVE  /\ Writer(c, e) \in done
           /\ \A t \in Task : e \in Reads(t, c) => t \in done
<1>1. program \in Program /\ c \in Stage /\ b \in Stage  BY DEF Inv, PlanInv, TypeInv
<1>2. /\ Writer(b, e) \in TasksOf(b) /\ e \in Writes(Writer(b, e))
      /\ Writer(c, e) \in TasksOf(c) /\ e \in Writes(Writer(c, e)) /\ Writer(c, e) \in Task
  BY <1>1, TaskFacts
<1>3. ASSUME NEW t \in Task, e \in Reads(t, c) PROVE t \in done
  <2>1. <<t, Writer(b, e)>> \in hazards
    BY <1>2, <1>3 DEF StorageHazards, WAR
  <2> QED  BY <2>1 DEF Ready
<1>4. Writer(c, e) \in done
  <2>1. CASE \E t \in Task : e \in Reads(t, c)
    <3>1. PICK t \in Task : e \in Reads(t, c)  BY <2>1
    <3>2. t \in done  BY <1>3, <3>1
    <3>3. <<Writer(c, e), t>> \in Couplings  BY <1>1, <3>1, WriterCoupled
    <3> QED  BY <1>2, <3>2, <3>3 DEF Inv, RunInv, ClosedInv
  <2>2. CASE ~ \E t \in Task : e \in Reads(t, c)
    <3>1. e \notin AllReads(c)  BY <2>2 DEF AllReads
    <3>2. <<Writer(c, e), Writer(b, e)>> \in hazards
      BY <1>2, <3>1 DEF StorageHazards, WAW
    <3> QED  BY <1>2, <3>2 DEF Ready
  <2> QED  BY <2>1, <2>2
<1> QED  BY <1>3, <1>4

LEMMA RunStep == ASSUME Inv, NEW t \in Task, Run(t) PROVE Inv'
<1>1. /\ Planned /\ Ready(t) /\ t \in Task \ done
      /\ done' = done \cup {t}
      /\ memory' = [x \in DOMAIN memory \cup Cells(t) |-> IF x \in Cells(t) THEN t[1] ELSE memory[x]]
      /\ UNCHANGED <<program, next, slots, aliases, arena_bytes, hazards>>
  BY DEF Run, Ready, planVars
<1>2. PlanInv /\ RunInv /\ program \in Program /\ DOMAIN aliases \subseteq Stage
  BY DEF Inv, PlanInv, TypeInv
<1>3. PlanInv'
  <2>1. TypeInv'
    BY <1>1, <1>2, SameProgram DEF PlanInv, TypeInv, Planned
  <2>2. ArenaInv' /\ PlaceInv' /\ HistoryInv' /\ ForwardInv'
    BY <1>1, <1>2, SameProgram DEF PlanInv, ArenaInv, PlaceInv, HistoryInv, ForwardInv
  <2>3. HistoryOrderInv'
    <3>1. \A a, b : Ordered(a, b) => Ordered(a, b)'  BY <1>1, SameProgram DEF Ordered
    <3> QED  BY <1>1, <1>2, <3>1 DEF PlanInv, HistoryOrderInv
  <2> QED  BY <2>1, <2>2, <2>3 DEF PlanInv
<1>4. ClosedInv'
  BY <1>1, <1>2, SameProgram DEF RunInv, ClosedInv, Ready
<1>5. ASSUME NEW a \in DOMAIN aliases, NEW b \in DOMAIN aliases, a < b, aliases[a] = aliases[b],
             NEW e \in Elements(a) \cap Elements(b), Writer(b, e) \in done \cup {t}
      PROVE  /\ Writer(a, e) \in done
             /\ \A u \in Task : e \in Reads(u, a) => u \in done
  <2>1. CASE Writer(b, e) \in done
    BY <1>2, <1>5, <2>1 DEF RunInv, OverwrittenInv
  <2>2. CASE Writer(b, e) = t
    <3>1. PICK c \in DOMAIN aliases :
            /\ a <= c /\ c < b /\ aliases[c] = aliases[a]
            /\ Elements(a) \subseteq Elements(c)
            /\ StorageHazards(c, b) \subseteq hazards
      BY <1>2, <1>5 DEF PlanInv, HistoryOrderInv, Ordered
    <3>2. /\ Writer(c, e) \in done
          /\ \A u \in Task : e \in Reads(u, c) => u \in done
      BY <1>1, <1>5, <2>2, <3>1, DirectOrder
    <3>3. CASE c = a  BY <3>2, <3>3
    <3>4. CASE c # a
      <4>1. a < c
        BY <1>2, <3>1, <3>4, ProgramFacts
      <4> QED  BY <1>2, <1>5, <3>1, <3>2, <4>1 DEF RunInv, OverwrittenInv
    <3> QED  BY <3>3, <3>4
  <2> QED  BY <1>5, <2>1, <2>2
<1>6. OverwrittenInv'
  BY <1>1, <1>5, SameProgram DEF OverwrittenInv
<1>7. MemoryInv'
  <2>1. ASSUME NEW b \in DOMAIN aliases, NEW e \in Elements(b), Writer(b, e) \in done \cup {t}
        PROVE  Stored(b, e)' \/ Overwritten(b, e)'
    <3>1. Address(b, e)' = Address(b, e)  BY <1>1 DEF Address
    <3>2. CASE Address(b, e) \in Cells(t) /\ t[1] = b
      <4>1. Stored(b, e)'  BY <1>1, <3>1, <3>2 DEF Stored
      <4> QED  BY <4>1
    <3>3. CASE Address(b, e) \in Cells(t) /\ t[1] # b
      <4> DEFINE c == t[1]
      <4>1. PICK f \in Writes(t) : c \in DOMAIN aliases /\ Address(b, e) = Address(c, f)
        BY <3>3 DEF Cells
      <4>2. f \in Elements(c) /\ t = Writer(c, f)  BY <1>2, <4>1, TaskFacts
      <4>3. b \in Stage /\ c \in Stage  BY <1>2, <4>1
      <4>4. aliases[c] = aliases[b] /\ f = e
        <5>1. /\ e \in 1..Size(b) /\ f \in 1..Size(c)
              /\ Size(b) \in Nat /\ Size(c) \in Nat
          BY <1>2, <2>1, <4>2, <4>3, ProgramFacts
        <5>2. PICK s \in slots : aliases[b] = s.offset /\ Size(b) <= s.size
          BY <1>2 DEF PlanInv, PlaceInv
        <5>3. PICK r \in slots : aliases[c] = r.offset /\ Size(c) <= r.size
          BY <1>2, <4>1 DEF PlanInv, PlaceInv
        <5>4. /\ s.offset \in Nat /\ s.size \in Nat /\ r.offset \in Nat /\ r.size \in Nat
              /\ s = r \/ s.offset + s.size <= r.offset \/ r.offset + r.size <= s.offset
          BY <1>2 DEF PlanInv, ArenaInv
        <5>5. s.offset + e - 1 = r.offset + f - 1  BY <4>1, <5>2, <5>3 DEF Address
        <5> HIDE DEF c
        <5>6. CASE s = r  BY <5>1, <5>2, <5>3, <5>4, <5>5, <5>6
        <5>7. CASE s # r  BY <5>1, <5>2, <5>3, <5>4, <5>5, <5>7
        <5> QED  BY <5>6, <5>7
      <4>5. CASE b < c
        <5>1. Overwritten(b, e)'
          BY <1>1, <4>1, <4>2, <4>4, <4>5, SameProgram DEF Overwritten
        <5> QED  BY <5>1
      <4>6. CASE c < b
        <5>1. Writer(c, e) \in done  BY <1>5, <2>1, <4>1, <4>2, <4>4, <4>6
        <5> QED  BY <1>1, <4>2, <4>4, <5>1
      <4> QED  BY <1>2, <3>3, <4>3, <4>5, <4>6, ProgramFacts
    <3>4. CASE Address(b, e) \notin Cells(t)
      <4>1. Writer(b, e) # t
        <5>1. SUFFICES ASSUME Writer(b, e) = t PROVE FALSE  OBVIOUS
        <5>2. t[1] = b /\ e \in Writes(t)  BY <1>2, <2>1, <5>1, TaskFacts
        <5> QED  BY <2>1, <3>4, <5>2 DEF Cells
      <4>2. Stored(b, e) \/ Overwritten(b, e)
        BY <1>2, <2>1, <4>1 DEF RunInv, MemoryInv
      <4>3. CASE Stored(b, e)
        <5>1. Stored(b, e)'  BY <1>1, <3>1, <3>4, <4>3 DEF Stored
        <5> QED  BY <5>1
      <4>4. CASE Overwritten(b, e)
        <5>1. Overwritten(b, e)'  BY <1>1, <4>4, SameProgram DEF Overwritten
        <5> QED  BY <5>1
      <4> QED  BY <4>2, <4>3, <4>4
    <3> QED  BY <3>2, <3>3, <3>4
  <2> QED  BY <1>1, <2>1, SameProgram DEF MemoryInv
<1> QED  BY <1>3, <1>4, <1>6, <1>7 DEF Inv, RunInv

LEMMA StepPlanInv == Inv /\ [MemoryNext]_memoryVars => Inv'
<1> SUFFICES ASSUME Inv, [MemoryNext]_memoryVars PROVE Inv'  OBVIOUS
<1>1. CASE KeepApart  BY <1>1, KeepApartStep
<1>2. CASE OpenSlot  BY <1>2, OpenSlotStep
<1>3. CASE ReuseSlot  BY <1>3, ReuseSlotStep
<1>4. ASSUME NEW t \in Task, Run(t) PROVE Inv'  BY <1>4, RunStep
<1>5. CASE UNCHANGED memoryVars
  <2>1. /\ UNCHANGED <<program, next, slots, aliases, arena_bytes, hazards, done, memory>>
    BY <1>5 DEF memoryVars, planVars, runVars
  <2>2. TypeInv' /\ ArenaInv' /\ PlaceInv' /\ HistoryInv' /\ ForwardInv'
    BY <2>1, SameProgram
       DEF Inv, PlanInv, TypeInv, ArenaInv, PlaceInv, HistoryInv, ForwardInv
  <2>3. HistoryOrderInv'
    <3>1. \A a, b : Ordered(a, b) => Ordered(a, b)'  BY <2>1, SameProgram DEF Ordered
    <3> QED  BY <2>1, <3>1 DEF Inv, PlanInv, HistoryOrderInv
  <2>4. ClosedInv' /\ OverwrittenInv'
    BY <2>1, SameProgram DEF Inv, RunInv, ClosedInv, OverwrittenInv
  <2>5. MemoryInv'
    BY <2>1, SameProgram DEF Inv, RunInv, MemoryInv, Stored, Overwritten, Address
  <2> QED  BY <2>2, <2>3, <2>4, <2>5 DEF Inv, PlanInv, RunInv
<1> QED  BY <1>1, <1>2, <1>3, <1>4, <1>5 DEF MemoryNext

-----------------------------------------------------------------------------
(* What follows. *)

LEMMA Invariance == MemorySpec => []Inv
<1>1. MemoryInit => Inv  BY InitPlanInv
<1>2. Inv /\ [MemoryNext]_memoryVars => Inv'  BY StepPlanInv
<1> QED  BY <1>1, <1>2, PTL DEF MemorySpec

LEMMA PlanInvIntact == Inv => InputsIntact
<1> SUFFICES ASSUME Inv, Planned, NEW t \in Task, Ready(t), NEW b \in DOMAIN aliases, NEW e \in Reads(t, b)
             PROVE  Address(b, e) \in DOMAIN memory /\ memory[Address(b, e)] = b
  BY DEF InputsIntact
<1>1. program \in Program  BY DEF Inv, PlanInv, TypeInv
<1>2. <<Writer(b, e), t>> \in Couplings /\ Writer(b, e) \in Task /\ e \in Elements(b)
  BY <1>1, WriterCoupled, ReadFacts
<1>3. Writer(b, e) \in done /\ t \notin done  BY <1>2 DEF Ready
<1>4. Stored(b, e) \/ Overwritten(b, e)  BY <1>2, <1>3 DEF Inv, RunInv, MemoryInv
<1>5. ~ Overwritten(b, e)
  BY <1>2, <1>3 DEF Inv, RunInv, OverwrittenInv, Overwritten
<1> QED  BY <1>4, <1>5 DEF Stored

(* Whatever the program, the policy and the order in which ready tasks run: a  *)
(* task about to run finds its inputs in the shared arena as they were written.*)
THEOREM Intact == MemorySpec => []InputsIntact
BY Invariance, PlanInvIntact, PTL

\* Stages can be compared, so some stage with a task left is the first.
LEMMA FirstStage ==
    ASSUME NEW S, S \subseteq Nat, S # {}
    PROVE  \E s \in S : \A r \in S : s <= r
<1> DEFINE Less == {p \in Nat \X Nat : p[1] < p[2]}
<1>1. IsWellFoundedOn(Less, Nat)  BY NatLessThanWellFounded DEF OpToRel
<1>2. \E s \in S : \A r \in S : <<r, s>> \notin Less
  <2> HIDE DEF Less
  <2> QED  BY <1>1, WFMin
<1>3. PICK s \in S : \A r \in S : <<r, s>> \notin Less  BY <1>2
<1>4. ASSUME NEW r \in S PROVE s <= r
  <2>1. ~ (r < s)  BY <1>3
  <2> QED  BY <2>1
<1> QED  BY <1>4

LEMMA InvAcyclic == Inv => EdgesAcyclic
<1> SUFFICES ASSUME Inv, Planned, done # Task PROVE \E t \in Task : Ready(t)
  BY DEF EdgesAcyclic
<1> DEFINE S == {t[1] : t \in Task \ done}
<1>1. program \in Program /\ done \subseteq Task  BY DEF Inv, PlanInv, TypeInv
<1>2. S \subseteq Nat /\ S # {}
  <2>1. \A t \in Task : t[1] \in Nat  BY <1>1, TaskFacts, ProgramFacts
  <2>2. \E t \in Task : t \notin done  BY <1>1
  <2> QED  BY <2>1, <2>2
<1>3. PICK s \in S : \A r \in S : s <= r
  <2> HIDE DEF S
  <2> QED  BY <1>2, FirstStage
<1>4. PICK t \in Task \ done : t[1] = s  BY <1>3
<1>5. ASSUME NEW q \in Task, <<q, t>> \in Couplings \cup hazards PROVE q \in done
  <2>1. q[1] < t[1]
    BY <1>1, <1>5, CouplingForward DEF Inv, PlanInv, ForwardInv
  <2>2. q[1] \in Nat /\ t[1] \in Nat  BY <1>1, TaskFacts, ProgramFacts
  <2>3. q[1] \notin S  BY <1>3, <1>4, <2>1, <2>2
  <2> QED  BY <1>5, <2>3
<1> QED  BY <1>4, <1>5 DEF Ready

(* Whatever the program, the edges of reuse leave the task graph acyclic: as   *)
(* long as a task is left, one is ready.                                       *)
THEOREM Acyclic == MemorySpec => []EdgesAcyclic
BY Invariance, InvAcyclic, PTL

-----------------------------------------------------------------------------
(***************************************************************************)
(* The measurement queue over any number of crashes and restarts, for any  *)
(* set of steps and any dependencies between them.                         *)
(*                                                                         *)
(* What carries a command over a crash is on disk: a command runs only     *)
(* while its row says so there, because both files are written between the *)
(* choice and the start, and a scheduler comes up only if no row does.     *)
(***************************************************************************)
Statuses == {"absent", "pending", "running"} \cup Terminal
Row == [status : Statuses, attempts : Nat, retry_at : Nat]
Book == [rows : [Step -> Row], control : [idle_wait_since : Nat, timing_paused : BOOLEAN]]

Points == {"down", "exited", "loop", "dispatch", "persist", "persist_control",
           "launch", "wait", "sleep"}
Returns == {"loop", "dispatch", "launch", "sleep", "exited"}

QueueType ==
    /\ queue \in [Step -> {"later", "here", "moved"}]
    /\ mem \in Book /\ disk \in Book
    /\ doing \in Points /\ back \in Returns
    /\ deadline \in Nat /\ now \in Nat /\ starts \in Nat
    /\ todo \in [ready : SUBSET Step, skipped : SUBSET Step]
    /\ code \in {NoCode, "done", "failed", "retry"}
    /\ live \subseteq [step : Step, attempt : Nat]
    /\ receipts \subseteq Step \X Statuses

\* From the choice of a step to its verdict, the scheduler's rows have one
\* that says running; at any other time they have none.
Persisting == doing \in {"persist", "persist_control"}
Starting == doing = "launch" \/ (Persisting /\ back = "launch")
RunningCommand(rows) == {s \in Step : rows[s].status = "running"}

RecordInv ==
    /\ Starting \/ doing = "wait" => \E s \in Step : RunningCommand(mem.rows) = {s}
    /\ ~(Starting \/ doing = "wait") => RunningCommand(mem.rows) = {}

\* What is on disk and what is in memory: the same once both files are
\* written for a start, and a verdict on disk is in memory too.
DiskInv ==
    /\ \A s, t \in RunningCommand(disk.rows) : s = t
    /\ doing \in {"launch", "wait", "persist_control"} => disk.rows = mem.rows
    /\ doing \notin {"down", "exited"} =>
          \A s \in Step : disk.rows[s].status \in Terminal => mem.rows[s] = disk.rows[s]

\* A command outlives only a scheduler that waited for it.
LiveInv ==
    /\ live # {} => doing \in {"wait", "down"}
    /\ code # NoCode => live = {}
    /\ \A c \in live : disk.rows[c.step].status = "running"
                       /\ disk.rows[c.step].attempts = c.attempt

Settled(rows, s) ==
    /\ \A d \in After[s] : rows[d].status = "done"
    /\ \A d \in AfterAny[s] : rows[d].status \in Terminal

\* What ready_steps returned stays true until the step is started.
TodoInv ==
    /\ doing = "dispatch" \/ (Persisting /\ back = "dispatch") \/ todo = NoTodo
    /\ \A s \in todo.ready : Settled(mem.rows, s) /\ Status(s) = "pending"
    /\ \A s \in todo.skipped : Status(s) = "pending" /\ s \notin todo.ready
    /\ Starting \/ doing = "wait" => \A s \in RunningCommand(mem.rows) : Settled(mem.rows, s)
    /\ \A c \in live : Settled(disk.rows, c.step)

ReceiptInv ==
    \A s \in Step :
        /\ mem.rows[s].status \in Terminal => <<s, mem.rows[s].status>> \in receipts
        /\ disk.rows[s].status \in Terminal => <<s, disk.rows[s].status>> \in receipts

QueueInv ==
    /\ QueueType /\ RecordInv /\ DiskInv /\ LiveInv /\ TodoInv /\ ReceiptInv

-----------------------------------------------------------------------------
(***************************************************************************)
(* What the parts of an action do.                                         *)
(***************************************************************************)
LEMMA PointFacts ==
    ASSUME NEW p
    PROVE  /\ Go(p) => doing' = p /\ back' = back
           /\ PersistThen(p) => doing' = "persist" /\ back' = p
BY DEF Go, PersistThen

\* A row is replaced and its receipt added; what is written is a whole row.
LEMMA RecordFacts ==
    ASSUME QueueType, NEW s \in Step, NEW row \in Row,
           NEW control \in [idle_wait_since : Nat, timing_paused : BOOLEAN],
           NEW after \in Returns, Record(s, row, control, after)
    PROVE  /\ mem' \in Book
           /\ \A t \in Step : mem'.rows[t] = IF t = s THEN row ELSE mem.rows[t]
           /\ doing' = "persist" /\ back' = after
           /\ receipts \subseteq receipts' /\ receipts' \subseteq Step \X Statuses
           /\ row.status \in Terminal => <<s, row.status>> \in receipts'
BY DEF Record, QueueType, Book, Row, PersistThen

LEMMA NewRowFacts ==
    /\ NoRow \in Row /\ NewRow \in Row /\ NoRow.status = "absent" /\ NewRow.status = "pending"
    /\ NewControl \in [idle_wait_since : Nat, timing_paused : BOOLEAN]
    /\ Blank \in Book
<1>1. NoRow \in Row /\ NewRow \in Row /\ NoRow.status = "absent" /\ NewRow.status = "pending"
  BY DEF NoRow, NewRow, Row, Statuses
<1>2. Never \in Nat
  BY BoundAssumption DEF Never
<1>3. NewControl \in [idle_wait_since : Nat, timing_paused : BOOLEAN]
  BY <1>2 DEF NewControl
<1>4. Blank \in Book
  BY <1>1, <1>3 DEF Blank, Book
<1>5. QED
  BY <1>1, <1>3, <1>4

LEMMA TimingPauseType ==
    ASSUME QueueType
    PROVE  TimingPause(mem.control) \in [idle_wait_since : Nat, timing_paused : BOOLEAN]
<1>1. mem.control \in [idle_wait_since : Nat, timing_paused : BOOLEAN] /\ now \in Nat
  BY DEF QueueType, Book
<1>2. Never \in Nat
  BY BoundAssumption DEF Never
<1>3. QED
  BY <1>1, <1>2 DEF TimingPause

\* A scan adds rows for what is new in the queue and changes no other row.
LEMMA ScanFacts ==
    ASSUME QueueType
    PROVE  /\ WithQueued(mem.rows) \in [Step -> Row]
           /\ \A s \in Step : WithQueued(mem.rows)[s] # mem.rows[s] =>
                 mem.rows[s] = NoRow /\ WithQueued(mem.rows)[s] = NewRow
<1>1. mem.rows \in [Step -> Row]
  BY DEF QueueType, Book
<1>2. QED
  BY <1>1, NewRowFacts DEF WithQueued

\* One of the scheduler's rows says running: it is the one it has chosen.
LEMMA ChosenIsRunning ==
    ASSUME NEW s \in Step, RunningCommand(mem.rows) = {s}
    PROVE  Chosen = s
<1>1. \A t \in Step : Status(t) = "running" <=> t = s
  BY DEF RunningCommand, Status
<1>2. QED
  BY <1>1 DEF Chosen

LEMMA CommandType ==
    ASSUME QueueType, \E s \in Step : RunningCommand(mem.rows) = {s}
    PROVE  Command \in [step : Step, attempt : Nat]
<1>1. PICK s \in Step : RunningCommand(mem.rows) = {s}
  OBVIOUS
<1>2. Chosen = s
  BY <1>1, ChosenIsRunning
<1>3. mem.rows[s].attempts \in Nat
  BY DEF QueueType, Book, Row
<1>4. QED
  BY <1>2, <1>3 DEF Command

\* The chosen step's row, and no other, says running on a new attempt.
LEMMA DispatchedRows ==
    ASSUME QueueType, NEW chosen \in Step
    PROVE  LET rows == [mem.rows EXCEPT ![chosen].status = "running",
                                        ![chosen].attempts = @ + 1]
           IN  /\ rows \in [Step -> Row]
               /\ rows[chosen].status = "running"
               /\ \A t \in Step : t # chosen => rows[t] = mem.rows[t]
<1> DEFINE f == [mem.rows EXCEPT ![chosen].status = "running"]
           c == [mem.rows[chosen] EXCEPT !.status = "running"]
           d == [c EXCEPT !.attempts = @ + 1]
<1>1. mem.rows \in [Step -> Row] /\ mem.rows[chosen] \in Row
  BY DEF QueueType, Book
<1>2. c \in Row /\ c.status = "running"
  BY <1>1 DEF Row, Statuses
<1>3. d \in Row /\ d.status = "running"
  <2> HIDE DEF c
  <2>1. QED
    BY <1>2 DEF Row
<1>4. f \in [Step -> Row] /\ f[chosen] = c
      /\ \A t \in Step : t # chosen => f[t] = mem.rows[t]
  BY <1>1, <1>2
<1> HIDE DEF c, f
<1>5. [f EXCEPT ![chosen].attempts = @ + 1] = [f EXCEPT ![chosen] = d]
  BY <1>4
<1> HIDE DEF d
<1>6. LET rows == [f EXCEPT ![chosen] = d]
      IN  /\ rows \in [Step -> Row]
          /\ rows[chosen] = d
          /\ \A t \in Step : t # chosen => rows[t] = mem.rows[t]
  BY <1>3, <1>4
<1>7. QED
  BY <1>3, <1>5, <1>6 DEF f

\* What is recorded of an ended command: a verdict, or another attempt later.
LEMMA CollectedRow ==
    ASSUME QueueType, NEW s \in Step, Chosen = s, Collect
    PROVE  \E row \in Row, control \in [idle_wait_since : Nat, timing_paused : BOOLEAN] :
              row.status \in {"done", "failed", "pending"} /\ Record(s, row, control, "loop")
<1> DEFINE Control == [idle_wait_since : Nat, timing_paused : BOOLEAN]
<1>1. mem.rows[s] \in Row /\ mem.control \in Control /\ now \in Nat
  BY DEF QueueType, Book
<1>2. CASE code = "retry"
  <2>1. PICK cooldown \in 1 .. 2 :
          Record(s, [mem.rows[s] EXCEPT !.status = "pending", !.retry_at = now + cooldown],
                 mem.control, "loop")
    BY <1>2 DEF Collect
  <2> DEFINE c == [mem.rows[s] EXCEPT !.status = "pending"]
             row == [c EXCEPT !.retry_at = now + cooldown]
  <2>2. c \in Row /\ c.status = "pending"
    BY <1>1 DEF Row, Statuses
  <2>3. row \in Row /\ row.status = "pending"
    <3> HIDE DEF c
    <3>1. QED
      BY <1>1, <2>2 DEF Row
  <2>4. Record(s, row, mem.control, "loop")
    BY <2>1
  <2>5. QED
    BY <1>1, <2>3, <2>4
<1>3. CASE code # "retry"
  <2> DEFINE row == [mem.rows[s] EXCEPT !.status = code]
             control == IF code = "done" /\ s \in Timed
                        THEN [mem.control EXCEPT !.idle_wait_since = Never] ELSE mem.control
  <2>1. code \in {"done", "failed"}
    BY <1>3 DEF Collect, QueueType
  <2>2. row \in Row /\ row.status \in {"done", "failed"}
    BY <1>1, <2>1 DEF Row, Statuses, Terminal
  <2>3. control \in Control
    BY <1>1, BoundAssumption DEF Never
  <2>4. Record(s, row, control, "loop")
    BY <1>3 DEF Collect
  <2>5. QED
    BY <2>2, <2>3, <2>4
<1>4. QED
  BY <1>2, <1>3

\* A reset row is pending again; the other rows stay as they were.
LEMMA ResetFacts ==
    ASSUME QueueType, ResetRow
    PROVE  \E s \in Step :
              /\ disk.rows[s].status = "running" /\ \A c \in live : c.step # s
              /\ disk' \in Book /\ disk'.rows[s].status = "pending"
              /\ \A t \in Step : t # s => disk'.rows[t] = disk.rows[t]
<1>1. PICK s \in Step : /\ disk.rows[s].status = "running"
                        /\ \A c \in live : c.step # s
                        /\ disk' = [disk EXCEPT !.rows[s].status = "pending"]
  BY DEF ResetRow
<1> DEFINE row == [disk.rows[s] EXCEPT !.status = "pending"]
<1>2. row \in Row /\ row.status = "pending"
  BY DEF QueueType, Book, Row, Statuses
<1>3. disk' = [disk EXCEPT !.rows = [disk.rows EXCEPT ![s] = row]]
  BY <1>1
<1> HIDE DEF row
<1> DEFINE rows == [disk.rows EXCEPT ![s] = row]
<1>4. /\ rows \in [Step -> Row] /\ rows[s] = row
      /\ \A t \in Step : t # s => rows[t] = disk.rows[t]
  BY <1>2 DEF QueueType, Book
<1> HIDE DEF rows
<1>5. disk' \in Book /\ disk'.rows = rows
  BY <1>3, <1>4 DEF QueueType, Book, rows
<1>6. QED
  BY <1>1, <1>2, <1>4, <1>5

-----------------------------------------------------------------------------
(***************************************************************************)
(* Types.                                                                  *)
(***************************************************************************)
LEMMA TypePlanStep ==
    ASSUME QueueInv, QueueNext
    PROVE  QueueType'
<1> USE DEF Points, Returns, Go, PersistThen
<1>0. QueueType
  BY DEF QueueInv
<1>1. CASE Start
  <2>1. mem' \in Book
    BY <1>0, <1>1, NewRowFacts DEF Start, QueueType, Book
  <2>2. QED
    BY <1>0, <1>1, <2>1, BoundAssumption DEF Start, QueueType, NoTodo, fileVars
<1>2. CASE ScanQueue
  <2>1. mem' \in Book
    BY <1>0, <1>2, ScanFacts DEF ScanQueue, QueueType, Book
  <2>2. todo' \in [ready : SUBSET Step, skipped : SUBSET Step]
    BY <1>2 DEF ScanQueue, ReadySteps, Here
  <2>3. QED
    BY <1>0, <1>2, <2>1, <2>2 DEF ScanQueue, QueueType, fileVars
<1>3. CASE NoDiskSpace \/ Sleep \/ CommandGoesOn \/ QueueFileChanges
  BY <1>0, <1>3 DEF NoDiskSpace, Sleep, CommandGoesOn, QueueFileChanges, QueueType,
                    fileVars, schedulerVars
<1>4. CASE SkipStep
  <2>1. PICK s \in todo.skipped :
          /\ todo' = [todo EXCEPT !.skipped = @ \ {s}]
          /\ Record(s, [mem.rows[s] EXCEPT !.status = "skipped"], mem.control, "dispatch")
    BY <1>4 DEF SkipStep
  <2>2. s \in Step /\ mem.control \in [idle_wait_since : Nat, timing_paused : BOOLEAN]
    BY <1>0, <2>1 DEF QueueType, Book
  <2>3. [mem.rows[s] EXCEPT !.status = "skipped"] \in Row
    BY <1>0, <2>2 DEF QueueType, Book, Row, Statuses, Terminal
  <2>4. mem' \in Book /\ receipts' \subseteq Step \X Statuses /\ doing' = "persist" /\ back' = "dispatch"
    BY <1>0, <2>1, <2>2, <2>3, RecordFacts
  <2>5. QED
    BY <1>0, <1>4, <2>1, <2>4 DEF SkipStep, QueueType
<1>5. CASE Dispatch
  <2>1. PICK chosen \in todo.ready :
          /\ mem' = [rows |-> [mem.rows EXCEPT ![chosen].status = "running",
                                               ![chosen].attempts = @ + 1],
                     control |-> TimingPause(mem.control)]
    BY <1>5 DEF Dispatch
  <2>2. mem' \in Book
    BY <1>0, <2>1, TimingPauseType, DispatchedRows DEF QueueType, Book
  <2>3. QED
    BY <1>0, <1>5, <2>2 DEF Dispatch, QueueType, NoTodo, fileVars
<1>6. CASE NoAttemptFolder \/ NothingToDispatch
  <2>1. mem' \in Book
    BY <1>0, <1>6, TimingPauseType DEF NoAttemptFolder, NothingToDispatch, QueueType, Book
  <2>2. QED
    BY <1>0, <1>6, <2>1 DEF NoAttemptFolder, NothingToDispatch, QueueType, NoTodo, fileVars
<1>7. CASE PersistState \/ PersistControl
  <2>1. disk' \in Book
    BY <1>0, <1>7 DEF PersistState, PersistControl, QueueType, Book
  <2>2. QED
    BY <1>0, <1>7, <2>1 DEF PersistState, PersistControl, QueueType
<1>8. CASE Launch
  <2>1. Command \in [step : Step, attempt : Nat]
    BY <1>0, <1>8, CommandType DEF Launch, QueueInv, RecordInv, Starting
  <2>2. QED
    BY <1>0, <1>8, <2>1 DEF Launch, QueueType, fileVars, NoCode
<1>9. CASE Timeout \/ CommandEnds
  BY <1>0, <1>9 DEF Timeout, CommandEnds, QueueType, fileVars
<1>10. CASE Collect
  <2>1. PICK s \in Step : RunningCommand(mem.rows) = {s} /\ Chosen = s
    BY <1>10, ChosenIsRunning DEF Collect, QueueInv, RecordInv
  <2>2. mem.control \in [idle_wait_since : Nat, timing_paused : BOOLEAN] /\ mem.rows[s] \in Row
    BY <1>0 DEF QueueType, Book
  <2>3. PICK row \in Row, control \in [idle_wait_since : Nat, timing_paused : BOOLEAN] :
          row.status \in {"done", "failed", "pending"} /\ Record(s, row, control, "loop")
    BY <1>0, <1>10, <2>1, CollectedRow, Zenon
  <2>4. mem' \in Book /\ receipts' \subseteq Step \X Statuses /\ doing' = "persist" /\ back' = "loop"
    BY <1>0, <2>3, RecordFacts
  <2>5. QED
    BY <1>0, <1>10, <2>4 DEF Collect, QueueType, NoCode
<1>11. CASE GiveUp
  <2>1. CASE \E s \in Step : Status(s) = "pending"
    <3>1. PICK s \in Step : Record(s, [mem.rows[s] EXCEPT !.status = "not_run"], mem.control, "loop")
      BY <1>11, <2>1 DEF GiveUp
    <3>2. mem.control \in [idle_wait_since : Nat, timing_paused : BOOLEAN]
      BY <1>0 DEF QueueType, Book
    <3>3. [mem.rows[s] EXCEPT !.status = "not_run"] \in Row
      BY <1>0 DEF QueueType, Book, Row, Statuses, Terminal
    <3>4. mem' \in Book /\ receipts' \subseteq Step \X Statuses /\ doing' = "persist" /\ back' = "loop"
      BY <1>0, <3>1, <3>2, <3>3, RecordFacts
    <3>5. QED
      BY <1>0, <1>11, <3>4 DEF GiveUp, QueueType
  <2>2. CASE ~\E s \in Step : Status(s) = "pending"
    BY <1>0, <1>11, <2>2 DEF GiveUp, QueueType
  <2>3. QED
    BY <2>1, <2>2
<1>12. CASE Crash
  BY <1>0, <1>12, NewRowFacts DEF Crash, QueueType, NoTodo, NoCode, fileVars
<1>13. CASE ResetRow
  <2>1. disk' \in Book
    BY <1>0, <1>13, ResetFacts
  <2>2. QED
    BY <1>0, <1>13, <2>1 DEF ResetRow, QueueType, schedulerVars
<1>14. QED
  BY <1>1, <1>2, <1>3, <1>4, <1>5, <1>6, <1>7, <1>8, <1>9, <1>10, <1>11, <1>12, <1>13
  DEF QueueNext, Scheduler

-----------------------------------------------------------------------------
(***************************************************************************)
(* The steps.  Most leave the rows alone; a record replaces one that has   *)
(* no verdict yet.                                                         *)
(***************************************************************************)
RowInv == RecordInv /\ DiskInv /\ LiveInv /\ TodoInv /\ ReceiptInv

LEMMA NothingSchedulerSees ==
    ASSUME QueueInv, UNCHANGED <<disk, receipts, schedulerVars, live>>
    PROVE  RowInv'
BY DEF QueueInv, RowInv, RecordInv, DiskInv, LiveInv, TodoInv, ReceiptInv, schedulerVars,
       RunningCommand, Starting, Persisting, Settled, Status

\* The scheduler goes on with nothing chosen.
LEMMA CalmStep ==
    ASSUME QueueInv, doing \in {"loop", "sleep", "dispatch"},
           doing' \in {"loop", "sleep", "persist", "exited"},
           doing' = "persist" => back' \in {"exited", "sleep"},
           todo' = NoTodo, mem'.rows = mem.rows,
           UNCHANGED <<disk, receipts, live, code>>
    PROVE  RowInv'
<1>1. RecordInv'
  BY DEF QueueInv, RecordInv, RunningCommand, Starting, Persisting
<1>2. DiskInv'
  BY DEF QueueInv, DiskInv
<1>3. LiveInv'
  BY DEF QueueInv, LiveInv
<1>4. TodoInv'
  BY DEF QueueInv, LiveInv, TodoInv, NoTodo, Starting, Persisting
<1>5. ReceiptInv'
  BY DEF QueueInv, ReceiptInv
<1>6. QED
  BY <1>1, <1>2, <1>3, <1>4, <1>5 DEF RowInv

\* A row without a verdict is recorded and no command is left.
LEMMA RecordStep ==
    ASSUME QueueInv, doing \notin {"down", "exited", "launch", "persist", "persist_control"},
           NEW s \in Step, RunningCommand(mem.rows) \subseteq {s},
           mem.rows[s].status \in {"pending", "running"},
           NEW row \in Row, row.status # "running",
           NEW control \in [idle_wait_since : Nat, timing_paused : BOOLEAN],
           NEW after \in Returns, after # "launch",
           Record(s, row, control, after),
           live = {}, live' = {}, disk' = disk,
           row.status \in Terminal \/ disk.rows[s].status \notin Terminal
    PROVE  RecordInv' /\ DiskInv' /\ LiveInv' /\ ReceiptInv'
<1>1. /\ \A t \in Step : mem'.rows[t] = IF t = s THEN row ELSE mem.rows[t]
      /\ doing' = "persist" /\ back' = after /\ receipts \subseteq receipts'
      /\ row.status \in Terminal => <<s, row.status>> \in receipts'
  BY RecordFacts DEF QueueInv
<1>2. RecordInv'
  BY <1>1 DEF RecordInv, RunningCommand, Starting, Persisting
<1>3. disk.rows[s].status \notin Terminal
  BY DEF QueueInv, DiskInv, Terminal
<1>4. DiskInv'
  BY <1>1, <1>3 DEF QueueInv, DiskInv
<1>5. LiveInv'
  BY DEF LiveInv
<1>6. ReceiptInv'
  BY <1>1 DEF QueueInv, ReceiptInv
<1>7. QED
  BY <1>2, <1>4, <1>5, <1>6

LEMMA StartStep ==
    ASSUME QueueInv, Start
    PROVE  RowInv'
<1>1. /\ doing \in {"down", "exited"} /\ doing' = "loop" /\ mem'.rows = disk.rows
      /\ RunningCommand(disk.rows) = {}
      /\ disk' = disk /\ receipts' = receipts /\ live' = live
      /\ todo' = NoTodo /\ code' = NoCode
  BY DEF Start, NothingRunning, RunningCommand, QueueInv, QueueType, Book, Go, fileVars
<1>2. live = {}
  <2>1. \A c \in live : c.step \in Step
    BY DEF QueueInv, QueueType
  <2>2. QED
    BY <1>1, <2>1 DEF QueueInv, LiveInv, RunningCommand
<1>3. RecordInv'
  BY <1>1 DEF RecordInv, RunningCommand, Starting, Persisting
<1>4. DiskInv'
  BY <1>1 DEF QueueInv, DiskInv
<1>5. LiveInv'
  BY <1>1, <1>2 DEF LiveInv
<1>6. TodoInv'
  BY <1>1, <1>2 DEF TodoInv, NoTodo, Starting, Persisting
<1>7. ReceiptInv'
  BY <1>1 DEF QueueInv, ReceiptInv
<1>8. QED
  BY <1>3, <1>4, <1>5, <1>6, <1>7 DEF RowInv

LEMMA ScanStep ==
    ASSUME QueueInv, ScanQueue
    PROVE  RowInv'
<1> DEFINE rows == WithQueued(mem.rows)
<1>1. /\ doing = "loop" /\ doing' = "dispatch" /\ mem'.rows = rows
      /\ todo' = ReadySteps(rows) /\ live = {} /\ live' = {}
      /\ UNCHANGED <<disk, receipts, code>>
  BY DEF ScanQueue, QueueInv, LiveInv, QueueType, Book, Go, fileVars
<1>2. /\ rows \in [Step -> Row]
      /\ \A s \in Step : rows[s] # mem.rows[s] =>
            mem.rows[s].status = "absent" /\ rows[s].status = "pending"
  BY ScanFacts, NewRowFacts DEF QueueInv
<1>3. /\ todo'.ready \subseteq Step /\ todo'.skipped \subseteq Step
      /\ \A s \in todo'.ready : Settled(rows, s) /\ rows[s].status = "pending"
      /\ \A s \in todo'.skipped : rows[s].status = "pending" /\ s \notin todo'.ready
  BY <1>1 DEF ReadySteps, Here, Settled
<1> HIDE DEF rows
<1>4. RecordInv'
  BY <1>1, <1>2 DEF QueueInv, RecordInv, RunningCommand, Starting, Persisting
<1>5. DiskInv'
  <2>1. ASSUME NEW s \in Step, disk.rows[s].status \in Terminal
        PROVE  rows[s] = disk.rows[s]
    BY <1>1, <1>2, <2>1 DEF QueueInv, DiskInv, Terminal
  <2>2. QED
    BY <1>1, <2>1 DEF QueueInv, DiskInv
<1>6. LiveInv'
  BY <1>1 DEF LiveInv
<1>7. TodoInv'
  BY <1>1, <1>3 DEF TodoInv, Settled, Status, Starting, Persisting
<1>8. ReceiptInv'
  BY <1>1, <1>2 DEF QueueInv, ReceiptInv, Terminal
<1>9. QED
  BY <1>4, <1>5, <1>6, <1>7, <1>8 DEF RowInv

LEMMA SkipStepStep ==
    ASSUME QueueInv, SkipStep
    PROVE  RowInv'
<1>1. PICK s \in todo.skipped :
        /\ todo' = [todo EXCEPT !.skipped = @ \ {s}]
        /\ Record(s, [mem.rows[s] EXCEPT !.status = "skipped"], mem.control, "dispatch")
  BY DEF SkipStep
<1> DEFINE row == [mem.rows[s] EXCEPT !.status = "skipped"]
<1>2. /\ doing = "dispatch" /\ s \in Step /\ mem.rows[s].status = "pending"
      /\ row \in Row /\ row.status = "skipped"
      /\ mem.control \in [idle_wait_since : Nat, timing_paused : BOOLEAN]
      /\ live = {} /\ live' = {} /\ UNCHANGED <<disk, code>>
      /\ RunningCommand(mem.rows) = {}
  BY <1>1 DEF SkipStep, QueueInv, QueueType, Book, Row, Statuses, Terminal, TodoInv, Status,
     LiveInv, RecordInv, Starting, Persisting
<1>3. Record(s, row, mem.control, "dispatch")
  BY <1>1
<1> HIDE DEF row
<1>4. RecordInv' /\ DiskInv' /\ LiveInv' /\ ReceiptInv'
  BY <1>2, <1>3, RecordStep DEF Returns, Terminal
<1>5. /\ \A t \in Step : mem'.rows[t] = IF t = s THEN row ELSE mem.rows[t]
      /\ doing' = "persist" /\ back' = "dispatch"
  BY <1>2, <1>3, RecordFacts DEF QueueInv, Returns
<1>6. TodoInv'
  <2>1. todo'.ready = todo.ready /\ todo'.skipped = todo.skipped \ {s} /\ todo.ready \subseteq Step
        /\ todo.skipped \subseteq Step
    BY <1>1 DEF QueueInv, QueueType
  <2>2. ASSUME NEW t \in todo.ready
        PROVE  Settled(mem'.rows, t) /\ mem'.rows[t].status = "pending"
    <3>1. t # s /\ t \in Step /\ Settled(mem.rows, t) /\ mem.rows[t].status = "pending"
      BY <1>1, <2>1 DEF QueueInv, TodoInv, Status
    <3>2. After[t] \subseteq Step /\ AfterAny[t] \subseteq Step
      BY <3>1, StepAssumption
    <3>3. QED
      BY <1>2, <1>5, <3>1, <3>2 DEF Settled, Terminal
  <2>3. \A t \in todo'.skipped : mem'.rows[t].status = "pending" /\ t \notin todo.ready
    BY <1>5, <2>1 DEF QueueInv, TodoInv, Status
  <2>4. QED
    BY <1>2, <1>5, <2>1, <2>2, <2>3 DEF TodoInv, Settled, Status, Starting, Persisting
<1>7. QED
  BY <1>4, <1>6 DEF RowInv

LEMMA DispatchStep ==
    ASSUME QueueInv, Dispatch
    PROVE  RowInv'
<1>1. PICK chosen \in todo.ready :
        mem' = [rows |-> [mem.rows EXCEPT ![chosen].status = "running",
                                          ![chosen].attempts = @ + 1],
                control |-> TimingPause(mem.control)]
  BY DEF Dispatch
<1>2. /\ doing = "dispatch" /\ doing' = "persist" /\ back' = "launch" /\ todo' = NoTodo
      /\ UNCHANGED <<disk, receipts, code, live>> /\ live = {}
      /\ chosen \in Step /\ mem.rows[chosen].status = "pending" /\ Settled(mem.rows, chosen)
      /\ RunningCommand(mem.rows) = {}
  BY <1>1 DEF Dispatch, PersistThen, QueueInv, QueueType, TodoInv, Status, LiveInv, RecordInv,
              Starting, Persisting, fileVars
<1>3. /\ mem'.rows[chosen].status = "running"
      /\ \A t \in Step : t # chosen => mem'.rows[t] = mem.rows[t]
  BY <1>1, <1>2, DispatchedRows DEF QueueInv
<1>4. RunningCommand(mem'.rows) = {chosen}
  BY <1>2, <1>3 DEF RunningCommand
<1>5. RecordInv'
  BY <1>2, <1>4 DEF RecordInv, RunningCommand, Starting, Persisting
<1>6. DiskInv'
  BY <1>2, <1>3 DEF QueueInv, DiskInv, Terminal
<1>7. LiveInv'
  BY <1>2 DEF LiveInv
<1>8. Settled(mem'.rows, chosen)
  <2>1. After[chosen] \subseteq Step /\ AfterAny[chosen] \subseteq Step
    BY <1>2, StepAssumption
  <2>2. QED
    BY <1>2, <1>3, <2>1 DEF Settled, Terminal
<1>9. TodoInv'
  BY <1>2, <1>4, <1>8 DEF TodoInv, NoTodo, Settled, RunningCommand, Starting, Persisting
<1>10. ReceiptInv'
  BY <1>2, <1>3 DEF QueueInv, ReceiptInv, Terminal
<1>11. QED
  BY <1>5, <1>6, <1>7, <1>9, <1>10 DEF RowInv

LEMMA PersistStep ==
    ASSUME QueueInv, PersistState \/ PersistControl
    PROVE  RowInv'
<1>1. CASE PersistState
  <2>1. /\ doing = "persist" /\ doing' = "persist_control" /\ back' = back
        /\ disk'.rows = mem.rows /\ live = {}
        /\ UNCHANGED <<receipts, mem, todo, code, live>>
    BY <1>1 DEF PersistState, Go, QueueInv, QueueType, Book, LiveInv
  <2>2. RunningCommand(mem.rows) = {} \/ \E s \in Step : RunningCommand(mem.rows) = {s}
    BY DEF QueueInv, RecordInv
  <2>3. RecordInv'
    BY <2>1 DEF QueueInv, RecordInv, RunningCommand, Starting, Persisting
  <2>4. DiskInv'
    BY <2>1, <2>2 DEF DiskInv, RunningCommand
  <2>5. LiveInv'
    BY <2>1 DEF LiveInv
  <2>6. TodoInv'
    BY <2>1 DEF QueueInv, TodoInv, Settled, Status, RunningCommand, Starting, Persisting
  <2>7. ReceiptInv'
    BY <2>1 DEF QueueInv, ReceiptInv
  <2>8. QED
    BY <2>3, <2>4, <2>5, <2>6, <2>7 DEF RowInv
<1>2. CASE PersistControl
  <2>1. /\ doing = "persist_control" /\ doing' = back /\ back' = back
        /\ disk'.rows = disk.rows /\ disk.rows = mem.rows /\ live = {} /\ back \in Returns
        /\ UNCHANGED <<receipts, mem, todo, code, live>>
    BY <1>2 DEF PersistControl, Go, QueueInv, QueueType, Book, LiveInv, DiskInv
  <2>3. RecordInv'
    BY <2>1 DEF QueueInv, RecordInv, RunningCommand, Starting, Persisting, Returns
  <2>4. DiskInv'
    BY <2>1 DEF QueueInv, DiskInv, RunningCommand
  <2>5. LiveInv'
    BY <2>1 DEF LiveInv
  <2>6. TodoInv'
    BY <2>1 DEF QueueInv, TodoInv, Settled, Status, RunningCommand, Starting, Persisting, Returns
  <2>7. ReceiptInv'
    BY <2>1 DEF QueueInv, ReceiptInv
  <2>8. QED
    BY <2>3, <2>4, <2>5, <2>6, <2>7 DEF RowInv
<1>3. QED
  BY <1>1, <1>2

LEMMA LaunchStep ==
    ASSUME QueueInv, Launch
    PROVE  RowInv'
<1>1. /\ doing = "launch" /\ doing' = "wait" /\ live = {} /\ live' = {Command} /\ code' = NoCode
      /\ disk.rows = mem.rows /\ todo = NoTodo
      /\ UNCHANGED <<disk, receipts, mem, todo>>
  BY DEF Launch, Go, QueueInv, LiveInv, DiskInv, TodoInv, Persisting, fileVars
<1>2. PICK s \in Step : RunningCommand(mem.rows) = {s} /\ Chosen = s
  BY <1>1, ChosenIsRunning DEF QueueInv, RecordInv, Starting
<1>3. /\ Command.step = s /\ Command.attempt = mem.rows[s].attempts
      /\ mem.rows[s].status = "running" /\ Settled(mem.rows, s)
  BY <1>1, <1>2 DEF Command, RunningCommand, QueueInv, TodoInv, Starting
<1>4. RecordInv'
  BY <1>1, <1>2 DEF RecordInv, RunningCommand, Starting, Persisting
<1>5. DiskInv'
  BY <1>1 DEF QueueInv, DiskInv, RunningCommand
<1>6. LiveInv'
  BY <1>1, <1>3 DEF LiveInv
<1>7. TodoInv'
  BY <1>1, <1>2, <1>3 DEF TodoInv, NoTodo, Settled, RunningCommand, Starting, Persisting
<1>8. ReceiptInv'
  BY <1>1 DEF QueueInv, ReceiptInv
<1>9. QED
  BY <1>4, <1>5, <1>6, <1>7, <1>8 DEF RowInv

\* The only command there can be while the scheduler waits is its own.
LEMMA EndedStep ==
    ASSUME QueueInv, Timeout \/ CommandEnds
    PROVE  RowInv'
<1>1. /\ UNCHANGED <<disk, receipts, doing, back, mem, todo>>
      /\ live' \subseteq live
  BY DEF Timeout, CommandEnds, fileVars
<1>2. ASSUME doing = "wait", NEW c \in live
      PROVE  c = Command
  <2>1. PICK s \in Step : RunningCommand(mem.rows) = {s} /\ Chosen = s
    BY <1>2, ChosenIsRunning DEF QueueInv, RecordInv
  <2>2. /\ c \in [step : Step, attempt : Nat]
        /\ mem.rows[c.step].status = "running" /\ mem.rows[c.step].attempts = c.attempt
    BY <1>2 DEF QueueInv, QueueType, LiveInv, DiskInv
  <2>3. c.step = s
    BY <2>1, <2>2 DEF RunningCommand
  <2>4. QED
    BY <2>1, <2>2, <2>3 DEF Command
<1>3. code' # NoCode => live' = {}
  <2>1. CASE Timeout
    BY <1>2, <2>1 DEF Timeout
  <2>2. CASE CommandEnds
    <3>1. PICK c \in live :
            /\ live' = live \ {c}
            /\ IF doing = "wait" /\ c = Command THEN code' \in {"done", "failed", "retry"}
               ELSE UNCHANGED code
      BY <2>2 DEF CommandEnds
    <3>2. CASE doing = "wait"
      BY <1>2, <3>1, <3>2
    <3>3. CASE doing # "wait"
      BY <3>1, <3>3 DEF QueueInv, LiveInv
    <3>4. QED
      BY <3>2, <3>3
  <2>3. QED
    BY <2>1, <2>2
<1>4. RecordInv'
  BY <1>1 DEF QueueInv, RecordInv, RunningCommand, Starting, Persisting
<1>5. DiskInv'
  BY <1>1 DEF QueueInv, DiskInv, RunningCommand
<1>6. LiveInv'
  BY <1>1, <1>3 DEF QueueInv, LiveInv
<1>7. TodoInv'
  BY <1>1 DEF QueueInv, TodoInv, Settled, Status, RunningCommand, Starting, Persisting
<1>8. ReceiptInv'
  BY <1>1 DEF QueueInv, ReceiptInv
<1>9. QED
  BY <1>4, <1>5, <1>6, <1>7, <1>8 DEF RowInv

LEMMA CollectStep ==
    ASSUME QueueInv, Collect
    PROVE  RowInv'
<1> DEFINE Control == [idle_wait_since : Nat, timing_paused : BOOLEAN]
<1>1. /\ doing = "wait" /\ live = {} /\ live' = {} /\ disk' = disk /\ disk.rows = mem.rows
      /\ todo = NoTodo /\ todo' = NoTodo
  BY DEF Collect, QueueInv, LiveInv, DiskInv, TodoInv, Persisting
<1>2. PICK s \in Step : RunningCommand(mem.rows) = {s} /\ Chosen = s
  BY <1>1, ChosenIsRunning DEF QueueInv, RecordInv
<1>3. PICK row \in Row, control \in Control :
        row.status \in {"done", "failed", "pending"} /\ Record(s, row, control, "loop")
  BY <1>2, CollectedRow, Zenon DEF QueueInv
<1>4. mem.rows[s].status = "running" /\ disk.rows[s].status \notin Terminal
  BY <1>1, <1>2 DEF RunningCommand, Terminal
<1>5. RecordInv' /\ DiskInv' /\ LiveInv' /\ ReceiptInv'
  BY <1>1, <1>2, <1>3, <1>4, RecordStep DEF Returns
<1>6. doing' = "persist" /\ back' = "loop"
  BY <1>3, RecordFacts DEF QueueInv, Returns
<1>7. TodoInv'
  BY <1>1, <1>6 DEF TodoInv, NoTodo, Starting, Persisting
<1>8. QED
  BY <1>5, <1>7 DEF RowInv

LEMMA GiveUpStep ==
    ASSUME QueueInv, GiveUp
    PROVE  RowInv'
<1>1. /\ doing = "loop" /\ live = {} /\ live' = {} /\ disk' = disk
      /\ todo = NoTodo /\ todo' = NoTodo /\ RunningCommand(mem.rows) = {}
      /\ UNCHANGED <<live, code>>
  BY DEF GiveUp, QueueInv, LiveInv, TodoInv, RecordInv, Starting, Persisting
<1>2. CASE \E s \in Step : Status(s) = "pending"
  <2>1. PICK s \in Step :
          /\ Status(s) = "pending"
          /\ Record(s, [mem.rows[s] EXCEPT !.status = "not_run"], mem.control, "loop")
    BY <1>2 DEF GiveUp
  <2> DEFINE row == [mem.rows[s] EXCEPT !.status = "not_run"]
  <2>2. /\ row \in Row /\ row.status = "not_run" /\ mem.rows[s].status = "pending"
        /\ mem.control \in [idle_wait_since : Nat, timing_paused : BOOLEAN]
    BY <2>1 DEF QueueInv, QueueType, Book, Row, Statuses, Terminal, Status
  <2>3. Record(s, row, mem.control, "loop")
    BY <2>1
  <2> HIDE DEF row
  <2>4. RecordInv' /\ DiskInv' /\ LiveInv' /\ ReceiptInv'
    BY <1>1, <2>2, <2>3, RecordStep DEF Returns, Terminal
  <2>5. doing' = "persist" /\ back' = "loop"
    BY <2>2, <2>3, RecordFacts DEF QueueInv, Returns
  <2>6. TodoInv'
    BY <1>1, <2>5 DEF TodoInv, NoTodo, Starting, Persisting
  <2>7. QED
    BY <2>4, <2>6 DEF RowInv
<1>3. CASE ~\E s \in Step : Status(s) = "pending"
  <2>1. doing' = "exited" /\ mem' = mem /\ receipts' = receipts
    BY <1>3 DEF GiveUp, Go
  <2>2. QED
    BY <1>1, <2>1, CalmStep
<1>4. QED
  BY <1>2, <1>3

LEMMA CrashStep ==
    ASSUME QueueInv, Crash
    PROVE  RowInv'
<1>1. /\ doing' = "down" /\ mem' = Blank /\ todo' = NoTodo /\ code' = NoCode
      /\ UNCHANGED <<disk, receipts, live>>
  BY DEF Crash, fileVars
<1>2. \A s \in Step : mem'.rows[s].status = "absent"
  BY <1>1, NewRowFacts DEF Blank
<1>3. RecordInv'
  BY <1>1, <1>2 DEF RecordInv, RunningCommand, Starting, Persisting
<1>4. DiskInv'
  BY <1>1 DEF QueueInv, DiskInv, RunningCommand
<1>5. LiveInv'
  BY <1>1 DEF QueueInv, LiveInv
<1>6. TodoInv'
  BY <1>1 DEF QueueInv, TodoInv, NoTodo, Settled, Starting, Persisting
<1>7. ReceiptInv'
  BY <1>1, <1>2 DEF QueueInv, ReceiptInv, Terminal
<1>8. QED
  BY <1>3, <1>4, <1>5, <1>6, <1>7 DEF RowInv

LEMMA ResetStep ==
    ASSUME QueueInv, ResetRow
    PROVE  RowInv'
<1>1. PICK s \in Step :
        /\ disk.rows[s].status = "running" /\ \A c \in live : c.step # s
        /\ disk' \in Book /\ disk'.rows[s].status = "pending"
        /\ \A t \in Step : t # s => disk'.rows[t] = disk.rows[t]
  BY ResetFacts DEF QueueInv
<1>2. doing = "down" /\ UNCHANGED <<receipts, doing, back, mem, todo, code, live>>
  BY DEF ResetRow, schedulerVars
<1>3. \A c \in live : c.step \in Step
  BY DEF QueueInv, QueueType
<1>4. RecordInv'
  BY <1>2 DEF QueueInv, RecordInv, RunningCommand, Starting, Persisting
<1>5. DiskInv'
  BY <1>1, <1>2 DEF QueueInv, DiskInv, RunningCommand
<1>6. LiveInv'
  BY <1>1, <1>2, <1>3 DEF QueueInv, LiveInv
<1>7. \A c \in live : Settled(disk'.rows, c.step)
  <2>1. ASSUME NEW c \in live
        PROVE  Settled(disk'.rows, c.step)
    <3>1. After[c.step] \subseteq Step /\ AfterAny[c.step] \subseteq Step
      BY <1>3, StepAssumption
    <3>2. Settled(disk.rows, c.step)
      BY DEF QueueInv, TodoInv
    <3>3. QED
      BY <1>1, <3>1, <3>2 DEF Settled, Terminal
  <2>2. QED
    BY <2>1
<1>8. TodoInv'
  BY <1>2, <1>7 DEF QueueInv, TodoInv, Settled, Status, RunningCommand, Starting, Persisting
<1>9. ReceiptInv'
  BY <1>1, <1>2 DEF QueueInv, ReceiptInv, Terminal
<1>10. QED
  BY <1>4, <1>5, <1>6, <1>8, <1>9 DEF RowInv

-----------------------------------------------------------------------------
(***************************************************************************)
(* The theorems.                                                           *)
(***************************************************************************)
LEMMA RowStep ==
    ASSUME QueueInv, QueueNext
    PROVE  RowInv'
<1>1. CASE NoDiskSpace \/ Sleep
  <2>1. doing \in {"loop", "sleep"} /\ doing' \in {"loop", "sleep"} /\ todo = NoTodo
        /\ UNCHANGED <<mem, disk, receipts, live, code, todo>>
    BY <1>1 DEF NoDiskSpace, Sleep, Go, fileVars, QueueInv, TodoInv, Persisting
  <2>2. QED
    BY <2>1, CalmStep
<1>2. CASE NoAttemptFolder \/ NothingToDispatch
  <2>1. /\ doing = "dispatch" /\ doing' \in {"sleep", "persist"} /\ todo' = NoTodo
        /\ doing' = "persist" => back' \in {"exited", "sleep"}
        /\ mem'.rows = mem.rows
        /\ UNCHANGED <<disk, receipts, live, code>>
    BY <1>2 DEF NoAttemptFolder, NothingToDispatch, Go, PersistThen, fileVars,
                QueueInv, QueueType, Book
  <2>2. QED
    BY <2>1, CalmStep
<1>3. CASE CommandGoesOn \/ QueueFileChanges
  BY <1>3, NothingSchedulerSees DEF CommandGoesOn, QueueFileChanges, fileVars
<1>4. QED
  BY <1>1, <1>2, <1>3, StartStep, ScanStep, SkipStepStep, DispatchStep, PersistStep,
     LaunchStep, EndedStep, CollectStep, GiveUpStep, CrashStep, ResetStep
  DEF QueueNext, Scheduler

LEMMA QueueInvInit == QueueInit => QueueInv
<1> SUFFICES ASSUME QueueInit PROVE QueueInv
  OBVIOUS
<1>1. QueueType
  BY NewRowFacts DEF QueueInit, QueueType, Points, Returns, NoTodo, NoCode
<1>2. /\ \A s \in Step : mem.rows[s].status = "absent" /\ disk.rows[s].status = "absent"
      /\ doing = "down" /\ live = {} /\ todo = NoTodo /\ code = NoCode
  BY NewRowFacts DEF QueueInit, Blank
<1>3. RecordInv /\ DiskInv /\ LiveInv /\ TodoInv /\ ReceiptInv
  BY <1>2 DEF RecordInv, DiskInv, LiveInv, TodoInv, ReceiptInv, NoTodo, RunningCommand, Starting,
              Persisting, Terminal
<1>4. QED
  BY <1>1, <1>3 DEF QueueInv

\* What is in memory, on disk and running agree in every state, through any
\* number of crashes, restarts and resets by hand.
THEOREM QueueInvariant == QueueSpec => []QueueInv
<1>1. QueueInv /\ [QueueNext]_queueVars => QueueInv'
  <2>1. ASSUME QueueInv, QueueNext
        PROVE  QueueInv'
    BY <2>1, TypePlanStep, RowStep DEF QueueInv, RowInv
  <2>2. ASSUME QueueInv, UNCHANGED queueVars
        PROVE  QueueInv'
    <3>1. QueueType'
      BY <2>2 DEF QueueInv, QueueType, queueVars, fileVars, schedulerVars
    <3>2. RowInv'
      BY <2>2, NothingSchedulerSees DEF queueVars, fileVars
    <3>3. QED
      BY <3>1, <3>2 DEF QueueInv, RowInv
  <2>3. QED
    BY <2>1, <2>2
<1>2. QED
  BY <1>1, QueueInvInit, PTL DEF QueueSpec

LEMMA CommandsFollow == QueueInv => OneRecordedCommand /\ InputsAreSettled
<1> SUFFICES ASSUME QueueInv PROVE OneRecordedCommand /\ InputsAreSettled
  OBVIOUS
<1>1. \A c \in live : c \in [step : Step, attempt : Nat]
  BY DEF QueueInv, QueueType
<1>2. \A c, d \in live : c = d
  BY <1>1 DEF QueueInv, LiveInv, DiskInv, RunningCommand
<1>3. IsFiniteSet(live) /\ Cardinality(live) <= 1
  <2>1. CASE live = {}
    BY <2>1, FS_EmptySet
  <2>2. CASE live # {}
    <3>1. PICK c : live = {c}
      BY <1>2, <2>2
    <3>2. IsFiniteSet({c}) /\ Cardinality({c}) = 1
      BY FS_Singleton, Zenon
    <3>3. QED
      BY <3>1, <3>2
  <2>3. QED
    BY <2>1, <2>2
<1>4. OneRecordedCommand
  BY <1>3 DEF OneRecordedCommand, QueueInv, LiveInv
<1>5. InputsAreSettled
  BY DEF InputsAreSettled, QueueInv, TodoInv, Settled
<1>6. QED
  BY <1>4, <1>5

\* Two commands never run at once and a running one is always on record,
\* whenever a scheduler dies and whoever starts the next (main's refusal).
THEOREM CommandsAreRecorded == QueueSpec => []OneRecordedCommand
BY QueueInvariant, CommandsFollow, PTL

\* No command starts on inputs without their verdict, whatever was skipped,
\* retried or reset in between (ready_steps).
THEOREM InputsHaveVerdicts == QueueSpec => []InputsAreSettled
BY QueueInvariant, CommandsFollow, PTL

\* Every verdict in state.json has its receipt (record before persist).
THEOREM ReceiptsAreThere == QueueSpec => []ReceiptBehindVerdict
<1>1. QueueInv => ReceiptBehindVerdict
  BY DEF QueueInv, ReceiptInv, ReceiptBehindVerdict
<1>2. QED
  BY <1>1, QueueInvariant, PTL

\* A verdict on disk is never taken back: neither a restart, a retry, nor a
\* reset by hand makes a step run twice to two verdicts.
VerdictsAreFinal ==
    [][\A s \in Step : disk.rows[s].status \in Terminal => disk'.rows[s] = disk.rows[s]]_queueVars

THEOREM VerdictsStand == QueueSpec => VerdictsAreFinal
<1> DEFINE Stands == \A s \in Step :
                disk.rows[s].status \in Terminal => disk'.rows[s] = disk.rows[s]
<1>1. ASSUME QueueInv, QueueNext
      PROVE  Stands
  <2>1. CASE PersistState
    BY <1>1, <2>1 DEF PersistState, QueueInv, QueueType, Book, DiskInv
  <2>2. CASE PersistControl
    BY <1>1, <2>2 DEF PersistControl, QueueInv, QueueType, Book
  <2>3. CASE ResetRow
    <3>1. PICK s \in Step :
            /\ disk.rows[s].status = "running"
            /\ \A t \in Step : t # s => disk'.rows[t] = disk.rows[t]
      BY <1>1, <2>3, ResetFacts DEF QueueInv
    <3>2. QED
      BY <3>1 DEF Terminal
  <2>4. CASE disk' = disk
    BY <2>4
  <2>5. disk' = disk \/ PersistState \/ PersistControl \/ ResetRow
    BY <1>1 DEF QueueNext, Scheduler, Start, ScanQueue, NoDiskSpace, SkipStep, Dispatch,
       NoAttemptFolder, NothingToDispatch, Launch, Timeout, Collect, Sleep, GiveUp,
       CommandEnds, CommandGoesOn, Crash, QueueFileChanges, fileVars
  <2>6. QED
    BY <2>1, <2>2, <2>3, <2>4, <2>5
<1>2. QueueInv /\ [QueueNext]_queueVars => [Stands]_queueVars
  BY <1>1
<1>3. QED
  BY <1>2, QueueInvariant, PTL DEF QueueSpec, VerdictsAreFinal
=============================================================================
