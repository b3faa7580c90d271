--------------------------- MODULE ClusterMailbox ---------------------------
(***************************************************************************)
(* The mailbox through which the CTAs of one cluster reduce a tile on rank *)
(* 0 (ClusterMailbox::Run and ::Exchange: they differ in what `finish` is  *)
(* given).  Every rank runs the same episodes in order.  An episode uses   *)
(* one of two slots and one parity bit: rank 0 announces the bytes it      *)
(* expects and tells the peer it is ready; the peer pushes its tile into   *)
(* rank 0's shared memory; rank 0 acknowledges when it has read it, and    *)
(* only then may the peer write its tile again.                            *)
(*                                                                         *)
(* A remote arrival takes effect when it is issued.  A push lands in       *)
(* pieces, in any order, each read from the source when it lands.          *)
(***************************************************************************)
EXTENDS Integers, FiniteSets, Mbarrier

CONSTANTS
    Ranks,      \* CTAs of the cluster
    Episodes,   \* episodes the kernel runs before it closes the mailbox
    Pieces      \* per episode: pieces in which a peer's tile travels

ASSUME MailboxAssumption ==
    /\ Ranks \in {2, 4}
    /\ Episodes \in Nat \ {0}
    /\ Pieces \in [0 .. (Episodes - 1) -> Nat \ {0}]

Rank == 0 .. (Ranks - 1)
Peer == 1 .. (Ranks - 1)
Slot == 0 .. 1
Episode == 0 .. (Episodes - 1)
Piece == UNION {1 .. Pieces[e] : e \in Episode}

SlotOf(e) == e % 2

Phase(e) == (e \div 2) % 2

VARIABLES
    pc,         \* per rank: where it is in the episode
    episode,    \* per rank: Storage::episode
    turn,       \* rank 0: the peer its loop is at
    full,       \* rank 0, per slot and peer: phases completed, whether the
                \* one arrival of this phase has been made, bytes outstanding
    ready,      \* per peer and slot: phases completed
    ack,        \* per peer and slot: phases completed
    tile,       \* per rank: the episode its tile was computed for
    flying,     \* per peer: the pieces of its push still under way
    partial     \* rank 0, per slot, peer and piece: the episode it is of

barrierVars == <<full, ready, ack>>
dataVars == <<tile, flying, partial>>
vars == <<pc, episode, turn, barrierVars, dataVars>>

Nothing == -1

\* Shared memory as the kernel finds it: a barrier of unknown phase.
Init ==
    /\ pc = [r \in Rank |-> "boot"]
    /\ episode = [r \in Rank |-> 0]
    /\ turn = 1
    /\ full = [s \in Slot |-> [p \in Peer |-> [phases |-> 1, armed |-> FALSE, tx |-> 0]]]
    /\ ready = [p \in Peer |-> [s \in Slot |-> 1]]
    /\ ack = [p \in Peer |-> [s \in Slot |-> 1]]
    /\ tile = [r \in Rank |-> Nothing]
    /\ flying = [p \in Peer |-> {}]
    /\ partial = [s \in Slot |-> [p \in Peer |-> [u \in Piece |-> Nothing]]]

FirstStep(r) == IF r = 0 THEN "expect" ELSE "ready"

-----------------------------------------------------------------------------
(***************************************************************************)
(* Init and Close.                                                         *)
(***************************************************************************)
\* Initialize a rank's own barriers.
InitBarriers(r) ==
    /\ pc[r] = "boot"
    /\ pc' = [pc EXCEPT ![r] = "opening"]
    /\ episode' = [episode EXCEPT ![r] = 0]
    /\ IF r = 0
       THEN /\ full' = [s \in Slot |->
                   [p \in Peer |-> [phases |-> 0, armed |-> FALSE, tx |-> 0]]]
            /\ UNCHANGED <<ready, ack>>
       ELSE /\ ready' = [ready EXCEPT ![r] = [s \in Slot |-> 0]]
            /\ ack' = [ack EXCEPT ![r] = [s \in Slot |-> 0]]
            /\ UNCHANGED full
    /\ UNCHANGED <<turn, dataVars>>

\* Mutant: a rank goes on as soon as its own barriers are initialized.
OpenAlone(r) ==
    /\ pc[r] = "opening"
    /\ pc' = [pc EXCEPT ![r] = FirstStep(r)]
    /\ UNCHANGED <<episode, turn, barrierVars, dataVars>>

\* The cluster barrier at the end of Init.
Open(r) ==
    /\ pc[r] = "opening"
    /\ \A q \in Rank : pc[q] # "boot"
    /\ pc' = [pc EXCEPT ![r] = FirstStep(r)]
    /\ UNCHANGED <<episode, turn, barrierVars, dataVars>>

\* The cluster barrier of Close.
Close(r) ==
    /\ pc[r] = "closing"
    /\ \A q \in Rank : pc[q] \in {"closing", "gone"}
    /\ pc' = [pc EXCEPT ![r] = "gone"]
    /\ UNCHANGED <<episode, turn, barrierVars, dataVars>>

\* ++s.episode, and on to the next one if there is one.
NextEpisode(r) ==
    /\ episode' = [episode EXCEPT ![r] = @ + 1]
    /\ pc' = [pc EXCEPT ![r] =
                IF episode[r] + 1 = Episodes THEN "closing" ELSE FirstStep(r)]

-----------------------------------------------------------------------------
(***************************************************************************)
(* Rank 0.                                                                 *)
(***************************************************************************)
Slot0 == SlotOf(episode[0])

\* Move rank 0's loop over the peers to its next peer, or out of it.
NextTurn(again, out) ==
    IF turn + 1 \in Peer
    THEN turn' = turn + 1 /\ pc' = [pc EXCEPT ![0] = again]
    ELSE turn' = 1 /\ pc' = [pc EXCEPT ![0] = out]

ExpectTx ==
    /\ pc[0] = "expect"
    /\ full' = [full EXCEPT ![Slot0][turn].armed = TRUE,
                            ![Slot0][turn].tx = @ + Pieces[episode[0]]]
    /\ pc' = [pc EXCEPT ![0] = "offer"]
    /\ UNCHANGED <<episode, turn, ready, ack, dataVars>>

OfferReady ==
    /\ pc[0] = "offer"
    /\ ready' = [ready EXCEPT ![turn][Slot0] = @ + 1]
    /\ NextTurn("expect", "compute")
    /\ UNCHANGED <<episode, full, ack, dataVars>>

\* Mutant: one peer's partial is waited for, not every peer's.
AwaitPartialsFirst ==
    /\ pc[0] = "sum"
    /\ PhaseDone(full[Slot0][1].phases, Phase(episode[0]))
    /\ pc' = [pc EXCEPT ![0] = "finish"]
    /\ UNCHANGED <<episode, turn, barrierVars, dataVars>>

AwaitPartials ==
    /\ pc[0] = "sum"
    /\ \A p \in Peer : PhaseDone(full[Slot0][p].phases, Phase(episode[0]))
    /\ pc' = [pc EXCEPT ![0] = "finish"]
    /\ UNCHANGED <<episode, turn, barrierVars, dataVars>>

\* The partials are read and the sum, or the merge, is written.
Finish ==
    /\ pc[0] = "finish"
    /\ pc' = [pc EXCEPT ![0] = "acknowledge"]
    /\ UNCHANGED <<episode, turn, barrierVars, dataVars>>

Acknowledge ==
    /\ pc[0] = "acknowledge"
    /\ ack' = [ack EXCEPT ![turn][Slot0] = @ + 1]
    /\ IF turn + 1 \in Peer
       THEN turn' = turn + 1 /\ UNCHANGED <<pc, episode>>
       ELSE turn' = 1 /\ NextEpisode(0)
    /\ UNCHANGED <<full, ready, dataVars>>

-----------------------------------------------------------------------------
(***************************************************************************)
(* Every rank, and the peers.                                              *)
(***************************************************************************)
Compute(r) ==
    /\ pc[r] = "compute"
    /\ tile' = [tile EXCEPT ![r] = episode[r]]
    /\ pc' = [pc EXCEPT ![r] = IF r = 0 THEN "sum" ELSE "push"]
    /\ UNCHANGED <<episode, turn, barrierVars, flying, partial>>

AwaitReady(p) ==
    /\ pc[p] = "ready"
    /\ PhaseDone(ready[p][SlotOf(episode[p])], Phase(episode[p]))
    /\ pc' = [pc EXCEPT ![p] = "compute"]
    /\ UNCHANGED <<episode, turn, barrierVars, dataVars>>

Push(p) ==
    /\ pc[p] = "push"
    /\ flying' = [flying EXCEPT ![p] = 1 .. Pieces[episode[p]]]
    /\ pc' = [pc EXCEPT ![p] = "ack"]
    /\ UNCHANGED <<episode, turn, barrierVars, tile, partial>>

\* Mutant: the peer goes on as soon as its push is issued.
AwaitAckNever(p) ==
    /\ pc[p] = "ack"
    /\ NextEpisode(p)
    /\ UNCHANGED <<turn, barrierVars, dataVars>>

AwaitAck(p) ==
    /\ pc[p] = "ack"
    /\ PhaseDone(ack[p][SlotOf(episode[p])], Phase(episode[p]))
    /\ NextEpisode(p)
    /\ UNCHANGED <<turn, barrierVars, dataVars>>

\* One piece of a push lands; the last expected one completes the phase.
Land(p) ==
    \E u \in flying[p] :
        LET s == SlotOf(episode[p])
            b == full[s][p]
            done == b.armed /\ b.tx = 1
        IN  /\ flying' = [flying EXCEPT ![p] = @ \ {u}]
            /\ partial' = [partial EXCEPT ![s][p][u] = tile[p]]
            /\ full' = [full EXCEPT ![s][p] =
                   [phases |-> IF done THEN b.phases + 1 ELSE b.phases,
                    armed |-> b.armed /\ ~done, tx |-> b.tx - 1]]
            /\ UNCHANGED <<pc, episode, turn, ready, ack, tile>>

-----------------------------------------------------------------------------
RootStep == ExpectTx \/ OfferReady \/ AwaitPartials \/ Finish \/ Acknowledge

PeerStep(p) == AwaitReady(p) \/ Push(p) \/ AwaitAck(p)

RankStep(r) ==
    \/ InitBarriers(r) \/ Open(r) \/ Compute(r) \/ Close(r)
    \/ r = 0 /\ RootStep
    \/ r # 0 /\ PeerStep(r)

Next ==
    \/ \E r \in Rank : RankStep(r)
    \/ \E p \in Peer : Land(p)

Spec == Init /\ [][Next]_vars

\* The CTAs of a cluster are co-scheduled; an issued push lands.
FairSpec ==
    /\ Spec
    /\ \A r \in Rank : WF_vars(RankStep(r))
    /\ \A p \in Peer : WF_vars(Land(p))

-----------------------------------------------------------------------------

\* What rank 0 sums is its own tile and every peer's whole tile of this
\* episode: no piece of an earlier one that used the slot, and none missing.
SumsThisEpisode ==
    pc[0] = "finish" =>
        /\ tile[0] = episode[0]
        /\ \A p \in Peer : \A u \in 1 .. Pieces[episode[0]] :
               partial[Slot0][p][u] = episode[0]

\* A tile is not written while pieces of it still travel or are still to be
\* read: it stays until rank 0 has finished with the episode.
SourceStable ==
    \A p \in Peer :
        /\ flying[p] # {} => tile[p] = episode[p] /\ pc[p] = "ack"
        /\ pc[0] = "finish" => episode[p] = episode[0] /\ tile[p] = episode[0]

\* Every rank gets through all its episodes and leaves the cluster.
EpisodesComplete == <>(\A r \in Rank : pc[r] = "gone")
=============================================================================
