------------------------ MODULE DenseTensorParallel ------------------------
(***************************************************************************)
(* The native dense program of Sm90DenseProgram.cuh on several devices,    *)
(* driven by TpServingEngine.  Each rank holds a slice of every layer and  *)
(* runs one persistent kernel whose CTAs walk the same stages: embedding,  *)
(* five per layer, head.  A stage ends in a barrier of the grid, or, after *)
(* qkv, in counters per group of KV heads.  The o and down stages add the  *)
(* ranks' partial sums through packets that carry the step's epoch; the    *)
(* head's last CTA exchanges one candidate with every rank, so that all    *)
(* choose the same token, and may write the next step's embedding.         *)
(*                                                                         *)
(* The residual stream x is updated in place by the embedding, o and down. *)
(* A value is known by what it was computed for: its request, position and *)
(* stage.  An action that stores to all peers stores them at once, since   *)
(* each store is awaited by one peer alone.                                *)
(***************************************************************************)
EXTENDS Integers, Sequences, FiniteSets

CONSTANTS
    World,         \* ranks
    Grid,          \* CTAs of a rank's persistent kernel
    Layers,
    XTiles,        \* tasks of o and of down: tiles of the residual stream
    QkvTiles, KvGroups,   \* tasks of qkv; of attention, one per group
    ActTiles,      \* tasks of gate_up
    HeadTiles,     \* tasks of the head
    PacketEpochs,  \* epochs a packet can tell apart (2^32 in the code)
    QueueDepth,    \* commands a stream takes before the driver blocks the host
    PromptLen,
    NewTokens,     \* per request, the tokens to generate
    Builds         \* sets of [embed, groups, loop]: the compiled form, the driver's

ASSUME DenseAssumption ==
    /\ {World, Grid, Layers, XTiles, QkvTiles, KvGroups, ActTiles, HeadTiles,
        PacketEpochs, QueueDepth, PromptLen} \subseteq Nat \ {0}
    /\ Layers % 2 = 0                  \* a LayerGroup is two dense layers
    /\ QkvTiles % KvGroups = 0
    /\ Grid <= HeadTiles               \* kHeadMaxGrid
    /\ PacketEpochs >= 2
    /\ NewTokens \in Seq(Nat \ {0})
    /\ Builds \subseteq [embed : BOOLEAN, groups : BOOLEAN, loop : BOOLEAN]

Rank == 0 .. (World - 1)
Cta == 0 .. (Grid - 1)
Peers(r) == Rank \ {r}
Position == UNION {0 .. (PromptLen + NewTokens[q]) : q \in DOMAIN NewTokens}

HeadStage == 1 + 5 * Layers
DenseStage == 0 .. HeadStage
Layer(g) == (g - 1) \div 5
Kind(g) ==
    CASE g = 0         -> "embed"
      [] g = HeadStage -> "head"
      [] OTHER -> <<"qkv", "attention", "o", "gate_up", "down">>[((g - 1) % 5) + 1]
TaskCount ==
    [embed |-> 1, qkv |-> QkvTiles, attention |-> KvGroups, o |-> XTiles,
     gate_up |-> ActTiles, down |-> XTiles, head |-> HeadTiles]
Tasks(g) == TaskCount[Kind(g)]
Reduces(g) == Kind(g) \in {"o", "down"}
Own(g, c) == {t \in 0 .. (Tasks(g) - 1) : t % Grid = c}

\* Two reductions of a layer, each with words of its own.
Region(g) == 2 * Layer(g) + (IF Kind(g) = "o" THEN 0 ELSE 1)
GroupTiles == QkvTiles \div KvGroups
GroupOf(t) == t \div GroupTiles

VARIABLES
    build,
    host,       \* the engine: request, and the next of its commands
    stream,     \* per rank, the commands given to its stream and not yet done
    iteration,  \* per rank, the steps launched so far
    cta,        \* per rank and CTA: where it stands, and the value it holds
    bank,       \* per rank and CTA, the two operand records in shared memory
    memory,     \* per rank, the activations and the head's partials
    tokens,     \* per rank, the token buffer
    events,     \* per rank and stage, arrivals
    groups,     \* per rank and KV group, arrivals
    arrived,    \* per rank, lm_counter
    packets,    \* per rank, its receive regions
    exchange    \* per rank, its argmax exchange block

hostVars == <<build, host, iteration>>
counterVars == <<events, groups, arrived>>
linkVars == <<packets, exchange>>
vars == <<build, host, stream, iteration, cta, bank, memory, tokens,
          events, groups, arrived, packets, exchange>>

---------------------------------------------------------------------------
(* Values *)

Value(q, p, g) == [request |-> q, past |-> p, stage |-> g]
Nothing == Value(0, 0, 0)    \* zeroed or never written
Garbled == Value(0, 0, 1)    \* computed from something other than its inputs
\* The token of a position: the prompt's, or the head's, chosen among all
\* ranks' candidates.
Token(q, p) == Value(q, p, IF p < PromptLen THEN 0 ELSE HeadStage)
Fill(S, v) == [s \in S |-> v]

---------------------------------------------------------------------------
(* The engine *)

\* _launch with all of a rank's steps before the next rank's, which it warns of.
LaunchesRankByRank(first, count) ==
    IF build.loop
    THEN [i \in 1 .. World |-> [rank |-> i - 1, first |-> first, count |-> count]]
    ELSE [i \in 1 .. (count * World) |->
             [rank |-> (i - 1) \div count, first |-> first + ((i - 1) % count), count |-> 1]]

\* _launch: one launch of all steps per rank, or one of each step, every rank's
\* before any rank's next.
Launches(first, count) ==
    IF build.loop
    THEN [i \in 1 .. World |-> [rank |-> i - 1, first |-> first, count |-> count]]
    ELSE [i \in 1 .. (count * World) |->
             [rank |-> (i - 1) % World, first |-> first + ((i - 1) \div World), count |-> 1]]

\* generate: the prompt to every rank (no steps), the prompt's steps, the rest.
Commands(q) ==
    [i \in 1 .. World |-> [rank |-> i - 1, first |-> 0, count |-> 0]]
      \o Launches(0, PromptLen)
      \o (IF NewTokens[q] > 1 THEN Launches(PromptLen, NewTokens[q] - 1) ELSE <<>>)

Serving == host.request <= Len(NewTokens)

OpensLaunch(m) == m.count > 0 /\ m.rank = 0 /\ m.first \in {0, PromptLen}

\* Commands are enqueued in order; the host blocks on a full stream, and _launch
\* refuses ranks whose iterations differ.
Issue ==
    /\ Serving
    /\ host.next <= Len(Commands(host.request))
    /\ LET m == Commands(host.request)[host.next] IN
         /\ Len(stream[m.rank]) < QueueDepth
         /\ OpensLaunch(m) => \A r \in Rank : iteration[r] = iteration[0]
         /\ stream' = [stream EXCEPT ![m.rank] = Append(@,
                [request |-> host.request, first |-> m.first, count |-> m.count,
                 iteration |-> iteration[m.rank]])]
         /\ iteration' = [iteration EXCEPT ![m.rank] = @ + m.count]
    /\ host' = [host EXCEPT !.next = @ + 1]
    /\ UNCHANGED <<build, cta, bank, memory, tokens, counterVars, linkVars>>

Synchronize ==
    /\ Serving
    /\ host.next > Len(Commands(host.request))
    /\ \A r \in Rank : stream[r] = <<>>
    /\ host' = [request |-> host.request + 1, next |-> 1]
    /\ UNCHANGED <<build, stream, iteration, cta, bank, memory, tokens,
                   counterVars, linkVars>>

---------------------------------------------------------------------------
(* A stream: prompt copies and kernels, one after the other *)

Kernel(r) == Head(stream[r])

CopyPrompt(r) ==
    /\ stream[r] # <<>> /\ Kernel(r).count = 0
    /\ tokens' = [tokens EXCEPT ![r] = [p \in Position |->
                     IF p < PromptLen THEN Token(Kernel(r).request, p) ELSE @[p]]]
    /\ stream' = [stream EXCEPT ![r] = Tail(@)]
    /\ UNCHANGED <<hostVars, cta, bank, memory, counterVars, linkVars>>

Away == [at |-> "away", step |-> 0, stage |-> 0, task |-> 0, held |-> Nothing]

\* What PublishOperands leaves for stage g.
Record(g, p, e) == [stage |-> g, past |-> p, epoch |-> e]
NoRecord == Record(0, 0, 0)

\* Shared memory starts anew with a kernel.  One that starts in the middle of
\* a request and will skip the embedding publishes the first qkv's operands.
StartKernel(r) ==
    /\ stream[r] # <<>> /\ Kernel(r).count > 0
    /\ \A c \in Cta : cta[r][c].at = "away"
    /\ LET k == Kernel(r)
           first == IF build.embed /\ k.first # 0
                    THEN Record(1, k.first, k.iteration + 1) ELSE NoRecord
       IN  bank' = [bank EXCEPT ![r] = Fill(Cta, [parity \in 0 .. 1 |->
                       IF parity = 1 THEN first ELSE NoRecord])]
    /\ cta' = [cta EXCEPT ![r] = [c \in Cta |->
                 [Away EXCEPT !.at = "task", !.step = Kernel(r).first, !.task = c]]]
    /\ UNCHANGED <<hostVars, stream, memory, tokens, counterVars, linkVars>>

EndKernel(r) ==
    /\ \A c \in Cta : cta[r][c].at = "done"
    /\ stream' = [stream EXCEPT ![r] = Tail(@)]
    /\ cta' = [cta EXCEPT ![r] = Fill(Cta, Away)]
    /\ UNCHANGED <<hostVars, bank, memory, tokens, counterVars, linkVars>>

---------------------------------------------------------------------------
(* A CTA.  It holds its packet between sending and adding, and in the head *)
(* the best it has found, then its rank's candidate.                       *)

Standing(r, c, where) == cta[r][c].at = where
Now(r, c) == Value(Kernel(r).request, cta[r][c].step, cta[r][c].stage)
Iteration(r, c) == Kernel(r).iteration + cta[r][c].step - Kernel(r).first
Operands(r, c) == bank[r][c][cta[r][c].stage % 2]
AtKind(r, c, kinds) == Kind(cta[r][c].stage) \in kinds
TaskLeft(r, c) ==
    Standing(r, c, "task") /\ cta[r][c].task < Tasks(cta[r][c].stage)

\* With the embedding folded into the head only step 0 runs the prologue.
SkipsPrologue(r, c) ==
    build.embed /\ cta[r][c].stage = 0 /\ cta[r][c].step # 0

\* The activations a task reads, all written by the stage before.
Inputs(r, c) ==
    LET m == memory[r]  t == cta[r][c].task IN
    CASE AtKind(r, c, {"qkv", "gate_up", "head"}) -> {m.x[i] : i \in DOMAIN m.x}
      [] AtKind(r, c, {"attention"}) ->
            {m.qkv[i] : i \in {j \in DOMAIN m.qkv : GroupOf(j) = t}}
      [] AtKind(r, c, {"o"}) -> {m.context[i] : i \in DOMAIN m.context}
      [] AtKind(r, c, {"down"}) -> {m.act[i] : i \in DOMAIN m.act}

\* What a task computes: for the stage, and where it takes one the position, of
\* its operands, and garbled if an input is not of this step.
Output(r, c) ==
    LET now == Now(r, c) IN
    Value(now.request,
          IF AtKind(r, c, {"attention", "head"}) THEN Operands(r, c).past ELSE now.past,
          Operands(r, c).stage)
Result(r, c) ==
    LET now == Now(r, c) IN
    IF Inputs(r, c) = {[now EXCEPT !.stage = @ - 1]} THEN Output(r, c) ELSE Garbled

\* The embedding of the token at position p.
Embedded(r, buffer, p) ==
    IF buffer[p] = Token(Kernel(r).request, p)
    THEN Value(Kernel(r).request, p, 0) ELSE Garbled

NextTask(r, c) == [cta EXCEPT ![r][c].task = @ + Grid]

Embed(r, c) ==
    /\ TaskLeft(r, c) /\ AtKind(r, c, {"embed"}) /\ ~SkipsPrologue(r, c)
    /\ memory' = [memory EXCEPT ![r].x =
                     Fill(DOMAIN @, Embedded(r, tokens[r], cta[r][c].step))]
    /\ cta' = NextTask(r, c)
    /\ UNCHANGED <<hostVars, stream, bank, tokens, counterVars, linkVars>>

Compute(r, c) ==
    /\ TaskLeft(r, c) /\ AtKind(r, c, {"qkv", "attention", "gate_up"})
    /\ LET t == cta[r][c].task  v == Result(r, c) IN
         memory' = CASE AtKind(r, c, {"qkv"})       -> [memory EXCEPT ![r].qkv[t] = v]
                     [] AtKind(r, c, {"attention"}) -> [memory EXCEPT ![r].context[t] = v]
                     [] AtKind(r, c, {"gate_up"})   -> [memory EXCEPT ![r].act[t] = v]
    /\ cta' = NextTask(r, c)
    /\ UNCHANGED <<hostVars, stream, bank, tokens, counterVars, linkVars>>

\* Send: the task's packets into this rank's slots of every peer's region.
SendTile(r, c) ==
    /\ TaskLeft(r, c) /\ Reduces(cta[r][c].stage)
    /\ LET v == Result(r, c)  t == cta[r][c].task  o == Operands(r, c) IN
         /\ packets' = [q \in Rank |->
                IF q = r THEN packets[q]
                ELSE [packets[q] EXCEPT ![Region(o.stage)][r][t] =
                         [epoch |-> o.epoch % PacketEpochs, value |-> v]]]
         /\ cta' = [cta EXCEPT ![r][c].at = "reduce", ![r][c].held = v]
    /\ UNCHANGED <<hostVars, stream, bank, memory, tokens, counterVars, exchange>>

\* Finish: poll for every peer's packet of this epoch, add them and the residual.
ReduceTile(r, c) ==
    /\ Standing(r, c, "reduce")
    /\ LET o == Operands(r, c)  t == cta[r][c].task  out == Output(r, c)
           received == packets[r][Region(o.stage)]
           residual == [Now(r, c) EXCEPT !.stage =
                           @ - (IF AtKind(r, c, {"o"}) THEN 3 ELSE 2)]
       IN  /\ \A q \in Peers(r) : received[q][t].epoch = o.epoch % PacketEpochs
           /\ memory' = [memory EXCEPT ![r].x[t] =
                  IF /\ @ = residual /\ cta[r][c].held = out
                     /\ \A q \in Peers(r) : received[q][t].value = out
                  THEN out ELSE Garbled]
    /\ cta' = [cta EXCEPT ![r][c].at = "task", ![r][c].task = @ + Grid,
                          ![r][c].held = Nothing]
    /\ UNCHANGED <<hostVars, stream, bank, tokens, counterVars, linkVars>>

---------------------------------------------------------------------------
(* The head *)

\* One tile of the vocabulary, folded into the CTA's best.
Score(r, c) ==
    /\ TaskLeft(r, c) /\ AtKind(r, c, {"head"})
    /\ LET v == Result(r, c) IN
         cta' = [cta EXCEPT ![r][c].task = @ + Grid,
                            ![r][c].held = IF @ \in {Nothing, v} THEN v ELSE Garbled]
    /\ UNCHANGED <<hostVars, stream, bank, memory, tokens, counterVars, linkVars>>

\* The last CTA of the grid to count goes on.
FinishHead(r, c) ==
    /\ Standing(r, c, "task") /\ ~TaskLeft(r, c) /\ AtKind(r, c, {"head"})
    /\ memory' = [memory EXCEPT ![r].partial[c] = cta[r][c].held]
    /\ arrived' = [arrived EXCEPT ![r] = @ + 1]
    /\ cta' = [cta EXCEPT ![r][c].held = Nothing,
                  ![r][c].at = IF arrived[r] % Grid = Grid - 1 THEN "offer" ELSE "join"]
    /\ UNCHANGED <<hostVars, stream, bank, tokens, events, groups, linkVars>>

Parity(r, c) == (Operands(r, c).epoch - 1) % 2

OfferCandidate(r, c) ==
    /\ Standing(r, c, "offer")
    /\ LET out == Output(r, c)
           partials == memory[r].partial
           candidate == IF \A d \in Cta : partials[d] = out THEN out ELSE Garbled
       IN  /\ exchange' = [q \in Rank |->
                  IF q = r THEN exchange[q]
                  ELSE [exchange[q] EXCEPT !.data[Parity(r, c)][r] = candidate]]
           /\ cta' = [cta EXCEPT ![r][c].at = "flag", ![r][c].held = candidate]
    /\ UNCHANGED <<hostVars, stream, bank, memory, tokens, counterVars, packets>>

RaiseFlags(r, c) ==
    /\ Standing(r, c, "flag")
    /\ exchange' = [q \in Rank |->
          IF q = r THEN exchange[q]
          ELSE [exchange[q] EXCEPT !.flag[Parity(r, c)][r] = Operands(r, c).epoch]]
    /\ cta' = [cta EXCEPT ![r][c].at = "await"]
    /\ UNCHANGED <<hostVars, stream, bank, memory, tokens, counterVars, packets>>

AwaitAnyFlag(r, c) ==
    /\ Standing(r, c, "await")
    /\ \A q \in Peers(r) : exchange[r].flag[Parity(r, c)][q] # 0
    /\ cta' = [cta EXCEPT ![r][c].at = "choose"]
    /\ UNCHANGED <<hostVars, stream, bank, memory, tokens, counterVars, linkVars>>

AwaitFlags(r, c) ==
    /\ Standing(r, c, "await")
    /\ \A q \in Peers(r) : exchange[r].flag[Parity(r, c)][q] = Operands(r, c).epoch
    /\ cta' = [cta EXCEPT ![r][c].at = "choose"]
    /\ UNCHANGED <<hostVars, stream, bank, memory, tokens, counterVars, linkVars>>

\* Whether position p takes the chosen token or keeps the prompt's.
LeavesPrompt(p) == p >= PromptLen

\* The winner among the ranks, then the token that stands at the next position.
ChooseToken(r, c) ==
    /\ Standing(r, c, "choose")
    /\ LET out == Output(r, c)  next == Operands(r, c).past + 1
           sound == /\ cta[r][c].held = out
                    /\ \A q \in Peers(r) : exchange[r].data[Parity(r, c)][q] = out
           chosen == IF sound THEN Value(out.request, next, HeadStage) ELSE Garbled
       IN  /\ tokens' = IF LeavesPrompt(next)
                        THEN [tokens EXCEPT ![r][next] = chosen] ELSE tokens
           /\ memory' = IF build.embed
                        THEN [memory EXCEPT ![r].x =
                                 Fill(DOMAIN @, Embedded(r, tokens'[r], next))]
                        ELSE memory
    /\ cta' = [cta EXCEPT ![r][c].at = "join", ![r][c].held = Nothing]
    /\ UNCHANGED <<hostVars, stream, bank, counterVars, linkVars>>

---------------------------------------------------------------------------
(* The boundary after a stage *)

\* Where a CTA goes on after stage g, and the record published for it.  After a
\* head that embeds it is the first qkv, whose record needs no position.
NextStage(g) == IF g < HeadStage THEN g + 1 ELSE IF build.embed THEN 1 ELSE 0

ByGroups(g) == build.groups /\ Kind(g) = "qkv"

Join(r, c) ==
    /\ \/ Standing(r, c, "join")
       \/ /\ Standing(r, c, "task") /\ ~TaskLeft(r, c)
          /\ ~AtKind(r, c, {"head"}) /\ ~SkipsPrologue(r, c)
    /\ LET g == cta[r][c].stage  next == NextStage(g) IN
         /\ bank' = IF next = 0 THEN bank
                    ELSE [bank EXCEPT ![r][c][next % 2] =
                             Record(next, cta[r][c].step, Iteration(r, c) + 1)]
         /\ IF ByGroups(g)
            THEN /\ groups' = [groups EXCEPT ![r] = [k \in DOMAIN @ |->
                                  @[k] + Cardinality({t \in Own(g, c) : GroupOf(t) = k})]]
                 /\ UNCHANGED events
            ELSE /\ events' = [events EXCEPT ![r][g] = @ + 1]
                 /\ UNCHANGED groups
    /\ cta' = [cta EXCEPT ![r][c].at = "wait"]
    /\ UNCHANGED <<hostVars, stream, memory, tokens, arrived, linkVars>>

GroupTargetOfStep(r, c) == (Iteration(r, c) + 1) * GroupTiles

\* A group has this layer's tiles once it has those of every layer before.
GroupTarget(r, c) ==
    (Iteration(r, c) * Layers + Layer(cta[r][c].stage) + 1) * GroupTiles

GridTarget(r, c) == (Iteration(r, c) + 1) * Grid

Released(r, c) ==
    LET g == cta[r][c].stage IN
    IF ByGroups(g)
    THEN \A k \in Own(g + 1, c) : groups[r][k] >= GroupTarget(r, c)
    ELSE events[r][g] >= GridTarget(r, c)

Pass(r, c) ==
    /\ Standing(r, c, "wait")
    /\ Released(r, c)
    /\ LET here == cta[r][c]
           last == here.step = Kernel(r).first + Kernel(r).count - 1
       IN  cta' = [cta EXCEPT ![r][c] =
               CASE here.stage < HeadStage ->
                       [here EXCEPT !.at = "task", !.stage = here.stage + 1, !.task = c]
                 [] here.stage = HeadStage /\ ~last ->
                       [here EXCEPT !.at = "task", !.step = here.step + 1, !.stage = 0,
                                        !.task = c]
                 [] here.stage = HeadStage /\ last ->
                       [Away EXCEPT !.at = "done"]]
    /\ UNCHANGED <<hostVars, stream, bank, memory, tokens, counterVars, linkVars>>

\* The skipped prologue still counts, so that its target stays one per step.
SkipPrologue(r, c) ==
    /\ Standing(r, c, "task") /\ SkipsPrologue(r, c)
    /\ events' = [events EXCEPT ![r][0] = @ + 1]
    /\ cta' = [cta EXCEPT ![r][c].stage = 1, ![r][c].task = c]
    /\ UNCHANGED <<hostVars, stream, bank, memory, tokens, groups, arrived, linkVars>>

CtaStep(r, c) ==
    \/ SkipPrologue(r, c) \/ Embed(r, c) \/ Compute(r, c)
    \/ SendTile(r, c) \/ ReduceTile(r, c)
    \/ Score(r, c) \/ FinishHead(r, c) \/ OfferCandidate(r, c) \/ RaiseFlags(r, c)
    \/ AwaitFlags(r, c) \/ ChooseToken(r, c)
    \/ Join(r, c) \/ Pass(r, c)

Running(r) == \E c \in Cta : cta[r][c].at # "away"

---------------------------------------------------------------------------
Init ==
    /\ build \in Builds
    /\ host = [request |-> 1, next |-> 1]
    /\ stream = Fill(Rank, <<>>)
    /\ iteration = Fill(Rank, 0)
    /\ cta = Fill(Rank, Fill(Cta, Away))
    /\ bank = Fill(Rank, Fill(Cta, Fill(0 .. 1, NoRecord)))
    /\ memory = Fill(Rank,
          [x |-> Fill(0 .. (XTiles - 1), Nothing), qkv |-> Fill(0 .. (QkvTiles - 1), Nothing),
           context |-> Fill(0 .. (KvGroups - 1), Nothing),
           act |-> Fill(0 .. (ActTiles - 1), Nothing), partial |-> Fill(Cta, Nothing)])
    /\ tokens = Fill(Rank, Fill(Position, Nothing))
    /\ events = Fill(Rank, Fill(DenseStage, 0))
    /\ groups = Fill(Rank, Fill(0 .. (KvGroups - 1), 0))
    /\ arrived = Fill(Rank, 0)
    /\ packets = Fill(Rank, Fill(0 .. (2 * Layers - 1),
          Fill(Rank, Fill(0 .. (XTiles - 1), [epoch |-> 0, value |-> Nothing]))))
    /\ exchange = Fill(Rank, [data |-> Fill(0 .. 1, Fill(Rank, Nothing)),
                              flag |-> Fill(0 .. 1, Fill(Rank, 0))])

Next ==
    \/ Issue \/ Synchronize
    \/ \E r \in Rank :
          \/ CopyPrompt(r) \/ StartKernel(r) \/ EndKernel(r)
          \/ \E c \in Cta : Running(r) /\ CtaStep(r, c)

Spec == Init /\ [][Next]_vars

\* A grid is resident as a whole (one CTA per multiprocessor) on a device of its
\* own, and the driver serves its streams: whatever can go on, something does.
\* Every step uses up something finite, so no fairness between them is needed.
FairSpec == Spec /\ WF_vars(Next)

---------------------------------------------------------------------------
(* Every value of the model is what the code means it to be: each task     *)
(* read what the stage before wrote in this step, all of it; no packet or  *)
(* candidate of another step was taken for this one's; each token          *)
(* embedded stood at the position it was embedded for.                     *)
InputsCurrent ==
    \A r \in Rank :
        /\ \A i \in DOMAIN memory[r].x : memory[r].x[i] # Garbled
        /\ \A i \in DOMAIN memory[r].qkv : memory[r].qkv[i] # Garbled
        /\ \A i \in DOMAIN memory[r].context : memory[r].context[i] # Garbled
        /\ \A i \in DOMAIN memory[r].act : memory[r].act[i] # Garbled
        /\ \A c \in Cta : Garbled \notin {memory[r].partial[c], cta[r][c].held}

(* When the engine has synchronized a request, every rank's buffer holds   *)
(* its prompt, and then tokens chosen among all ranks' candidates of their *)
(* own steps: generate's check that the ranks wrote identical tokens (C4)  *)
(* never fails.                                                            *)
RanksAgree ==
    /\ Serving /\ host.next > Len(Commands(host.request))
    /\ \A r \in Rank : stream[r] = <<>>
    => \A r \in Rank : \A p \in 0 .. (PromptLen + NewTokens[host.request] - 1) :
          tokens[r][p] = Token(host.request, p)

(* Every request is generated: no CTA waits for a peer whose kernel the    *)
(* host has yet to enqueue, for an arrival that was skipped, or for a      *)
(* packet of an epoch that no one sends.                                   *)
GenerationsComplete == <>(host.request > Len(NewTokens))
=============================================================================
