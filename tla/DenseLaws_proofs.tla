-------------------------- MODULE DenseLaws_proofs --------------------------
(***************************************************************************)
(* The dense program on several ranks, and what is always true of it.      *)
(* Each rank's row of CTAs, its stream and what the ranks have written to  *)
(* each other are described by one law each, all of them for the request   *)
(* that is being served.  A CTA's place tells how often it has arrived at  *)
(* every stage, so that each counter is known from the places (EventsLaw,  *)
(* GroupsLaw, HeadLaw), and a barrier at its target says where all CTAs    *)
(* are.  The places then say what memory holds (MemoryLaw), what the       *)
(* packets and candidates of the other ranks are (PacketLaw, ExchangeLaw), *)
(* and that a rank whose CTAs have seen every flag of a step is not ahead  *)
(* of any rank by more than that (SkewLaw).  This module states the laws   *)
(* and proves what they say of a row and how a row's step changes them;    *)
(* DenseTensorParallel_proofs goes through the actions.                    *)
(***************************************************************************)
EXTENDS DenseTensorParallel, RuntimeGraph_proofs

-----------------------------------------------------------------------------
(***************************************************************************)
(* The commands of a request, in rounds: each rank gets one of every       *)
(* round, and a round is the steps from one FirstOf to the next.           *)
(***************************************************************************)
TotalSteps(q) == PromptLen + NewTokens[q] - 1

Rounds(b, q) ==
    IF b.loop THEN (IF NewTokens[q] > 1 THEN 3 ELSE 2) ELSE TotalSteps(q) + 1

FirstOf(b, q, k) ==
    IF b.loop THEN (IF k <= 1 THEN 0 ELSE IF k = 2 THEN PromptLen ELSE TotalSteps(q))
              ELSE (IF k = 0 THEN 0 ELSE k - 1)

Command(b, q, B, k) ==
    [request |-> q, first |-> FirstOf(b, q, k),
     count |-> FirstOf(b, q, k + 1) - FirstOf(b, q, k),
     iteration |-> B + FirstOf(b, q, k)]

\* Of the commands before n, those of rank r.
Issued(n, r) == ((n - 1) \div World) + (IF r < (n - 1) % World THEN 1 ELSE 0)

\* A stream holds the last rounds issued to its rank.
StreamLaw(b, q, B, i, s, steps) ==
    /\ i <= Rounds(b, q)
    /\ Len(s) <= i
    /\ \A j \in 1 .. Len(s) : s[j] = Command(b, q, B, i - Len(s) + j - 1)
    /\ steps = B + FirstOf(b, q, i)

Done == [r \in Rank |-> Issued(host.next, r) - Len(stream[r])]

\* A CTA that is not running stands at the step its rank goes on with.
StepOf(b, q, d, x) ==
    IF x.at = "away" THEN FirstOf(b, q, d)
    ELSE IF x.at = "done" THEN FirstOf(b, q, d + 1) ELSE x.step

Places ==
    [r \in Rank |-> [c \in Cta |->
        [cta[r][c] EXCEPT !.step = StepOf(build, host.request, Done[r], cta[r][c])]]]

-----------------------------------------------------------------------------
(***************************************************************************)
(* How far a CTA is: the steps in which it arrived at the end of a stage,  *)
(* was let past it, did a task of it, sent that task's packet, handed in   *)
(* its part of the head; and the qkv stages it has joined.                 *)
(***************************************************************************)
Arr(x, g) ==
    x.step + (IF x.stage > g \/ (x.stage = g /\ x.at = "wait") THEN 1 ELSE 0)
Freed(x, g) == x.step + (IF x.stage > g THEN 1 ELSE 0)
Ran(x, g, t) ==
    x.step + (IF x.stage > g \/ (x.stage = g /\ x.task > t) THEN 1 ELSE 0)
Sent(x, g, t) ==
    x.step + (IF \/ x.stage > g
                 \/ x.stage = g /\ (x.task > t \/ (x.task = t /\ x.at = "reduce"))
              THEN 1 ELSE 0)

Deciding == {"offer", "flag", "await", "choose"}
Idle == {"away", "done"}

Scored(x) ==
    x.step + (IF x.stage = HeadStage /\ x.at \in Deciding \cup {"join", "wait"} THEN 1 ELSE 0)
JoinedInStep(x) ==
    ((x.stage + 3) \div 5) + (IF Kind(x.stage) = "qkv" /\ x.at = "wait" THEN 1 ELSE 0)
Joined(x) == x.step * Layers + JoinedInStep(x)

\* Every CTA is done with step n's part of the head, none is still at S in it.
HeadPast(row, n, S) ==
    \A c \in Cta : Scored(row[c]) >= n + 1 /\ (row[c].at \in S => row[c].step > n)

Offered(row, n) == HeadPast(row, n, {"offer"})
Raised(row, n) == HeadPast(row, n, {"offer", "flag"})
Awaited(row, n) == HeadPast(row, n, {"offer", "flag", "await"})
Chosen(row, n) == HeadPast(row, n, Deciding)

\* Step n's token has been embedded.
Embeds(b, row, n) ==
    IF b.embed /\ n # 0 THEN Chosen(row, n - 1) ELSE Ran(row[0], 0, 0) >= n + 1

-----------------------------------------------------------------------------
(***************************************************************************)
(* The laws of one rank.  q is the request being served, B the iteration   *)
(* it began with, d the rounds the rank is done with.                      *)
(***************************************************************************)
PlaceLaw(b, q, c, x) ==
    /\ x.at \in Idle => x.stage = 0 /\ x.task = 0 /\ x.held = Nothing
    /\ x.at \notin Idle => x.task % Grid = c /\ x.task >= c
    /\ x.at = "reduce" =>
          /\ Reduces(x.stage) /\ x.task < Tasks(x.stage)
          /\ x.held = Value(q, x.step, x.stage)
    /\ x.at \in Deciding \cup {"join"} => x.stage = HeadStage
    /\ x.at \in Deciding \cup {"join", "wait"} => x.task >= Tasks(x.stage)
    /\ x.at = "wait" => ~(b.embed /\ x.stage = 0 /\ x.step # 0)
    /\ x.at = "task" =>
          x.held = IF x.stage = HeadStage /\ x.task > c
                   THEN Value(q, x.step, HeadStage) ELSE Nothing
    /\ x.at \in {"flag", "await", "choose"} => x.held = Value(q, x.step, HeadStage)
    /\ x.at \in {"offer", "join", "wait"} => x.held = Nothing

\* s tells whether the stream has a command.
KernelLaw(b, q, d, s, row) ==
    /\ \A c, e \in Cta : row[c].at # "away" => row[e].at # "away" /\ d >= 1 /\ s
    /\ \A c \in Cta :
          /\ row[c].at = "away" => row[c].step = FirstOf(b, q, d)
          /\ row[c].at = "done" => row[c].step = FirstOf(b, q, d + 1)
          /\ row[c].at \notin Idle =>
                FirstOf(b, q, d) <= row[c].step /\ row[c].step < FirstOf(b, q, d + 1)

Meets(b, g) == ~(b.groups /\ Kind(g) = "qkv") /\ ~(b.embed /\ g = 0)

BarrierLaw(b, row) ==
    /\ \A g \in DenseStage : \A c, e \in Cta :
          Meets(b, g) => Freed(row[c], g) <= Arr(row[e], g)
    /\ \A c, e \in Cta :
          b.embed /\ Freed(row[c], 0) >= 1 => Arr(row[e], 0) >= 1

EventsLaw(b, B, row, ev) ==
    \A g \in DenseStage :
        ~(b.groups /\ Kind(g) = "qkv") =>
            Tally(Cta, [c \in Cta |-> Arr(row[c], g)], ev[g], Grid, B)

TilesOf(k) == {t \in 0 .. (QkvTiles - 1) : GroupOf(t) = k}

GroupsLaw(b, B, row, gr) ==
    b.groups => \A k \in 0 .. (KvGroups - 1) :
        Tally(TilesOf(k), [t \in TilesOf(k) |-> Joined(row[t % Grid])], gr[k],
              GroupTiles, B * Layers)

\* A CTA at attention has the qkv tiles of its groups.
GroupFree(b, row) ==
    b.groups => \A c \in Cta : Kind(row[c].stage) = "attention" =>
        \A t \in 0 .. (QkvTiles - 1) :
            GroupOf(t) % Grid = c => Arr(row[t % Grid], row[c].stage - 1) >= row[c].step + 1

HeadLaw(B, row, n) ==
    /\ Tally(Cta, [c \in Cta |-> Scored(row[c])], n, Grid, B)
    /\ \A c, e \in Cta : row[c].at \in Deciding =>
          /\ Scored(row[e]) >= row[c].step + 1
          /\ e # c => row[e].at \notin Deciding

BankLaw(b, B, x, k) ==
    /\ x.at \notin Idle /\ x.at # "wait" /\ x.stage >= 1 =>
          /\ k[x.stage % 2].stage = x.stage
          /\ x.stage >= 2 => k[x.stage % 2] = Record(x.stage, x.step, B + x.step + 1)
    /\ x.at = "wait" /\ x.stage < HeadStage =>
          k[(x.stage + 1) % 2] = Record(x.stage + 1, x.step, B + x.step + 1)
    /\ b.embed /\ x.at = "wait" /\ x.stage = HeadStage => k[1].stage = 1
    /\ b.embed /\ x.at \notin Idle /\ x.stage = 0 /\ x.step # 0 => k[1].stage = 1

\* The tiles of one kind: written at it, and standing through the stage after it.
WrittenAt(kind, q, row, T, m) ==
    \A t \in T :
        LET x == row[t % Grid] IN
        /\ Kind(x.stage) = kind /\ x.task > t => m[t] = Value(q, x.step, x.stage)
        /\ x.stage >= 1 /\ Kind(x.stage - 1) = kind => m[t] = Value(q, x.step, x.stage - 1)

\* The stage whose sum a tile of the residual stream holds, at x.
StreamStage(x, t) ==
    CASE Kind(x.stage) = "attention" -> x.stage - 2
      [] Kind(x.stage) = "o" -> IF x.task > t THEN x.stage ELSE x.stage - 3
      [] Kind(x.stage) = "down" -> IF x.task > t THEN x.stage ELSE x.stage - 2
      [] OTHER -> x.stage - 1

ResidualLaw(b, q, row, m) ==
    \A t \in 0 .. (XTiles - 1) :
        LET x == row[t % Grid] IN
        /\ x.stage = 0 /\ Embeds(b, row, x.step) => m[t] = Value(q, x.step, 0)
        /\ 0 < x.stage /\ x.stage < HeadStage => m[t] = Value(q, x.step, StreamStage(x, t))
        /\ x.stage = HeadStage =>
              m[t] = IF Embeds(b, row, x.step + 1) THEN Value(q, x.step + 1, 0)
                     ELSE Value(q, x.step, HeadStage - 1)

PartialLaw(q, row, m) ==
    \A c \in Cta : row[c].stage = HeadStage /\ Scored(row[c]) = row[c].step + 1 =>
        m[c] = Value(q, row[c].step, HeadStage)

MemoryLaw(b, q, row, m) ==
    /\ WrittenAt("qkv", q, row, 0 .. (QkvTiles - 1), m.qkv)
    /\ WrittenAt("attention", q, row, 0 .. (KvGroups - 1), m.context)
    /\ WrittenAt("gate_up", q, row, 0 .. (ActTiles - 1), m.act)
    /\ ResidualLaw(b, q, row, m.x)
    /\ PartialLaw(q, row, m.partial)

TokenLaw(q, d, row, tok) ==
    /\ d >= 1 => \A j \in 0 .. (PromptLen - 1) : tok[j] = Token(q, j)
    /\ \A j \in Position : j >= PromptLen /\ Chosen(row, j - 1) => tok[j] = Token(q, j)

-----------------------------------------------------------------------------
(***************************************************************************)
(* The laws between ranks.                                                 *)
(***************************************************************************)
\* No rank has seen every flag of a step before all have raised theirs.
SkewLaw(P) ==
    \A a, s \in Rank : \A n \in Nat : Awaited(P[a], n) => Raised(P[s], n)

PacketLaw(q, B, P, pk) ==
    \A r, s \in Rank : s # r =>
        \A g \in DenseStage : Reduces(g) => \A t \in 0 .. (XTiles - 1) :
            LET n == Sent(P[s][t % Grid], g, t)  slot == pk[r][Region(g)][s][t] IN
            /\ slot.epoch = (B + n) % PacketEpochs
            /\ n > 0 => slot.value = Value(q, n - 1, g)

ExchangeLaw(q, B, P, ex) ==
    \A r, s \in Rank : s # r => \A n \in Nat :
        /\ \A y \in 0 .. 1 : ex[r].flag[y][s] = B + n + 1 => Raised(P[s], n)
        /\ Offered(P[s], n) /\ ~Offered(P[s], n + 2) =>
              ex[r].data[(B + n) % 2][s] = Value(q, n, HeadStage)

-----------------------------------------------------------------------------
(***************************************************************************)
(* Types.  A value in use is untouched or was computed for a request.      *)
(***************************************************************************)
Val == [request : Nat, past : Nat, stage : Nat]
Sound == {v \in Val : v = Nothing \/ v.request >= 1}
Where == {"task", "reduce", "offer", "flag", "await", "choose", "join", "wait",
          "away", "done"}
PlaceSet == [at : Where, step : Nat, stage : DenseStage, task : Nat, held : Sound]
RecordSet == [stage : Nat, past : Nat, epoch : Nat]
MemorySet ==
    [x : [0 .. (XTiles - 1) -> Sound], qkv : [0 .. (QkvTiles - 1) -> Sound],
     context : [0 .. (KvGroups - 1) -> Sound], act : [0 .. (ActTiles - 1) -> Sound],
     partial : [Cta -> Sound]]
PacketSet == [epoch : Nat, value : Val]
ExchangeSet == [data : [0 .. 1 -> [Rank -> Val]], flag : [0 .. 1 -> [Rank -> Nat]]]

DenseType ==
    /\ build \in Builds
    /\ host \in [request : Nat, next : Nat]
    /\ host.request >= 1 /\ host.next >= 1
    /\ stream \in [Rank -> Seq([request : Nat, first : Nat, count : Nat, iteration : Nat])]
    /\ iteration \in [Rank -> Nat]
    /\ cta \in [Rank -> [Cta -> PlaceSet]]
    /\ bank \in [Rank -> [Cta -> [0 .. 1 -> RecordSet]]]
    /\ memory \in [Rank -> MemorySet]
    /\ tokens \in [Rank -> [Position -> Val]]
    /\ events \in [Rank -> [DenseStage -> Nat]]
    /\ groups \in [Rank -> [0 .. (KvGroups - 1) -> Nat]]
    /\ arrived \in [Rank -> Nat]
    /\ packets \in [Rank -> [0 .. (2 * Layers - 1) ->
                      [Rank -> [0 .. (XTiles - 1) -> PacketSet]]]]
    /\ exchange \in [Rank -> ExchangeSet]

RankLaw(b, q, B, d, s, row, ev, gr, n, bk, m, tok) ==
    /\ \A c \in Cta : PlaceLaw(b, q, c, row[c])
    /\ KernelLaw(b, q, d, s, row)
    /\ BarrierLaw(b, row)
    /\ EventsLaw(b, B, row, ev)
    /\ GroupsLaw(b, B, row, gr)
    /\ GroupFree(b, row)
    /\ HeadLaw(B, row, n)
    /\ \A c \in Cta : BankLaw(b, B, row[c], bk[c])
    /\ MemoryLaw(b, q, row, m)
    /\ TokenLaw(q, d, row, tok)

Serves(B) ==
    /\ \A r \in Rank : StreamLaw(build, host.request, B, Issued(host.next, r),
                                 stream[r], iteration[r])
    /\ \A r \in Rank :
          RankLaw(build, host.request, B, Done[r], stream[r] # <<>>, Places[r], events[r],
                  groups[r], arrived[r], bank[r], memory[r], tokens[r])
    /\ SkewLaw(Places)
    /\ PacketLaw(host.request, B, Places, packets)
    /\ ExchangeLaw(host.request, B, Places, exchange)

DenseInv ==
    /\ DenseType
    /\ Serving => \E B \in Nat : Serves(B)
    /\ ~Serving => \A r \in Rank : stream[r] = <<>> /\ \A c \in Cta : cta[r][c].at = "away"

-----------------------------------------------------------------------------
(***************************************************************************)
(* The stages: their kinds, tasks and regions.                             *)
(***************************************************************************)
LEMMA DenseConstants ==
    /\ World \in Nat /\ World >= 1 /\ Grid \in Nat /\ Grid >= 1
    /\ Layers \in Nat /\ Layers >= 2 /\ Layers % 2 = 0
    /\ XTiles \in Nat /\ XTiles >= 1 /\ QkvTiles \in Nat /\ QkvTiles >= 1
    /\ KvGroups \in Nat /\ KvGroups >= 1 /\ ActTiles \in Nat /\ ActTiles >= 1
    /\ HeadTiles \in Nat /\ HeadTiles >= Grid
    /\ PacketEpochs \in Nat /\ PacketEpochs >= 2
    /\ QueueDepth \in Nat /\ QueueDepth >= 1 /\ PromptLen \in Nat /\ PromptLen >= 1
    /\ HeadStage \in Nat /\ HeadStage = 1 + 5 * Layers /\ HeadStage >= 11
    /\ HeadStage % 2 = 1
    /\ 0 \in Cta /\ 0 \in Rank
<1>1. /\ World \in Nat \ {0} /\ Grid \in Nat \ {0} /\ Layers \in Nat \ {0}
      /\ XTiles \in Nat \ {0} /\ QkvTiles \in Nat \ {0} /\ KvGroups \in Nat \ {0}
      /\ ActTiles \in Nat \ {0} /\ HeadTiles \in Nat \ {0} /\ PacketEpochs \in Nat \ {0}
      /\ QueueDepth \in Nat \ {0} /\ PromptLen \in Nat \ {0}
      /\ Layers % 2 = 0 /\ Grid <= HeadTiles /\ PacketEpochs >= 2
  BY DenseAssumption DEF DenseAssumption
<1>2. Layers >= 2
  BY <1>1
<1>3. (1 + 5 * Layers) % 2 = 1
  BY <1>1
<1>4. QED
  BY <1>1, <1>2, <1>3 DEF HeadStage, Cta, Rank

Kinds == {"embed", "qkv", "attention", "o", "gate_up", "down", "head"}

\* A stage in the layers is at one of five places of one layer.
LEMMA StageForm ==
    ASSUME NEW g \in 1 .. (HeadStage - 1)
    PROVE  \E l \in 0 .. (Layers - 1) :
              \/ g = 1 + 5 * l /\ Layer(g) = l /\ Kind(g) = "qkv"
              \/ g = 2 + 5 * l /\ Layer(g) = l /\ Kind(g) = "attention"
              \/ g = 3 + 5 * l /\ Layer(g) = l /\ Kind(g) = "o"
              \/ g = 4 + 5 * l /\ Layer(g) = l /\ Kind(g) = "gate_up"
              \/ g = 5 + 5 * l /\ Layer(g) = l /\ Kind(g) = "down"
<1> DEFINE l == (g - 1) \div 5
           m == (g - 1) % 5
<1>1. l \in Nat /\ m \in 0 .. 4 /\ g - 1 = 5 * l + m /\ l < Layers
  BY DenseConstants, SMT
<1>2. Layer(g) = l
  BY DEF Layer
<1>3. Kind(g) = <<"qkv", "attention", "o", "gate_up", "down">>[m + 1]
  BY DenseConstants DEF Kind
<1>4. l \in 0 .. (Layers - 1)
  BY <1>1, DenseConstants
<1> HIDE DEF l, m
<1>5. CASE m = 0
  BY <1>1, <1>2, <1>3, <1>4, <1>5
<1>6. CASE m = 1
  BY <1>1, <1>2, <1>3, <1>4, <1>6
<1>7. CASE m = 2
  BY <1>1, <1>2, <1>3, <1>4, <1>7
<1>8. CASE m = 3
  BY <1>1, <1>2, <1>3, <1>4, <1>8
<1>9. CASE m = 4
  BY <1>1, <1>2, <1>3, <1>4, <1>9
<1>10. QED
  BY <1>1, <1>5, <1>6, <1>7, <1>8, <1>9

LEMMA StageAt ==
    ASSUME NEW l \in 0 .. (Layers - 1)
    PROVE  /\ 1 + 5 * l \in 1 .. (HeadStage - 1) /\ Kind(1 + 5 * l) = "qkv"
           /\ 2 + 5 * l \in 1 .. (HeadStage - 1) /\ Kind(2 + 5 * l) = "attention"
           /\ 3 + 5 * l \in 1 .. (HeadStage - 1) /\ Kind(3 + 5 * l) = "o"
           /\ 4 + 5 * l \in 1 .. (HeadStage - 1) /\ Kind(4 + 5 * l) = "gate_up"
           /\ 5 + 5 * l \in 1 .. (HeadStage - 1) /\ Kind(5 + 5 * l) = "down"
<1>1. /\ 1 + 5 * l \in 1 .. (HeadStage - 1)
      /\ 2 + 5 * l \in 1 .. (HeadStage - 1)
      /\ 3 + 5 * l \in 1 .. (HeadStage - 1)
      /\ 4 + 5 * l \in 1 .. (HeadStage - 1)
      /\ 5 + 5 * l \in 1 .. (HeadStage - 1)
  BY DenseConstants
<1>2. /\ (1 + 5 * l - 1) % 5 = 0 /\ (2 + 5 * l - 1) % 5 = 1
      /\ (3 + 5 * l - 1) % 5 = 2 /\ (4 + 5 * l - 1) % 5 = 3
      /\ (5 + 5 * l - 1) % 5 = 4
  BY SMT
<1>3. ASSUME NEW g \in 1 .. (HeadStage - 1)
      PROVE  Kind(g) = <<"qkv", "attention", "o", "gate_up", "down">>[((g - 1) % 5) + 1]
  BY <1>3, DenseConstants DEF Kind
<1>4. QED
  BY <1>1, <1>2, <1>3

LEMMA EdgeKinds == Kind(0) = "embed" /\ Kind(HeadStage) = "head"
BY DenseConstants DEF Kind

\* What comes before and after each kind.
LEMMA KindFacts ==
    ASSUME NEW g \in DenseStage
    PROVE  /\ g \in Nat /\ g <= HeadStage /\ Kind(g) \in Kinds
           /\ Kind(g) = "embed" <=> g = 0
           /\ Kind(g) = "head" <=> g = HeadStage
           /\ Kind(g) = "qkv" => g >= 1 /\ g + 4 < HeadStage /\ Kind(g + 1) = "attention"
                                 /\ Kind(g - 1) \in {"embed", "down"}
           /\ Kind(g) = "attention" => g >= 2 /\ g + 3 < HeadStage /\ Kind(g + 1) = "o"
                                 /\ Kind(g - 1) = "qkv"
           /\ Kind(g) = "o" => g >= 3 /\ g + 2 < HeadStage /\ Kind(g + 1) = "gate_up"
                                 /\ Kind(g - 1) = "attention"
           /\ Kind(g) = "gate_up" => g >= 4 /\ g + 1 < HeadStage /\ Kind(g + 1) = "down"
                                 /\ Kind(g - 1) = "o"
           /\ Kind(g) = "down" => g >= 5 /\ g < HeadStage /\ Kind(g + 1) \in {"qkv", "head"}
                                 /\ Kind(g - 1) = "gate_up"
           /\ Kind(g) = "head" => Kind(g - 1) = "down"
           /\ Kind(1) = "qkv"
<1>0. Kind(1) = "qkv"
  <2>1. 0 \in 0 .. (Layers - 1) /\ 1 + 5 * 0 = 1
    BY DenseConstants
  <2>2. QED
    BY <2>1, StageAt
<1>1. CASE g = 0
  BY <1>0, <1>1, EdgeKinds, DenseConstants DEF Kinds
<1>2. CASE g = HeadStage
  <2>1. PICK l \in 0 .. (Layers - 1) : l = Layers - 1
    BY DenseConstants
  <2>2. g - 1 = 5 + 5 * l
    BY <1>2, <2>1, DenseConstants
  <2>3. Kind(g - 1) = "down"
    BY <2>2, StageAt
  <2>4. QED
    BY <1>0, <1>2, <2>3, EdgeKinds, DenseConstants DEF Kinds
<1>3. CASE g # 0 /\ g # HeadStage
  <2>1. g \in 1 .. (HeadStage - 1)
    BY <1>3, DenseConstants DEF DenseStage
  <2>2. PICK l \in 0 .. (Layers - 1) :
              \/ g = 1 + 5 * l /\ Layer(g) = l /\ Kind(g) = "qkv"
              \/ g = 2 + 5 * l /\ Layer(g) = l /\ Kind(g) = "attention"
              \/ g = 3 + 5 * l /\ Layer(g) = l /\ Kind(g) = "o"
              \/ g = 4 + 5 * l /\ Layer(g) = l /\ Kind(g) = "gate_up"
              \/ g = 5 + 5 * l /\ Layer(g) = l /\ Kind(g) = "down"
    BY <2>1, StageForm
  <2>3. /\ Kind(1 + 5 * l) = "qkv" /\ Kind(2 + 5 * l) = "attention"
        /\ Kind(3 + 5 * l) = "o" /\ Kind(4 + 5 * l) = "gate_up"
        /\ Kind(5 + 5 * l) = "down"
    BY StageAt
  <2>4. l \in Nat /\ l <= Layers - 1
    BY DenseConstants
  <2>5. CASE g = 1 + 5 * l /\ Kind(g) = "qkv"
    <3>1. Kind(g - 1) \in {"embed", "down"}
      <4>1. CASE l = 0
        BY <2>5, <4>1, EdgeKinds
      <4>2. CASE l # 0
        <5>1. l - 1 \in 0 .. (Layers - 1) /\ g - 1 = 5 + 5 * (l - 1)
          BY <2>4, <2>5, <4>2, DenseConstants
        <5>2. Kind(5 + 5 * (l - 1)) = "down"
          BY <5>1, StageAt
        <5>3. QED
          BY <5>1, <5>2
      <4>3. QED
        BY <4>1, <4>2
    <3>2. g + 1 = 2 + 5 * l /\ g >= 1 /\ g + 4 < HeadStage
      BY <2>4, <2>5, DenseConstants
    <3>3. QED
      BY <1>0, <1>3, <2>1, <2>3, <2>5, <3>1, <3>2, DenseConstants DEF Kinds
  <2>6. CASE g = 2 + 5 * l /\ Kind(g) = "attention"
    <3>1. g + 1 = 3 + 5 * l /\ g - 1 = 1 + 5 * l /\ g >= 2 /\ g + 3 < HeadStage
      BY <2>4, <2>6, DenseConstants
    <3>2. QED
      BY <1>0, <1>3, <2>1, <2>3, <2>6, <3>1, DenseConstants DEF Kinds
  <2>7. CASE g = 3 + 5 * l /\ Kind(g) = "o"
    <3>1. g + 1 = 4 + 5 * l /\ g - 1 = 2 + 5 * l /\ g >= 3 /\ g + 2 < HeadStage
      BY <2>4, <2>7, DenseConstants
    <3>2. QED
      BY <1>0, <1>3, <2>1, <2>3, <2>7, <3>1, DenseConstants DEF Kinds
  <2>8. CASE g = 4 + 5 * l /\ Kind(g) = "gate_up"
    <3>1. g + 1 = 5 + 5 * l /\ g - 1 = 3 + 5 * l /\ g >= 4 /\ g + 1 < HeadStage
      BY <2>4, <2>8, DenseConstants
    <3>2. QED
      BY <1>0, <1>3, <2>1, <2>3, <2>8, <3>1, DenseConstants DEF Kinds
  <2>9. CASE g = 5 + 5 * l /\ Kind(g) = "down"
    <3>1. Kind(g + 1) \in {"qkv", "head"}
      <4>1. CASE l = Layers - 1
        <5>1. g + 1 = HeadStage
          BY <2>9, <4>1, DenseConstants
        <5>2. QED
          BY <5>1, EdgeKinds
      <4>2. CASE l # Layers - 1
        <5>1. l + 1 \in 0 .. (Layers - 1) /\ g + 1 = 1 + 5 * (l + 1)
          BY <2>4, <2>9, <4>2, DenseConstants
        <5>2. Kind(1 + 5 * (l + 1)) = "qkv"
          BY <5>1, StageAt
        <5>3. QED
          BY <5>1, <5>2
      <4>3. QED
        BY <4>1, <4>2
    <3>2. g - 1 = 4 + 5 * l /\ g >= 5 /\ g < HeadStage
      BY <2>4, <2>9, DenseConstants
    <3>3. QED
      BY <1>0, <1>3, <2>1, <2>3, <2>9, <3>1, <3>2, DenseConstants DEF Kinds
  <2>10. QED
    BY <2>2, <2>5, <2>6, <2>7, <2>8, <2>9
<1>4. QED
  BY <1>1, <1>2, <1>3

LEMMA TaskFacts ==
    ASSUME NEW g \in DenseStage
    PROVE  /\ Tasks(g) \in Nat /\ Tasks(g) >= 1
           /\ Kind(g) = "embed" => Tasks(g) = 1
           /\ Kind(g) = "qkv" => Tasks(g) = QkvTiles
           /\ Kind(g) = "attention" => Tasks(g) = KvGroups
           /\ Kind(g) \in {"o", "down"} => Tasks(g) = XTiles
           /\ Kind(g) = "gate_up" => Tasks(g) = ActTiles
           /\ Kind(g) = "head" => Tasks(g) = HeadTiles
           /\ Reduces(g) <=> Kind(g) \in {"o", "down"}
<1>1. Kind(g) \in Kinds
  BY KindFacts
<1>2. QED
  BY <1>1, DenseConstants DEF Tasks, TaskCount, Kinds, Reduces

LEMMA RegionFacts ==
    ASSUME NEW g \in DenseStage, Reduces(g)
    PROVE  /\ Region(g) \in 0 .. (2 * Layers - 1)
           /\ \A h \in DenseStage : Reduces(h) /\ Region(h) = Region(g) => h = g
<1>1. ASSUME NEW h \in DenseStage, Reduces(h)
      PROVE  \E l \in 0 .. (Layers - 1) :
                \/ h = 3 + 5 * l /\ Region(h) = 2 * l
                \/ h = 5 + 5 * l /\ Region(h) = 2 * l + 1
  <2>1. h \in 1 .. (HeadStage - 1)
    BY <1>1, KindFacts, DenseConstants DEF Reduces
  <2>2. PICK l \in 0 .. (Layers - 1) :
              \/ h = 1 + 5 * l /\ Layer(h) = l /\ Kind(h) = "qkv"
              \/ h = 2 + 5 * l /\ Layer(h) = l /\ Kind(h) = "attention"
              \/ h = 3 + 5 * l /\ Layer(h) = l /\ Kind(h) = "o"
              \/ h = 4 + 5 * l /\ Layer(h) = l /\ Kind(h) = "gate_up"
              \/ h = 5 + 5 * l /\ Layer(h) = l /\ Kind(h) = "down"
    BY <2>1, StageForm
  <2>3. CASE h = 3 + 5 * l /\ Layer(h) = l /\ Kind(h) = "o"
    BY <2>3 DEF Region
  <2>4. CASE h = 5 + 5 * l /\ Layer(h) = l /\ Kind(h) = "down"
    BY <2>4 DEF Region
  <2>5. QED
    BY <1>1, <2>2, <2>3, <2>4 DEF Reduces
<1>2. PICK l \in 0 .. (Layers - 1) :
          \/ g = 3 + 5 * l /\ Region(g) = 2 * l
          \/ g = 5 + 5 * l /\ Region(g) = 2 * l + 1
  BY <1>1
<1>3. Region(g) \in 0 .. (2 * Layers - 1)
  BY <1>2, DenseConstants
<1>4. ASSUME NEW h \in DenseStage, Reduces(h), Region(h) = Region(g)
      PROVE  h = g
  <2>1. PICK i \in 0 .. (Layers - 1) :
          \/ h = 3 + 5 * i /\ Region(h) = 2 * i
          \/ h = 5 + 5 * i /\ Region(h) = 2 * i + 1
    BY <1>1, <1>4
  <2>2. QED
    BY <1>2, <1>4, <2>1
<1>5. QED
  BY <1>3, <1>4

\* The tiles of a CTA are a grid apart.
LEMMA SameOwner ==
    ASSUME NEW t \in Nat, NEW u \in Nat, t % Grid = u % Grid
    PROVE  /\ t < u + Grid => t <= u
           /\ t % Grid \in Cta
           /\ (t + Grid) % Grid = t % Grid
<1>1. t = (t \div Grid) * Grid + (t % Grid) /\ u = (u \div Grid) * Grid + (u % Grid)
      /\ t \div Grid \in Nat /\ u \div Grid \in Nat /\ t % Grid \in Nat /\ t % Grid < Grid
  <2>1. Grid \in Nat \ {0}
    BY DenseConstants
  <2>2. /\ t \div Grid \in Nat /\ t % Grid \in 0 .. (Grid - 1)
        /\ t = (t \div Grid) * Grid + (t % Grid)
    BY <2>1, Division
  <2>3. /\ u \div Grid \in Nat
        /\ u = (u \div Grid) * Grid + (u % Grid)
    BY <2>1, Division
  <2>4. QED
    BY <2>1, <2>2, <2>3
<1>2. PICK a \in Nat, b \in Nat : a = t \div Grid /\ b = u \div Grid
  BY <1>1
<1>3. t < u + Grid => t <= u
  <2>1. SUFFICES ASSUME t < u + Grid, t > u PROVE FALSE
    OBVIOUS
  <2>2. a >= b + 1
    <3>1. SUFFICES ASSUME a <= b PROVE FALSE
      OBVIOUS
    <3>2. a * Grid <= b * Grid
      BY <1>2, <3>1, DenseConstants, SMT
    <3>3. QED
      BY <1>1, <1>2, <2>1, <3>2, DenseConstants
  <2>3. a * Grid >= b * Grid + Grid
    BY <2>2, DenseConstants, SMT
  <2>4. QED
    BY <1>1, <1>2, <2>1, <2>3, DenseConstants
<1>4. (t + Grid) % Grid = t % Grid
  <2>1. PICK o \in Nat : o = t % Grid /\ o < Grid
    BY <1>1
  <2>2. t + Grid = (a + 1) * Grid + o
    BY <1>1, <1>2, <2>1, DenseConstants, SMT
  <2>3. Grid \in Nat \ {0} /\ a + 1 \in Nat /\ o \in 0 .. (Grid - 1)
    BY <2>1, DenseConstants
  <2>4. ((a + 1) * Grid + o) % Grid = o
    BY <2>3, DivisionUnique
  <2>5. QED
    BY <2>1, <2>2, <2>4
<1>5. QED
  BY <1>1, <1>3, <1>4, DenseConstants DEF Cta

-----------------------------------------------------------------------------
(***************************************************************************)
(* Places: how the moves of a CTA change what it has done.                 *)
(***************************************************************************)
\* The part of a place's type that the counting needs.
Located(x) == x.step \in Nat /\ x.stage \in DenseStage /\ x.task \in Nat

LEMMA PlaceFields ==
    ASSUME NEW x \in PlaceSet
    PROVE  /\ Located(x) /\ x.at \in Where /\ x.held \in Sound
           /\ x = [at |-> x.at, step |-> x.step, stage |-> x.stage, task |-> x.task,
                   held |-> x.held]
BY DEF PlaceSet, Located

LEMMA PlaceIntro ==
    ASSUME NEW a \in Where, NEW p \in Nat, NEW g \in DenseStage, NEW t \in Nat,
           NEW v \in Sound
    PROVE  [at |-> a, step |-> p, stage |-> g, task |-> t, held |-> v] \in PlaceSet
BY DEF PlaceSet

LEMMA StageIsNat == \A g \in DenseStage : g \in Nat /\ g <= HeadStage
BY DenseConstants DEF DenseStage

LEMMA ProgressTypes ==
    ASSUME NEW x, Located(x), NEW g \in DenseStage
    PROVE  /\ Arr(x, g) \in Nat /\ Freed(x, g) \in Nat /\ Scored(x) \in Nat
           /\ Freed(x, g) <= Arr(x, g) /\ Arr(x, g) <= Freed(x, g) + 1
           /\ x.step <= Freed(x, g) /\ Freed(x, HeadStage) = x.step
           /\ x.step <= Scored(x) /\ Scored(x) <= x.step + 1
           /\ Arr(x, HeadStage) <= Scored(x)
<1>1. /\ x.stage \in Nat /\ x.stage <= HeadStage /\ x.step \in Nat
      /\ g \in Nat /\ g <= HeadStage /\ HeadStage \in Nat
  BY StageIsNat, DenseConstants DEF Located
<1>2. Arr(x, g) \in Nat /\ Freed(x, g) \in Nat /\ Freed(x, g) <= Arr(x, g)
      /\ Arr(x, g) <= Freed(x, g) + 1 /\ x.step <= Freed(x, g)
  BY <1>1 DEF Arr, Freed
<1>3. Freed(x, HeadStage) = x.step
  BY <1>1 DEF Freed
<1>4. x.step <= Scored(x) /\ Scored(x) <= x.step + 1 /\ Scored(x) \in Nat
  BY <1>1 DEF Scored
<1>5. Arr(x, HeadStage) <= Scored(x)
  BY <1>1 DEF Scored, Arr
<1>6. QED
  BY <1>2, <1>3, <1>4, <1>5

Inner(x, y) ==
    y.step = x.step /\ y.stage = x.stage /\ (y.at = "wait" <=> x.at = "wait")
Joining(x, y) ==
    y.step = x.step /\ y.stage = x.stage /\ x.at # "wait" /\ y.at = "wait"
Passing(x, y) ==
    /\ x.at = "wait" /\ y.at # "wait"
    /\ IF x.stage < HeadStage THEN y.stage = x.stage + 1 /\ y.step = x.step
                              ELSE y.stage = 0 /\ y.step = x.step + 1
Skipping(x, y) ==
    x.at # "wait" /\ x.stage = 0 /\ y.at # "wait" /\ y.stage = 1 /\ y.step = x.step

LEMMA MoveProgress ==
    ASSUME NEW x, Located(x), NEW y, Located(y), NEW g \in DenseStage
    PROVE  /\ Inner(x, y) => Arr(y, g) = Arr(x, g) /\ Freed(y, g) = Freed(x, g)
           /\ Joining(x, y) =>
                 /\ Arr(y, g) = Arr(x, g) + (IF g = x.stage THEN 1 ELSE 0)
                 /\ Freed(y, g) = Freed(x, g)
           /\ Passing(x, y) =>
                 /\ Arr(y, g) = Arr(x, g)
                 /\ Freed(y, g) = Freed(x, g) + (IF g = x.stage THEN 1 ELSE 0)
           /\ Skipping(x, y) =>
                 /\ Arr(y, g) = Arr(x, g) + (IF g = 0 THEN 1 ELSE 0)
                 /\ Freed(y, g) = Freed(x, g) + (IF g = 0 THEN 1 ELSE 0)
<1>1. g \in Nat /\ g <= HeadStage /\ x.stage <= HeadStage /\ HeadStage >= 11
      /\ x.stage \in Nat /\ y.stage \in Nat /\ y.stage <= HeadStage
  BY StageIsNat, DenseConstants DEF Located
<1>2. Inner(x, y) => Arr(y, g) = Arr(x, g) /\ Freed(y, g) = Freed(x, g)
  BY <1>1 DEF Located, Inner, Arr, Freed
<1>3. Joining(x, y) =>
         /\ Arr(y, g) = Arr(x, g) + (IF g = x.stage THEN 1 ELSE 0)
         /\ Freed(y, g) = Freed(x, g)
  BY <1>1 DEF Located, Joining, Arr, Freed
<1>4. Passing(x, y) =>
         /\ Arr(y, g) = Arr(x, g)
         /\ Freed(y, g) = Freed(x, g) + (IF g = x.stage THEN 1 ELSE 0)
  <2>1. SUFFICES ASSUME Passing(x, y)
                 PROVE  /\ Arr(y, g) = Arr(x, g)
                        /\ Freed(y, g) = Freed(x, g) + (IF g = x.stage THEN 1 ELSE 0)
    OBVIOUS
  <2>2. x.at = "wait" /\ y.at # "wait" /\ x.step \in Nat
    BY <2>1 DEF Passing, Located
  <2>3. CASE x.stage < HeadStage
    <3>1. y.stage = x.stage + 1 /\ y.step = x.step
      BY <2>1, <2>3 DEF Passing
    <3>2. QED
      BY <1>1, <2>2, <3>1 DEF Arr, Freed
  <2>4. CASE x.stage = HeadStage
    <3>1. y.stage = 0 /\ y.step = x.step + 1
      BY <1>1, <2>1, <2>4 DEF Passing
    <3>2. QED
      BY <1>1, <2>2, <2>4, <3>1 DEF Arr, Freed
  <2>5. QED
    BY <1>1, <2>3, <2>4, DenseConstants
<1>5. Skipping(x, y) =>
         /\ Arr(y, g) = Arr(x, g) + (IF g = 0 THEN 1 ELSE 0)
         /\ Freed(y, g) = Freed(x, g) + (IF g = 0 THEN 1 ELSE 0)
  BY <1>1 DEF Located, Skipping, Arr, Freed
<1>6. QED
  BY <1>2, <1>3, <1>4, <1>5

LEMMA LayerCount ==
    ASSUME NEW g \in DenseStage
    PROVE  /\ (g + 3) \div 5 \in Nat /\ (g + 3) \div 5 <= Layers
           /\ g < HeadStage =>
                 (g + 1 + 3) \div 5 = ((g + 3) \div 5) + (IF Kind(g) = "qkv" THEN 1 ELSE 0)
           /\ Kind(g) = "qkv" => /\ (g + 3) \div 5 = Layer(g) /\ Layer(g) \in Nat
                                 /\ Layer(g) < Layers /\ g = 1 + 5 * Layer(g)
           /\ (0 + 3) \div 5 = 0 /\ (HeadStage + 3) \div 5 = Layers
<1>1. (0 + 3) \div 5 = 0
  OBVIOUS
<1>2. (1 + 5 * Layers + 3) \div 5 = Layers
  BY DenseConstants
<1>3. CASE g = 0
  <2>1. (0 + 1 + 3) \div 5 = 0
    OBVIOUS
  <2>2. Kind(g) # "qkv"
    BY <1>3, EdgeKinds
  <2>3. QED
    BY <1>1, <1>2, <1>3, <2>1, <2>2, DenseConstants
<1>4. CASE g = HeadStage
  BY <1>1, <1>2, <1>4, EdgeKinds, DenseConstants
<1>5. CASE g # 0 /\ g # HeadStage
  <2>1. g \in 1 .. (HeadStage - 1)
    BY <1>5, DenseConstants DEF DenseStage
  <2>2. PICK l \in 0 .. (Layers - 1) :
              \/ g = 1 + 5 * l /\ Layer(g) = l /\ Kind(g) = "qkv"
              \/ g = 2 + 5 * l /\ Layer(g) = l /\ Kind(g) = "attention"
              \/ g = 3 + 5 * l /\ Layer(g) = l /\ Kind(g) = "o"
              \/ g = 4 + 5 * l /\ Layer(g) = l /\ Kind(g) = "gate_up"
              \/ g = 5 + 5 * l /\ Layer(g) = l /\ Kind(g) = "down"
    BY <2>1, StageForm
  <2>3. /\ (1 + 5 * l + 3) \div 5 = l /\ (2 + 5 * l + 3) \div 5 = l + 1
        /\ (3 + 5 * l + 3) \div 5 = l + 1 /\ (4 + 5 * l + 3) \div 5 = l + 1
        /\ (5 + 5 * l + 3) \div 5 = l + 1 /\ (6 + 5 * l + 3) \div 5 = l + 1
    BY SMT
  <2>4. l \in Nat /\ l < Layers
    BY DenseConstants
  <2>5. CASE g = 1 + 5 * l /\ Layer(g) = l /\ Kind(g) = "qkv"
    <3>1. g + 1 + 3 = 2 + 5 * l + 3
      BY <2>5
    <3>2. QED
      BY <1>1, <1>2, <2>3, <2>4, <2>5, <3>1, DenseConstants
  <2>6. CASE g = 2 + 5 * l /\ Kind(g) = "attention"
    <3>1. g + 1 + 3 = 3 + 5 * l + 3
      BY <2>6
    <3>2. QED
      BY <1>1, <1>2, <2>3, <2>4, <2>6, <3>1, DenseConstants
  <2>7. CASE g = 3 + 5 * l /\ Kind(g) = "o"
    <3>1. g + 1 + 3 = 4 + 5 * l + 3
      BY <2>7
    <3>2. QED
      BY <1>1, <1>2, <2>3, <2>4, <2>7, <3>1, DenseConstants
  <2>8. CASE g = 4 + 5 * l /\ Kind(g) = "gate_up"
    <3>1. g + 1 + 3 = 5 + 5 * l + 3
      BY <2>8
    <3>2. QED
      BY <1>1, <1>2, <2>3, <2>4, <2>8, <3>1, DenseConstants
  <2>9. CASE g = 5 + 5 * l /\ Kind(g) = "down"
    <3>1. g + 1 + 3 = 6 + 5 * l + 3
      BY <2>9
    <3>2. QED
      BY <1>1, <1>2, <2>3, <2>4, <2>9, <3>1, DenseConstants
  <2>10. QED
    BY <2>2, <2>5, <2>6, <2>7, <2>8, <2>9
<1>6. QED
  BY <1>3, <1>4, <1>5

LEMMA MoveJoined ==
    ASSUME NEW x, Located(x), NEW y, Located(y)
    PROVE  /\ Joined(x) \in Nat /\ JoinedInStep(x) \in Nat /\ x.step * Layers \in Nat
           /\ Inner(x, y) => Joined(y) = Joined(x)
           /\ Joining(x, y) =>
                 Joined(y) = Joined(x) + (IF Kind(x.stage) = "qkv" THEN 1 ELSE 0)
           /\ Passing(x, y) => Joined(y) = Joined(x)
           /\ Skipping(x, y) => Joined(y) = Joined(x)
<1>1. /\ x.step * Layers \in Nat /\ y.step * Layers \in Nat
      /\ y.step = x.step + 1 => y.step * Layers = x.step * Layers + Layers
      /\ y.step = x.step => y.step * Layers = x.step * Layers
  BY DenseConstants, SMT DEF Located
<1>2. PICK p \in Nat, s \in Nat : p = x.step * Layers /\ s = y.step * Layers
  BY <1>1
<1>3. Kind(0) = "embed" /\ Kind(HeadStage) = "head" /\ Kind(1) = "qkv"
  BY EdgeKinds, KindFacts DEF Located
<1>4. /\ (x.stage + 3) \div 5 \in Nat /\ (y.stage + 3) \div 5 \in Nat
      /\ x.stage < HeadStage => (x.stage + 1 + 3) \div 5
              = ((x.stage + 3) \div 5) + (IF Kind(x.stage) = "qkv" THEN 1 ELSE 0)
      /\ (0 + 3) \div 5 = 0 /\ (HeadStage + 3) \div 5 = Layers
  BY LayerCount DEF Located
<1>5. (1 + 3) \div 5 = 0
  OBVIOUS
<1>6. x.stage \in Nat /\ x.stage <= HeadStage
  BY StageIsNat DEF Located
<1>7. Joined(x) \in Nat /\ JoinedInStep(x) \in Nat
  BY <1>2, <1>4 DEF Joined, JoinedInStep
<1>8. Inner(x, y) => Joined(y) = Joined(x)
  BY <1>1, <1>2, <1>4 DEF Joined, JoinedInStep, Inner
<1>9. Joining(x, y) =>
                 Joined(y) = Joined(x) + (IF Kind(x.stage) = "qkv" THEN 1 ELSE 0)
  BY <1>1, <1>2, <1>4 DEF Joined, JoinedInStep, Joining
<1>10. Passing(x, y) => Joined(y) = Joined(x)
  <2>1. CASE x.stage < HeadStage
    BY <1>1, <1>2, <1>4, <2>1 DEF Joined, JoinedInStep, Passing
  <2>2. CASE x.stage = HeadStage
    BY <1>1, <1>2, <1>3, <1>4, <2>2, DenseConstants DEF Joined, JoinedInStep, Passing
  <2>3. QED
    BY <1>6, <2>1, <2>2, DenseConstants
<1>11. Skipping(x, y) => Joined(y) = Joined(x)
  BY <1>1, <1>2, <1>3, <1>4, <1>5 DEF Joined, JoinedInStep, Skipping
<1>12. QED
  BY <1>1, <1>7, <1>8, <1>9, <1>10, <1>11

\* The head's barrier alone keeps the CTAs of a rank within a step.
LEMMA Lag ==
    ASSUME NEW b, NEW row, \A c \in Cta : Located(row[c]), BarrierLaw(b, row),
           NEW c \in Cta, NEW e \in Cta
    PROVE  /\ row[c].step <= Arr(row[e], HeadStage)
           /\ row[c].step <= row[e].step + 1
           /\ row[c].step = row[e].step + 1 =>
                 row[e].stage = HeadStage /\ row[e].at = "wait"
           /\ \A g \in DenseStage : Arr(row[c], g) <= Arr(row[e], g) + 1
<1>1. HeadStage \in DenseStage /\ Meets(b, HeadStage)
  BY EdgeKinds, DenseConstants DEF DenseStage, Meets
<1>2. Freed(row[c], HeadStage) <= Arr(row[e], HeadStage)
  BY <1>1 DEF BarrierLaw
<1>3. row[c].step <= Arr(row[e], HeadStage)
  BY <1>1, <1>2, ProgressTypes
<1>4. /\ row[c].step \in Nat /\ row[c].stage \in Nat /\ row[c].stage <= HeadStage
      /\ row[e].step \in Nat /\ row[e].stage \in Nat /\ row[e].stage <= HeadStage
  BY StageIsNat DEF Located
<1>5. /\ row[c].step <= row[e].step + 1
      /\ row[c].step = row[e].step + 1 =>
                 row[e].stage = HeadStage /\ row[e].at = "wait"
  BY <1>3, <1>4, DenseConstants DEF Arr
<1>6. ASSUME NEW g \in DenseStage PROVE Arr(row[c], g) <= Arr(row[e], g) + 1
  <2>1. g \in Nat /\ g <= HeadStage
    BY StageIsNat
  <2>2. QED
    BY <1>4, <1>5, <2>1, DenseConstants DEF Arr
<1>7. QED
  BY <1>3, <1>5, <1>6

LEMMA CtaFinite == IsFiniteSet(Cta) /\ Cardinality(Cta) = Grid /\ Cta # {}
<1>1. 0 \in Int /\ Grid - 1 \in Int /\ 0 <= Grid - 1 + 1
  BY DenseConstants
<1>2. IsFiniteSet(0 .. (Grid - 1)) /\ Cardinality(0 .. (Grid - 1)) = Grid - 1 - 0 + 1
  BY <1>1, IntervalCardinality
<1>3. 0 \in Cta
  BY DenseConstants
<1>4. QED
  BY <1>2, <1>3, DenseConstants DEF Cta

\* The counter of a stage at its target: every CTA has arrived.
LEMMA GridReleases ==
    ASSUME NEW b, NEW B \in Nat, NEW row, \A c \in Cta : Located(row[c]),
           BarrierLaw(b, row), NEW ev, EventsLaw(b, B, row, ev),
           NEW c \in Cta, ~(b.groups /\ Kind(row[c].stage) = "qkv"),
           b.embed /\ row[c].stage = 0 => row[c].step = 0,
           ev[row[c].stage] >= (B + row[c].step + 1) * Grid
    PROVE  \A e \in Cta : Arr(row[e], row[c].stage) >= row[c].step + 1
<1> DEFINE f == [e \in Cta |-> Arr(row[e], row[c].stage)]
<1>1. row[c].stage \in DenseStage /\ row[c].step \in Nat
  BY DEF Located
<1>2. Tally(Cta, f, ev[row[c].stage], Grid, B)
  BY <1>1 DEF EventsLaw
<1>3. \A e \in Cta : f[e] \in Nat
  BY <1>1, ProgressTypes
<1>4. \A d, e \in Cta : f[d] <= f[e] + 1
  BY <1>1, Lag
<1>5. \A e \in Cta : f[e] >= row[c].step
  <2> SUFFICES ASSUME NEW e \in Cta PROVE Arr(row[e], row[c].stage) >= row[c].step
    OBVIOUS
  <2>1. CASE Meets(b, row[c].stage)
    <3>1. Freed(row[c], row[c].stage) <= Arr(row[e], row[c].stage)
      BY <1>1, <2>1 DEF BarrierLaw
    <3>2. row[c].step <= Freed(row[c], row[c].stage)
      BY <1>1, ProgressTypes
    <3>3. Freed(row[c], row[c].stage) \in Nat /\ Arr(row[e], row[c].stage) \in Nat
      BY <1>1, ProgressTypes
    <3>4. QED
      BY <1>1, <3>1, <3>2, <3>3
  <2>2. CASE ~Meets(b, row[c].stage)
    <3>1. row[c].step = 0
      BY <2>2 DEF Meets
    <3>2. QED
      BY <1>1, <3>1, ProgressTypes
  <2>3. QED
    BY <2>1, <2>2
<1>6. (B + row[c].step + 1) * Grid = Grid * (B + row[c].step + 1)
  BY <1>1, DenseConstants, SMT
<1> HIDE DEF f
<1>7. \A e \in Cta : f[e] >= row[c].step + 1
  BY <1>1, <1>2, <1>3, <1>4, <1>5, <1>6, CtaFinite, DenseConstants, TallyComplete
<1>8. QED
  BY <1>7 DEF f

-----------------------------------------------------------------------------
(***************************************************************************)
(* What the moves keep of the barriers and their counters.                 *)
(***************************************************************************)
AllLocated(row) == \A c \in Cta : Located(row[c])

\* No arrival is taken back, and whoever is let go was waited for by all.
LEMMA BarrierKept ==
    ASSUME NEW b, NEW row, NEW row2, AllLocated(row), AllLocated(row2),
           BarrierLaw(b, row),
           \A e \in Cta : \A g \in DenseStage : Arr(row2[e], g) >= Arr(row[e], g),
           \A c \in Cta : \A g \in DenseStage :
              \/ Freed(row2[c], g) = Freed(row[c], g)
              \/ /\ Meets(b, g) => \A e \in Cta : Freed(row2[c], g) <= Arr(row2[e], g)
                 /\ b.embed /\ g = 0 => \A e \in Cta : 1 <= Arr(row2[e], g)
    PROVE  BarrierLaw(b, row2)
<1>1. ASSUME NEW g \in DenseStage, NEW c \in Cta, NEW e \in Cta, Meets(b, g)
      PROVE  Freed(row2[c], g) <= Arr(row2[e], g)
  <2>1. Freed(row[c], g) <= Arr(row[e], g)
    BY <1>1 DEF BarrierLaw
  <2>2. /\ Freed(row[c], g) \in Nat /\ Arr(row[e], g) \in Nat
        /\ Freed(row2[c], g) \in Nat /\ Arr(row2[e], g) \in Nat
    BY ProgressTypes DEF AllLocated
  <2>3. Arr(row2[e], g) >= Arr(row[e], g)
    OBVIOUS
  <2>4. CASE Freed(row2[c], g) = Freed(row[c], g)
    BY <2>1, <2>2, <2>3, <2>4
  <2>5. CASE Freed(row2[c], g) # Freed(row[c], g)
    BY <1>1, <2>5
  <2>6. QED
    BY <2>4, <2>5
<1>2. ASSUME NEW c \in Cta, NEW e \in Cta, b.embed, Freed(row2[c], 0) >= 1
      PROVE  Arr(row2[e], 0) >= 1
  <2>1. 0 \in DenseStage
    BY DenseConstants DEF DenseStage
  <2>2. Arr(row[e], 0) \in Nat /\ Arr(row2[e], 0) \in Nat
    BY <2>1, ProgressTypes DEF AllLocated
  <2>3. Arr(row2[e], 0) >= Arr(row[e], 0)
    BY <2>1
  <2>4. CASE Freed(row2[c], 0) = Freed(row[c], 0)
    <3>1. Arr(row[e], 0) >= 1
      BY <1>2, <2>4 DEF BarrierLaw
    <3>2. QED
      BY <2>2, <2>3, <3>1
  <2>5. CASE Freed(row2[c], 0) # Freed(row[c], 0)
    <3>1. 1 <= Arr(row2[e], 0)
      BY <1>2, <2>1, <2>5
    <3>2. QED
      BY <2>2, <3>1
  <2>6. QED
    BY <2>4, <2>5
<1>3. QED
  BY <1>1, <1>2 DEF BarrierLaw

LEMMA EventsSame ==
    ASSUME NEW b, NEW B, NEW row, NEW row2, NEW ev,
           EventsLaw(b, B, row, ev),
           \A e \in Cta : \A g \in DenseStage : Arr(row2[e], g) = Arr(row[e], g)
    PROVE  EventsLaw(b, B, row2, ev)
<1> SUFFICES ASSUME NEW g \in DenseStage, ~(b.groups /\ Kind(g) = "qkv")
             PROVE  Tally(Cta, [c \in Cta |-> Arr(row2[c], g)], ev[g], Grid, B)
  BY DEF EventsLaw
<1>1. [c \in Cta |-> Arr(row2[c], g)] = [c \in Cta |-> Arr(row[c], g)]
  OBVIOUS
<1>2. QED
  BY <1>1 DEF EventsLaw

LEMMA GroupsSame ==
    ASSUME NEW b, NEW B, NEW row, NEW row2, NEW gr,
           GroupsLaw(b, B, row, gr),
           \A e \in Cta : Joined(row2[e]) = Joined(row[e])
    PROVE  GroupsLaw(b, B, row2, gr)
<1> SUFFICES ASSUME NEW k \in 0 .. (KvGroups - 1), b.groups
             PROVE  Tally(TilesOf(k), [t \in TilesOf(k) |-> Joined(row2[t % Grid])], gr[k],
                          GroupTiles, B * Layers)
  BY DEF GroupsLaw
<1>1. \A t \in TilesOf(k) : t % Grid \in Cta
  BY SameOwner DEF TilesOf
<1>2. [t \in TilesOf(k) |-> Joined(row2[t % Grid])] = [t \in TilesOf(k) |-> Joined(row[t % Grid])]
  BY <1>1
<1>3. QED
  BY <1>2 DEF GroupsLaw

LEMMA GroupFreeKept ==
    ASSUME NEW b, NEW row, NEW row2, AllLocated(row), AllLocated(row2),
           GroupFree(b, row),
           \A e \in Cta : \A g \in DenseStage : Arr(row2[e], g) >= Arr(row[e], g),
           \A c \in Cta :
              \/ Kind(row2[c].stage) # "attention"
              \/ row2[c].stage = row[c].stage /\ row2[c].step = row[c].step
              \/ b.groups => \A t \in 0 .. (QkvTiles - 1) : GroupOf(t) % Grid = c =>
                    Arr(row2[t % Grid], row2[c].stage - 1) >= row2[c].step + 1
    PROVE  GroupFree(b, row2)
<1> SUFFICES ASSUME b.groups, NEW c \in Cta, Kind(row2[c].stage) = "attention",
                    row2[c].stage = row[c].stage, row2[c].step = row[c].step,
                    NEW t \in 0 .. (QkvTiles - 1), GroupOf(t) % Grid = c
             PROVE  Arr(row2[t % Grid], row2[c].stage - 1) >= row2[c].step + 1
  BY DEF GroupFree
<1>1. row[c].stage - 1 \in DenseStage /\ row[c].step \in Nat
  <2>1. row[c].stage \in DenseStage /\ row[c].step \in Nat /\ Kind(row[c].stage) = "attention"
    BY DEF AllLocated, Located
  <2>2. row[c].stage \in Nat /\ row[c].stage >= 2 /\ row[c].stage <= HeadStage
    BY <2>1, KindFacts
  <2>3. QED
    BY <2>1, <2>2, DenseConstants DEF DenseStage
<1>2. t % Grid \in Cta
  BY SameOwner
<1>3. Arr(row[t % Grid], row[c].stage - 1) >= row[c].step + 1
  BY DEF GroupFree
<1>4. Arr(row2[t % Grid], row[c].stage - 1) >= Arr(row[t % Grid], row[c].stage - 1)
  BY <1>1, <1>2
<1>5. Arr(row2[t % Grid], row[c].stage - 1) \in Nat /\ Arr(row[t % Grid], row[c].stage - 1) \in Nat
  BY <1>1, <1>2, ProgressTypes DEF AllLocated
<1>6. QED
  BY <1>1, <1>3, <1>4, <1>5

\* The laws of the barriers after the stages.
Barriers(b, B, row, ev, gr) ==
    /\ BarrierLaw(b, row)
    /\ EventsLaw(b, B, row, ev)
    /\ GroupsLaw(b, B, row, gr)
    /\ GroupFree(b, row)

LEMMA InnerBarriers ==
    ASSUME NEW b, NEW B, NEW row, NEW row2, NEW ev, NEW gr,
           AllLocated(row), AllLocated(row2), Barriers(b, B, row, ev, gr),
           \A c \in Cta : Inner(row[c], row2[c])
    PROVE  Barriers(b, B, row2, ev, gr)
<1>1. ASSUME NEW c \in Cta, NEW g \in DenseStage
      PROVE  Arr(row2[c], g) = Arr(row[c], g) /\ Freed(row2[c], g) = Freed(row[c], g)
  BY MoveProgress DEF AllLocated
<1>2. \A c \in Cta : Joined(row2[c]) = Joined(row[c])
  BY MoveJoined DEF AllLocated
<1>3. \A c \in Cta : row2[c].stage = row[c].stage /\ row2[c].step = row[c].step
  BY DEF Inner
<1>4. \A e \in Cta : \A g \in DenseStage : Arr(row2[e], g) >= Arr(row[e], g)
  BY <1>1, ProgressTypes DEF AllLocated
<1>5. BarrierLaw(b, row2)
  BY <1>1, <1>4, BarrierKept DEF Barriers
<1>6. EventsLaw(b, B, row2, ev)
  BY <1>1, EventsSame DEF Barriers
<1>7. GroupsLaw(b, B, row2, gr)
  BY <1>2, GroupsSame DEF Barriers
<1>8. GroupFree(b, row2)
  BY <1>3, <1>4, GroupFreeKept DEF Barriers
<1>9. QED
  BY <1>5, <1>6, <1>7, <1>8 DEF Barriers

\* Only c moves.
Moves(row, row2, c) == \A e \in Cta : e # c => row2[e] = row[e]

\* An arrival at a stage with a counter of its own.
LEMMA EventsRaised ==
    ASSUME NEW b, NEW B \in Nat, NEW row, NEW row2, NEW ev, NEW ev2, NEW c \in Cta,
           AllLocated(row), AllLocated(row2), BarrierLaw(b, row),
           EventsLaw(b, B, row, ev), ev \in [DenseStage -> Nat],
           Moves(row, row2, c), NEW h \in DenseStage,
           \A g \in DenseStage : Arr(row2[c], g) = Arr(row[c], g) + (IF g = h THEN 1 ELSE 0),
           Arr(row[c], h) = row[c].step,
           \A e \in Cta : Arr(row[e], h) >= row[c].step,
           ev2 = [ev EXCEPT ![h] = @ + 1]
    PROVE  EventsLaw(b, B, row2, ev2)
<1> SUFFICES ASSUME NEW g \in DenseStage, ~(b.groups /\ Kind(g) = "qkv")
             PROVE  Tally(Cta, [e \in Cta |-> Arr(row2[e], g)], ev2[g], Grid, B)
  BY DEF EventsLaw
<1> DEFINE f == [e \in Cta |-> Arr(row[e], g)]
           f2 == [e \in Cta |-> Arr(row2[e], g)]
<1>1. Tally(Cta, f, ev[g], Grid, B)
  BY DEF EventsLaw
<1>2. CASE g # h
  <2>1. f2 = f
    BY <1>2, ProgressTypes DEF Moves, AllLocated
  <2>2. ev2[g] = ev[g]
    BY <1>2
  <2>3. QED
    BY <1>1, <2>1, <2>2
<1>3. CASE g = h
  <2>1. ev2[g] = ev[g] + 1 /\ ev[g] \in Nat
    BY <1>3
  <2>2. PICK k \in Nat : k = row[c].step
    BY DEF AllLocated, Located
  <2>3. ASSUME NEW e \in Cta PROVE f[e] \in {k, k + 1}
    <3>1. Arr(row[e], g) <= Arr(row[c], g) + 1
      BY Lag DEF AllLocated
    <3>2. Arr(row[e], g) \in Nat
      BY ProgressTypes DEF AllLocated
    <3>3. QED
      BY <1>3, <2>2, <3>1, <3>2
  <2>4. Raises(Cta, f, f2, c, k)
    <3>1. f[c] = k /\ f2[c] = k + 1
      BY <1>3, <2>2
    <3>2. \A e \in Cta : e # c => f2[e] = f[e]
      BY DEF Moves
    <3> HIDE DEF f, f2
    <3>3. QED
      BY <2>3, <3>1, <3>2 DEF Raises
  <2>5. PICK target \in Nat : target = RoundTarget(Grid, B, k)
    <3>1. Grid * (B + k + 1) \in Nat
      BY DenseConstants, SMT
    <3>2. QED
      BY <3>1 DEF RoundTarget
  <2> HIDE DEF f, f2
  <2>6. Tally(Cta, f2, ev[g] + 1, Grid, B)
    BY <1>1, <2>1, <2>4, <2>5, CtaFinite, DenseConstants, TallyStep
  <2>7. QED
    BY <2>1, <2>6 DEF f2
<1>4. QED
  BY <1>2, <1>3

-----------------------------------------------------------------------------
(***************************************************************************)
(* The counters of the KV groups: several tiles are counted at once, and a *)
(* counter runs through the layers of all steps.                           *)
(***************************************************************************)
LEMMA TallyGrow ==
    ASSUME NEW S, IsFiniteSet(S), NEW size \in Nat, Cardinality(S) = size,
           NEW base \in Nat, NEW f, NEW g, NEW c \in Nat,
           Tally(S, f, c, size, base), NEW k \in Nat,
           \A y \in S : f[y] \in {k, k + 1},
           NEW T \in SUBSET S, \A y \in T : f[y] = k /\ g[y] = k + 1,
           \A y \in S : y \notin T => g[y] = f[y]
    PROVE  Tally(S, g, c + Cardinality(T), size, base)
<1>0. IsFiniteSet(T) /\ Cardinality(T) \in Nat
  BY FS_Subset, FS_CardinalityType
<1>1. CASE T = {}
  <2>1. Cardinality(T) = 0
    BY <1>1, FS_EmptySet
  <2>2. Tally(S, g, c, size, base)
    BY <1>1, TallySame
  <2>3. QED
    BY <2>1, <2>2
<1>2. CASE T # {}
  <2> DEFINE V == {y \in S : f[y] = k + 1}
             U == {y \in S : g[y] = k + 1}
  <2>1. c = size * (base + k) + Cardinality(V)
    BY DEF Tally
  <2>2. U = V \cup T /\ V \cap T = {}
    OBVIOUS
  <2>3. IsFiniteSet(V) /\ Cardinality(V) \in Nat
    BY FS_Subset, FS_CardinalityType
  <2>4. IsFiniteSet(U) /\ Cardinality(U) = Cardinality(V) + Cardinality(T)
    <3> HIDE DEF U, V
    <3>1. Cardinality(V \cap T) = 0
      BY <2>2, FS_EmptySet
    <3>2. QED
      BY <1>0, <2>2, <2>3, <3>1, FS_Union
  <2>5. Cardinality(U) <= size /\ (Cardinality(U) = size <=> U = S)
    BY FS_Subset
  <2>6. /\ size * (base + k) \in Nat
        /\ size * (base + k + 1) = size * (base + k) + size
    BY SMT
  <2>7. c + Cardinality(T) = size * (base + k) + Cardinality(U)
    <3> HIDE DEF U, V
    <3>1. QED
      BY <1>0, <2>1, <2>3, <2>4, <2>6
  <2>8. ASSUME NEW i \in Nat, \A y \in S : g[y] \in {i, i + 1}
        PROVE  c + Cardinality(T) = size * (base + i) + Cardinality({y \in S : g[y] = i + 1})
    <3>1. i = k \/ i = k + 1
      BY <1>2, <2>8
    <3>2. CASE i = k
      BY <2>7, <3>2
    <3>3. CASE i = k + 1
      <4>1. U = S
        BY <2>8, <3>3
      <4>2. {y \in S : g[y] = i + 1} = {}
        BY <3>3, <4>1
      <4>3. Cardinality({y \in S : g[y] = i + 1}) = 0
        BY <4>2, FS_EmptySet
      <4>4. c + Cardinality(T) = size * (base + k + 1)
        <5> HIDE DEF U, V
        <5>1. QED
          BY <2>5, <2>6, <2>7, <4>1
      <4>5. base + i = base + k + 1
        BY <3>3
      <4>6. size * (base + i) \in Nat /\ size * (base + i) = size * (base + k + 1)
        BY <4>5
      <4>7. QED
        BY <4>3, <4>4, <4>6
    <3>4. QED
      BY <3>1, <3>2, <3>3
  <2>9. QED
    BY <2>8 DEF Tally
<1>3. QED
  BY <1>1, <1>2

LEMMA GroupTilesFacts ==
    /\ GroupTiles \in Nat /\ GroupTiles >= 1 /\ KvGroups * GroupTiles = QkvTiles
    /\ \A t \in 0 .. (QkvTiles - 1) : GroupOf(t) \in 0 .. (KvGroups - 1)
    /\ \A k \in 0 .. (KvGroups - 1) :
          /\ IsFiniteSet(TilesOf(k)) /\ Cardinality(TilesOf(k)) = GroupTiles
          /\ k * GroupTiles \in TilesOf(k)
<1>1. QkvTiles \in Nat \ {0} /\ KvGroups \in Nat \ {0} /\ QkvTiles % KvGroups = 0
  BY DenseAssumption DEF DenseAssumption
<1>2. GroupTiles \in Nat /\ QkvTiles = GroupTiles * KvGroups
  <2>1. QkvTiles = (QkvTiles \div KvGroups) * KvGroups + (QkvTiles % KvGroups)
        /\ QkvTiles \div KvGroups \in Nat
    BY <1>1, Division
  <2>2. (QkvTiles \div KvGroups) * KvGroups \in Nat
    BY <1>1, <2>1, SMT
  <2>3. QED
    BY <1>1, <2>1, <2>2 DEF GroupTiles
<1>3. KvGroups * GroupTiles = QkvTiles
  BY <1>1, <1>2, SMT
<1>4. GroupTiles >= 1
  <2>1. SUFFICES ASSUME GroupTiles = 0 PROVE FALSE
    BY <1>2
  <2>2. KvGroups * 0 = 0
    BY <1>1
  <2>3. QED
    BY <1>1, <1>3, <2>1, <2>2
<1>5. ASSUME NEW t \in 0 .. (QkvTiles - 1), NEW k \in Nat
      PROVE  /\ GroupOf(t) \in Nat
             /\ GroupOf(t) = k <=> k * GroupTiles <= t /\ t < k * GroupTiles + GroupTiles
  <2>1. GroupTiles \in Nat \ {0} /\ t \in Nat
    BY <1>2, <1>4
  <2>2. QED
    BY <2>1, DivisionBlock DEF GroupOf
<1>6. ASSUME NEW t \in 0 .. (QkvTiles - 1)
      PROVE  GroupOf(t) \in 0 .. (KvGroups - 1)
  <2>1. PICK k \in Nat : k = GroupOf(t)
    BY <1>5
  <2>2. k * GroupTiles <= t /\ t < k * GroupTiles + GroupTiles
    BY <1>5, <2>1
  <2>3. SUFFICES ASSUME k >= KvGroups PROVE FALSE
    BY <1>1, <2>1
  <2>4. k * GroupTiles >= KvGroups * GroupTiles
    BY <1>1, <1>2, <2>3, SMT
  <2>5. k * GroupTiles \in Nat
    BY <1>2, SMT
  <2>6. QED
    BY <1>1, <1>3, <2>2, <2>4, <2>5
<1>7. ASSUME NEW k \in 0 .. (KvGroups - 1)
      PROVE  /\ IsFiniteSet(TilesOf(k)) /\ Cardinality(TilesOf(k)) = GroupTiles
             /\ k * GroupTiles \in TilesOf(k)
  <2>1. PICK a \in Nat : a = k * GroupTiles
    BY <1>2, SMT
  <2>2. a + GroupTiles <= QkvTiles
    <3>1. (k + 1) * GroupTiles = k * GroupTiles + GroupTiles
      BY <1>2, SMT
    <3>2. (k + 1) * GroupTiles <= KvGroups * GroupTiles
      BY <1>1, <1>2, SMT
    <3>3. QED
      BY <1>1, <1>2, <1>3, <2>1, <3>1, <3>2
  <2>3. TilesOf(k) = a .. (a + GroupTiles - 1)
    <3>1. ASSUME NEW t \in TilesOf(k) PROVE t \in a .. (a + GroupTiles - 1)
      <4>1. t \in 0 .. (QkvTiles - 1) /\ GroupOf(t) = k
        BY DEF TilesOf
      <4>2. a <= t /\ t < a + GroupTiles
        BY <1>5, <2>1, <4>1
      <4>3. QED
        BY <1>2, <2>1, <4>1, <4>2
    <3>2. ASSUME NEW t \in a .. (a + GroupTiles - 1) PROVE t \in TilesOf(k)
      <4>1. t \in 0 .. (QkvTiles - 1) /\ a <= t /\ t < a + GroupTiles
        BY <1>1, <1>2, <2>1, <2>2
      <4>2. GroupOf(t) = k
        BY <1>5, <2>1, <4>1
      <4>3. QED
        BY <4>1, <4>2 DEF TilesOf
    <3>3. QED
      BY <3>1, <3>2
  <2>4. IsFiniteSet(a .. (a + GroupTiles - 1))
        /\ Cardinality(a .. (a + GroupTiles - 1)) = a + GroupTiles - 1 - a + 1
    <3>1. PICK z \in Int : z = a + GroupTiles - 1
      BY <1>2, <2>1
    <3>2. a \in Int /\ a <= z + 1
      BY <1>2, <2>1, <3>1
    <3>3. IsFiniteSet(a .. z) /\ Cardinality(a .. z) = z - a + 1
      BY <3>2, IntervalCardinality
    <3>4. QED
      BY <1>2, <2>1, <3>1, <3>3
  <2>5. a \in a .. (a + GroupTiles - 1)
    BY <1>2, <1>4, <2>1
  <2>6. QED
    BY <1>2, <2>1, <2>3, <2>4, <2>5
<1>8. QED
  BY <1>2, <1>3, <1>4, <1>6, <1>7

\* Arrivals run downward through the stages.
LEMMA ArrDown ==
    ASSUME NEW x, Located(x), NEW g \in DenseStage, NEW h \in DenseStage, g < h
    PROVE  Arr(x, h) <= Arr(x, g) /\ Arr(x, h) <= Freed(x, g)
<1>1. /\ x.stage \in Nat /\ x.step \in Nat /\ g \in Nat /\ h \in Nat
  BY StageIsNat DEF Located
<1>2. QED
  BY <1>1 DEF Arr, Freed

LEMMA StageOfLayer ==
    ASSUME NEW l \in 0 .. (Layers - 1)
    PROVE  1 + 5 * l \in DenseStage /\ 2 + 5 * l \in DenseStage
BY DenseConstants DEF DenseStage

\* A place has joined n * Layers + l + 1 qkv stages when it has joined the
\* one of layer l in step n.
LEMMA JoinedReach ==
    ASSUME NEW x, Located(x), NEW l \in 0 .. (Layers - 1), NEW n \in Nat
    PROVE  Joined(x) >= n * Layers + l + 1 <=> Arr(x, 1 + 5 * l) >= n + 1
<1>1. /\ x.stage \in Nat /\ x.step \in Nat /\ x.stage <= HeadStage
      /\ x.stage \in DenseStage /\ l \in Nat /\ l < Layers
  BY StageIsNat, DenseConstants DEF Located
<1>2. JoinedInStep(x) \in Nat /\ JoinedInStep(x) <= Layers
  <2>1. (x.stage + 3) \div 5 \in Nat /\ (x.stage + 3) \div 5 <= Layers
        /\ (Kind(x.stage) = "qkv" => (x.stage + 3) \div 5 < Layers)
    BY <1>1, LayerCount
  <2>2. QED
    BY <2>1, DenseConstants DEF JoinedInStep
<1>3. JoinedInStep(x) >= l + 1 <=> x.stage > 1 + 5 * l \/ (x.stage = 1 + 5 * l /\ x.at = "wait")
  <2>1. CASE x.stage = 0
    <3>1. (0 + 3) \div 5 = 0
      OBVIOUS
    <3>2. JoinedInStep(x) = 0
      BY <2>1, <3>1, EdgeKinds DEF JoinedInStep
    <3>3. QED
      BY <1>1, <2>1, <3>2
  <2>2. CASE x.stage = HeadStage
    <3>1. JoinedInStep(x) = Layers
      BY <2>2, LayerCount, EdgeKinds, <1>1 DEF JoinedInStep
    <3>2. QED
      BY <1>1, <2>2, <3>1, DenseConstants
  <2>3. CASE x.stage # 0 /\ x.stage # HeadStage
    <3>1. x.stage \in 1 .. (HeadStage - 1)
      BY <1>1, <2>3, DenseConstants
    <3>2. PICK m \in 0 .. (Layers - 1) :
              \/ x.stage = 1 + 5 * m /\ Layer(x.stage) = m /\ Kind(x.stage) = "qkv"
              \/ x.stage = 2 + 5 * m /\ Layer(x.stage) = m /\ Kind(x.stage) = "attention"
              \/ x.stage = 3 + 5 * m /\ Layer(x.stage) = m /\ Kind(x.stage) = "o"
              \/ x.stage = 4 + 5 * m /\ Layer(x.stage) = m /\ Kind(x.stage) = "gate_up"
              \/ x.stage = 5 + 5 * m /\ Layer(x.stage) = m /\ Kind(x.stage) = "down"
      BY <3>1, StageForm
    <3>3. /\ (1 + 5 * m + 3) \div 5 = m /\ (2 + 5 * m + 3) \div 5 = m + 1
          /\ (3 + 5 * m + 3) \div 5 = m + 1 /\ (4 + 5 * m + 3) \div 5 = m + 1
          /\ (5 + 5 * m + 3) \div 5 = m + 1
      BY SMT
    <3>4. m \in Nat
      OBVIOUS
    <3>5. CASE x.stage = 1 + 5 * m /\ Kind(x.stage) = "qkv"
      <4>1. JoinedInStep(x) = m + (IF x.at = "wait" THEN 1 ELSE 0)
        BY <3>3, <3>5 DEF JoinedInStep
      <4>2. QED
        BY <1>1, <3>4, <3>5, <4>1
    <3>6. CASE x.stage > 1 + 5 * m /\ x.stage <= 5 + 5 * m /\ Kind(x.stage) # "qkv"
      <4>1. JoinedInStep(x) = m + 1
        BY <3>2, <3>3, <3>6 DEF JoinedInStep
      <4>2. QED
        BY <1>1, <3>4, <3>6, <4>1
    <3>7. QED
      BY <3>2, <3>4, <3>5, <3>6
  <2>4. QED
    BY <2>1, <2>2, <2>3
<1>4. PICK a \in Nat, p \in Nat : a = n * Layers /\ p = x.step * Layers
  BY <1>1, DenseConstants, SMT
<1>5. CASE x.step = n
  <2>1. Joined(x) = a + JoinedInStep(x)
    BY <1>4, <1>5 DEF Joined
  <2>2. Arr(x, 1 + 5 * l) >= n + 1
          <=> x.stage > 1 + 5 * l \/ (x.stage = 1 + 5 * l /\ x.at = "wait")
    BY <1>1, <1>5 DEF Arr
  <2>3. QED
    BY <1>1, <1>2, <1>3, <1>4, <2>1, <2>2
<1>6. CASE x.step < n
  <2>1. p + Layers <= a
    <3>1. (x.step + 1) * Layers <= n * Layers
      BY <1>1, <1>6, DenseConstants, SMT
    <3>2. (x.step + 1) * Layers = x.step * Layers + Layers
      BY <1>1, DenseConstants, SMT
    <3>3. QED
      BY <1>4, <3>1, <3>2, DenseConstants
  <2>2. Joined(x) = p + JoinedInStep(x)
    BY <1>4 DEF Joined
  <2>3. Arr(x, 1 + 5 * l) <= n
    BY <1>1, <1>6 DEF Arr
  <2>4. Arr(x, 1 + 5 * l) \in Nat
    BY <1>1, StageOfLayer, ProgressTypes
  <2>5. QED
    BY <1>1, <1>2, <1>4, <2>1, <2>2, <2>3, <2>4, DenseConstants
<1>7. CASE x.step > n
  <2>1. p >= a + Layers
    <3>1. x.step * Layers >= (n + 1) * Layers
      BY <1>1, <1>7, DenseConstants, SMT
    <3>2. (n + 1) * Layers = n * Layers + Layers
      BY <1>1, DenseConstants, SMT
    <3>3. QED
      BY <1>4, <3>1, <3>2, DenseConstants
  <2>2. Joined(x) = p + JoinedInStep(x)
    BY <1>4 DEF Joined
  <2>3. Arr(x, 1 + 5 * l) >= n + 1
    BY <1>1, <1>7 DEF Arr
  <2>4. QED
    BY <1>1, <1>2, <1>4, <2>1, <2>2, <2>3, DenseConstants
<1>8. QED
  BY <1>1, <1>5, <1>6, <1>7

\* Around a CTA at the qkv stage of layer l, no other is a layer away.
LEMMA JoinedWindow ==
    ASSUME NEW b, NEW row, AllLocated(row), BarrierLaw(b, row),
           NEW c \in Cta, NEW l \in 0 .. (Layers - 1), row[c].stage = 1 + 5 * l,
           NEW k, k = row[c].step * Layers + l
    PROVE  /\ k \in Nat
           /\ \A e \in Cta : Joined(row[e]) \in {k, k + 1}
           /\ Joined(row[c]) = k + (IF row[c].at = "wait" THEN 1 ELSE 0)
<1>1. PICK p \in Nat : p = row[c].step
  BY DEF AllLocated, Located
<1>2. p * Layers \in Nat /\ k = p * Layers + l /\ k \in Nat /\ l \in Nat /\ l < Layers
  <2>1. p * Layers \in Nat
    BY DenseConstants, SMT
  <2>2. QED
    BY <1>1, <2>1, DenseConstants
<1>3. Joined(row[c]) = k + (IF row[c].at = "wait" THEN 1 ELSE 0)
  <2>1. (1 + 5 * l + 3) \div 5 = l /\ Kind(1 + 5 * l) = "qkv"
    BY StageAt, SMT
  <2>2. QED
    BY <1>1, <1>2, <2>1 DEF Joined, JoinedInStep
<1>4. ASSUME NEW e \in Cta PROVE Joined(row[e]) >= k
  <2>1. CASE l # 0
    <3>1. l - 1 \in 0 .. (Layers - 1)
      BY <2>1, DenseConstants
    <3>2. PICK h \in DenseStage : h = 2 + 5 * (l - 1) /\ Kind(h) = "attention"
      BY <3>1, StageOfLayer, StageAt
    <3>3. Meets(b, h)
      BY <3>2, KindFacts DEF Meets
    <3>4. Freed(row[c], h) = p + 1
      BY <1>1, <1>2, <3>2 DEF Freed
    <3>5. Arr(row[e], h) >= p + 1
      <4>1. Freed(row[c], h) <= Arr(row[e], h)
        BY <3>3 DEF BarrierLaw
      <4>2. Arr(row[e], h) \in Nat
        BY ProgressTypes DEF AllLocated
      <4>3. QED
        BY <3>4, <4>1, <4>2
    <3>6. PICK g \in DenseStage : g = 1 + 5 * (l - 1)
      BY <3>1, StageOfLayer
    <3>7. Arr(row[e], g) >= p + 1
      <4>1. g < h
        BY <1>2, <3>2, <3>6
      <4>2. Arr(row[e], h) <= Arr(row[e], g)
        BY <4>1, ArrDown DEF AllLocated
      <4>3. Arr(row[e], h) \in Nat /\ Arr(row[e], g) \in Nat
        BY ProgressTypes DEF AllLocated
      <4>4. QED
        BY <3>5, <4>2, <4>3
    <3>8. Joined(row[e]) >= p * Layers + (l - 1) + 1
      BY <3>1, <3>6, <3>7, JoinedReach DEF AllLocated
    <3>9. QED
      BY <1>2, <3>8
  <2>2. CASE l = 0 /\ p = 0
    <3>1. 0 * Layers = 0
      BY DenseConstants
    <3>2. QED
      BY <1>2, <2>2, <3>1, MoveJoined DEF AllLocated
  <2>3. CASE l = 0 /\ p # 0
    <3>1. Layers - 1 \in 0 .. (Layers - 1) /\ p - 1 \in Nat
      BY <1>1, <2>3, DenseConstants
    <3>2. PICK g \in DenseStage : g = 1 + 5 * (Layers - 1)
      BY <3>1, StageOfLayer
    <3>3. HeadStage \in DenseStage /\ g < HeadStage
      BY <3>2, DenseConstants DEF DenseStage
    <3>4. p <= Arr(row[e], HeadStage)
      BY <1>1, Lag DEF AllLocated
    <3>5. Arr(row[e], HeadStage) <= Arr(row[e], g)
      BY <3>3, ArrDown DEF AllLocated
    <3>6. Arr(row[e], HeadStage) \in Nat /\ Arr(row[e], g) \in Nat
      BY <3>3, ProgressTypes DEF AllLocated
    <3>7. Joined(row[e]) >= (p - 1) * Layers + (Layers - 1) + 1
      <4>1. Arr(row[e], g) >= (p - 1) + 1
        BY <3>4, <3>5, <3>6
      <4>2. QED
        BY <3>1, <3>2, <4>1, JoinedReach DEF AllLocated
    <3>8. (p - 1) * Layers + Layers = p * Layers
      BY DenseConstants, SMT
    <3>9. (p - 1) * Layers \in Int /\ Joined(row[e]) \in Nat
      BY <3>1, MoveJoined, DenseConstants, SMT DEF AllLocated
    <3>10. QED
      BY <1>2, <2>3, <3>7, <3>8, <3>9, DenseConstants
  <2>4. QED
    BY <2>1, <2>2, <2>3
<1>5. ASSUME NEW e \in Cta, Joined(row[e]) >= k + 2 PROVE FALSE
  <2>1. CASE l + 1 < Layers
    <3>1. l + 1 \in 0 .. (Layers - 1)
      BY <1>2, <2>1, DenseConstants
    <3>2. PICK g \in DenseStage : g = 1 + 5 * (l + 1)
      BY <3>1, StageOfLayer
    <3>3. PICK h \in DenseStage : h = 2 + 5 * l /\ Kind(h) = "attention"
      BY StageOfLayer, StageAt
    <3>4. Joined(row[e]) >= p * Layers + (l + 1) + 1
      BY <1>2, <1>5
    <3>5. Arr(row[e], g) >= p + 1
      BY <3>1, <3>2, <3>4, JoinedReach DEF AllLocated
    <3>6. Arr(row[e], g) <= Freed(row[e], h)
      <4>1. h < g
        BY <1>2, <3>2, <3>3
      <4>2. QED
        BY <4>1, ArrDown DEF AllLocated
    <3>7. Freed(row[e], h) <= Arr(row[c], h)
      <4>1. Meets(b, h)
        BY <3>3, KindFacts DEF Meets
      <4>2. QED
        BY <4>1 DEF BarrierLaw
    <3>8. Arr(row[c], h) = p
      BY <1>1, <1>2, <3>3 DEF Arr
    <3>9. Arr(row[e], g) \in Nat /\ Freed(row[e], h) \in Nat
      BY ProgressTypes DEF AllLocated
    <3>10. QED
      BY <3>5, <3>6, <3>7, <3>8, <3>9
  <2>2. CASE l + 1 = Layers
    <3>1. PICK z \in 0 .. (Layers - 1) : z = 0
      BY DenseConstants
    <3>2. (p + 1) * Layers = p * Layers + Layers
      BY DenseConstants, SMT
    <3>3. Joined(row[e]) >= (p + 1) * Layers + z + 1
      BY <1>2, <1>5, <2>2, <3>1, <3>2
    <3>4. Arr(row[e], 1 + 5 * z) >= p + 2
      BY <1>1, <3>3, JoinedReach DEF AllLocated
    <3>5. row[e].step >= p + 1
      <4>1. 1 + 5 * z \in DenseStage /\ row[e].step \in Nat
        BY StageOfLayer DEF AllLocated, Located
      <4>2. QED
        BY <3>4, <4>1 DEF Arr
    <3>6. row[e].step <= Arr(row[c], HeadStage)
      BY Lag DEF AllLocated
    <3>7. Arr(row[c], HeadStage) = p
      BY <1>1, <1>2, DenseConstants DEF Arr
    <3>8. row[e].step \in Nat
      BY DEF AllLocated, Located
    <3>9. QED
      BY <3>5, <3>6, <3>7, <3>8
  <2>3. QED
    BY <1>2, <2>1, <2>2, DenseConstants
<1>6. ASSUME NEW e \in Cta PROVE Joined(row[e]) \in {k, k + 1}
  <2>1. Joined(row[e]) \in Nat
    BY MoveJoined DEF AllLocated
  <2>2. ~(Joined(row[e]) >= k + 2)
    BY <1>5
  <2>3. QED
    BY <1>2, <1>4, <2>1, <2>2
<1>7. QED
  BY <1>2, <1>3, <1>6

\* A group's counter at its target: its tiles have been joined.
LEMMA GroupReleases ==
    ASSUME NEW b, NEW B \in Nat, NEW row, AllLocated(row), BarrierLaw(b, row),
           NEW gr, GroupsLaw(b, B, row, gr), b.groups,
           NEW c \in Cta, Kind(row[c].stage) = "qkv",
           NEW k \in 0 .. (KvGroups - 1),
           gr[k] >= ((B + row[c].step) * Layers + Layer(row[c].stage) + 1) * GroupTiles
    PROVE  \A t \in TilesOf(k) : Arr(row[t % Grid], row[c].stage) >= row[c].step + 1
<1>1. PICK p \in Nat : p = row[c].step
  BY DEF AllLocated, Located
<1>2. row[c].stage \in DenseStage
  BY DEF AllLocated, Located
<1>3. PICK l \in 0 .. (Layers - 1) : l = Layer(row[c].stage) /\ row[c].stage = 1 + 5 * l
  BY <1>2, LayerCount, DenseConstants
<1>4. PICK j : j = row[c].step * Layers + l
  OBVIOUS
<1>5. /\ j \in Nat
      /\ \A e \in Cta : Joined(row[e]) \in {j, j + 1}
  BY <1>3, <1>4, JoinedWindow
<1> DEFINE f == [t \in TilesOf(k) |-> Joined(row[t % Grid])]
<1>6. Tally(TilesOf(k), f, gr[k], GroupTiles, B * Layers)
  BY DEF GroupsLaw
<1>7. \A t \in TilesOf(k) : t % Grid \in Cta
  BY SameOwner DEF TilesOf
<1>8. \A t \in TilesOf(k) : f[t] \in {j, j + 1}
  BY <1>5, <1>7
<1>9. GroupTiles * (B * Layers + j + 1) = ((B + p) * Layers + l + 1) * GroupTiles
  <2>1. (B + p) * Layers = B * Layers + p * Layers
    BY DenseConstants, SMT
  <2>2. PICK u \in Nat, v \in Nat : u = B * Layers /\ v = p * Layers
    BY DenseConstants, SMT
  <2>3. (B + p) * Layers + l + 1 = u + (v + l) + 1
    BY <2>1, <2>2, DenseConstants
  <2>4. GroupTiles * (u + (v + l) + 1) = (u + (v + l) + 1) * GroupTiles
    BY <2>2, GroupTilesFacts, DenseConstants, SMT
  <2>5. j = v + l
    BY <1>1, <1>4, <2>2
  <2>6. QED
    BY <2>2, <2>3, <2>4, <2>5
<1>10. B * Layers \in Nat
  BY DenseConstants, SMT
<1>11. gr[k] >= GroupTiles * (B * Layers + j + 1)
  BY <1>1, <1>3, <1>9
<1>12. /\ IsFiniteSet(TilesOf(k)) /\ Cardinality(TilesOf(k)) = GroupTiles /\ GroupTiles \in Nat
  BY GroupTilesFacts
<1> HIDE DEF f
<1>13. \A t \in TilesOf(k) : f[t] \in Nat /\ f[t] >= j
  BY <1>5, <1>8
<1>14. \A t, u \in TilesOf(k) : f[t] <= f[u] + 1
  BY <1>5, <1>8
<1>15. \A t \in TilesOf(k) : f[t] >= j + 1
  BY <1>5, <1>6, <1>10, <1>11, <1>12, <1>13, <1>14, TallyComplete
<1>16. ASSUME NEW t \in TilesOf(k)
       PROVE  Arr(row[t % Grid], row[c].stage) >= row[c].step + 1
  <2>1. Joined(row[t % Grid]) >= p * Layers + l + 1
    <3>1. f[t] = Joined(row[t % Grid])
      BY DEF f
    <3>2. j + 1 = p * Layers + l + 1
      BY <1>1, <1>4
    <3>3. QED
      BY <1>15, <3>1, <3>2
  <2>2. QED
    BY <1>1, <1>3, <1>7, <2>1, JoinedReach DEF AllLocated
<1>17. QED
  BY <1>16

\* The counters after c has joined stage g with its tiles.
Counted(gr, g, c) ==
    [k \in 0 .. (KvGroups - 1) |->
        gr[k] + Cardinality({t \in Own(g, c) : GroupOf(t) = k})]

LEMMA GroupsRaised ==
    ASSUME NEW b, NEW B \in Nat, NEW row, NEW row2, AllLocated(row), AllLocated(row2),
           BarrierLaw(b, row), NEW gr, gr \in [0 .. (KvGroups - 1) -> Nat],
           GroupsLaw(b, B, row, gr), NEW c \in Cta, Moves(row, row2, c),
           Joining(row[c], row2[c]), NEW g, g = row[c].stage, Kind(g) = "qkv",
           NEW gr2, gr2 = Counted(gr, g, c)
    PROVE  GroupsLaw(b, B, row2, gr2)
<1> USE DEF Counted
<1> SUFFICES ASSUME b.groups, NEW k \in 0 .. (KvGroups - 1)
             PROVE  Tally(TilesOf(k), [t \in TilesOf(k) |-> Joined(row2[t % Grid])], gr2[k],
                          GroupTiles, B * Layers)
  BY DEF GroupsLaw
<1> DEFINE f == [t \in TilesOf(k) |-> Joined(row[t % Grid])]
           f2 == [t \in TilesOf(k) |-> Joined(row2[t % Grid])]
           T == {t \in Own(g, c) : GroupOf(t) = k}
<1>1. g \in DenseStage
  BY DEF AllLocated, Located
<1>2. PICK l \in 0 .. (Layers - 1) : g = 1 + 5 * l
  BY <1>1, LayerCount, DenseConstants
<1>3. PICK j : j = row[c].step * Layers + l
  OBVIOUS
<1>4. /\ j \in Nat
      /\ \A e \in Cta : Joined(row[e]) \in {j, j + 1}
      /\ Joined(row[c]) = j
  <2>1. row[c].stage = 1 + 5 * l /\ row[c].at # "wait"
    BY <1>2 DEF Joining
  <2>2. /\ j \in Nat
        /\ \A e \in Cta : Joined(row[e]) \in {j, j + 1}
        /\ Joined(row[c]) = j + (IF row[c].at = "wait" THEN 1 ELSE 0)
    BY <1>3, <2>1, JoinedWindow
  <2>3. QED
    BY <2>1, <2>2
<1>5. Joined(row2[c]) = j + 1
  BY <1>4, MoveJoined DEF AllLocated
<1>6. T = {t \in TilesOf(k) : t % Grid = c}
  BY <1>1, TaskFacts DEF Own, TilesOf
<1>7. \A t \in TilesOf(k) : t % Grid \in Cta
  BY SameOwner DEF TilesOf
<1>8. Tally(TilesOf(k), f, gr[k], GroupTiles, B * Layers)
  BY DEF GroupsLaw
<1>9. gr[k] \in Nat /\ gr2[k] = gr[k] + Cardinality(T)
  OBVIOUS
<1>10. T \in SUBSET TilesOf(k) /\ \A t \in T : f[t] = j /\ f2[t] = j + 1
  BY <1>4, <1>5, <1>6
<1>11. \A t \in TilesOf(k) : t \notin T => f2[t] = f[t]
  BY <1>6, <1>7 DEF Moves
<1>12. \A t \in TilesOf(k) : f[t] \in {j, j + 1}
  BY <1>4, <1>7
<1>13. /\ IsFiniteSet(TilesOf(k)) /\ Cardinality(TilesOf(k)) = GroupTiles /\ GroupTiles \in Nat
  BY GroupTilesFacts
<1>14. B * Layers \in Nat
  BY DenseConstants, SMT
<1> HIDE DEF f, f2, T
<1>15. Tally(TilesOf(k), f2, gr[k] + Cardinality(T), GroupTiles, B * Layers)
  BY <1>4, <1>8, <1>9, <1>10, <1>11, <1>12, <1>13, <1>14, TallyGrow
<1>16. QED
  BY <1>9, <1>15 DEF f2

LEMMA JoinBarriers ==
    ASSUME NEW b, NEW B \in Nat, NEW row, NEW row2, NEW ev, NEW gr, NEW ev2, NEW gr2,
           AllLocated(row), AllLocated(row2), Barriers(b, B, row, ev, gr),
           ev \in [DenseStage -> Nat], gr \in [0 .. (KvGroups - 1) -> Nat],
           NEW c \in Cta, Moves(row, row2, c), Joining(row[c], row2[c]),
           NEW g, g = row[c].stage,
           b.embed /\ g = 0 => row[c].step = 0,
           IF b.groups /\ Kind(g) = "qkv"
           THEN ev2 = ev /\ gr2 = Counted(gr, g, c)
           ELSE ev2 = [ev EXCEPT ![g] = @ + 1] /\ gr2 = gr
    PROVE  Barriers(b, B, row2, ev2, gr2)
<1>1. g \in DenseStage /\ row[c].step \in Nat
  BY DEF AllLocated, Located
<1>2. ASSUME NEW h \in DenseStage
      PROVE  /\ Arr(row2[c], h) = Arr(row[c], h) + (IF h = g THEN 1 ELSE 0)
             /\ Freed(row2[c], h) = Freed(row[c], h)
             /\ Arr(row[c], h) \in Nat
  BY MoveProgress, ProgressTypes DEF AllLocated
<1>3. ASSUME NEW e \in Cta, NEW h \in DenseStage
      PROVE  Arr(row2[e], h) >= Arr(row[e], h) /\ Freed(row2[e], h) = Freed(row[e], h)
  <2>1. CASE e = c
    BY <1>2, <2>1
  <2>2. CASE e # c
    BY <2>2, ProgressTypes DEF Moves, AllLocated
  <2>3. QED
    BY <2>1, <2>2
<1>4. BarrierLaw(b, row2)
  BY <1>3, BarrierKept DEF Barriers
<1>5. GroupFree(b, row2)
  <2>1. \A e \in Cta : row2[e].stage = row[e].stage /\ row2[e].step = row[e].step
    BY DEF Moves, Joining
  <2>2. QED
    BY <1>3, <2>1, GroupFreeKept DEF Barriers
<1>6. CASE b.groups /\ Kind(g) = "qkv"
  <2>1. GroupsLaw(b, B, row2, gr2)
    <3>1. gr2 = Counted(gr, g, c)
      BY <1>6
    <3>2. BarrierLaw(b, row) /\ GroupsLaw(b, B, row, gr)
      BY DEF Barriers
    <3>3. QED
      BY <1>6, <3>1, <3>2, GroupsRaised
  <2>2. EventsLaw(b, B, row2, ev)
    <3> SUFFICES ASSUME NEW h \in DenseStage, ~(b.groups /\ Kind(h) = "qkv")
                 PROVE  Tally(Cta, [e \in Cta |-> Arr(row2[e], h)], ev[h], Grid, B)
      BY DEF EventsLaw
    <3>1. h # g
      BY <1>6
    <3>2. \A e \in Cta : Arr(row2[e], h) = Arr(row[e], h)
      BY <1>2, <3>1 DEF Moves
    <3>3. Tally(Cta, [e \in Cta |-> Arr(row[e], h)], ev[h], Grid, B)
      BY DEF Barriers, EventsLaw
    <3>4. QED
      BY <3>2, <3>3
  <2>3. QED
    BY <1>4, <1>5, <1>6, <2>1, <2>2 DEF Barriers
<1>7. CASE ~(b.groups /\ Kind(g) = "qkv")
  <2>1. Arr(row[c], g) = row[c].step
    <3>1. row[c].stage = g /\ row[c].at # "wait" /\ g \in Nat
      BY <1>1, StageIsNat DEF Joining
    <3>2. QED
      BY <1>1, <3>1 DEF Arr
  <2>2. ASSUME NEW e \in Cta PROVE Arr(row[e], g) >= row[c].step
    <3>1. Arr(row[e], g) \in Nat /\ Freed(row[c], g) \in Nat /\ row[c].step <= Freed(row[c], g)
      BY <1>1, ProgressTypes DEF AllLocated
    <3>2. CASE Meets(b, g)
      <4>1. Freed(row[c], g) <= Arr(row[e], g)
        BY <1>1, <3>2 DEF BarrierLaw, Barriers
      <4>2. QED
        BY <1>1, <3>1, <4>1
    <3>3. CASE ~Meets(b, g)
      <4>1. row[c].step = 0
        BY <1>7, <3>3 DEF Meets
      <4>2. QED
        BY <3>1, <4>1
    <3>4. QED
      BY <3>2, <3>3
  <2>3. \A h \in DenseStage : Arr(row2[c], h) = Arr(row[c], h) + (IF h = g THEN 1 ELSE 0)
    BY <1>2
  <2>4. ev2 = [ev EXCEPT ![g] = @ + 1] /\ gr2 = gr
    BY <1>7
  <2>5. EventsLaw(b, B, row2, ev2)
    BY <1>1, <2>1, <2>2, <2>3, <2>4, EventsRaised DEF Barriers
  <2>6. GroupsLaw(b, B, row2, gr)
    <3>1. CASE b.groups
      <4>1. Joined(row2[c]) = Joined(row[c])
        <5>1. Joined(row2[c]) = Joined(row[c]) + 0 /\ Joined(row[c]) \in Nat
          BY <1>7, <3>1, MoveJoined DEF AllLocated
        <5>2. QED
          BY <5>1
      <4>2. \A e \in Cta : Joined(row2[e]) = Joined(row[e])
        BY <4>1 DEF Moves
      <4>3. QED
        BY <4>2, GroupsSame DEF Barriers
    <3>2. CASE ~b.groups
      BY <3>2 DEF GroupsLaw
    <3>3. QED
      BY <3>1, <3>2
  <2>7. QED
    BY <1>4, <1>5, <2>4, <2>5, <2>6 DEF Barriers
<1>8. QED
  BY <1>6, <1>7

LEMMA SkipBarriers ==
    ASSUME NEW b, NEW B \in Nat, NEW row, NEW row2, NEW ev, NEW gr, NEW ev2,
           AllLocated(row), AllLocated(row2), Barriers(b, B, row, ev, gr),
           ev \in [DenseStage -> Nat],
           NEW c \in Cta, Moves(row, row2, c), Skipping(row[c], row2[c]),
           b.embed, row[c].step # 0,
           ev2 = [ev EXCEPT ![0] = @ + 1]
    PROVE  Barriers(b, B, row2, ev2, gr)
<1>1. 0 \in DenseStage /\ row[c].step \in Nat
  BY DenseConstants DEF AllLocated, Located, DenseStage
<1>2. ASSUME NEW h \in DenseStage
      PROVE  /\ Arr(row2[c], h) = Arr(row[c], h) + (IF h = 0 THEN 1 ELSE 0)
             /\ Freed(row2[c], h) = Freed(row[c], h) + (IF h = 0 THEN 1 ELSE 0)
             /\ Arr(row[c], h) \in Nat /\ Freed(row[c], h) \in Nat
  BY MoveProgress, ProgressTypes DEF AllLocated
<1>3. ASSUME NEW e \in Cta, NEW h \in DenseStage
      PROVE  /\ Arr(row2[e], h) >= Arr(row[e], h)
             /\ h # 0 => Freed(row2[e], h) = Freed(row[e], h)
             /\ e # c => Freed(row2[e], h) = Freed(row[e], h)
  <2>1. CASE e = c
    BY <1>2, <2>1
  <2>2. CASE e # c
    BY <2>2, ProgressTypes DEF Moves, AllLocated
  <2>3. QED
    BY <2>1, <2>2
<1>4. ASSUME NEW e \in Cta PROVE Arr(row[e], 0) >= row[c].step
  <2>1. /\ row[c].step <= row[e].step + 1
        /\ row[c].step = row[e].step + 1 => row[e].stage = HeadStage
    BY Lag DEF AllLocated, Barriers
  <2>2. row[e].step \in Nat
    BY DEF AllLocated, Located
  <2>3. QED
    BY <1>1, <2>1, <2>2, DenseConstants DEF Arr
<1>5. BarrierLaw(b, row2)
  <2>1. ASSUME NEW e \in Cta PROVE 1 <= Arr(row2[e], 0)
    <3>1. Arr(row2[e], 0) >= Arr(row[e], 0) /\ Arr(row[e], 0) >= row[c].step
      BY <1>1, <1>3, <1>4
    <3>2. Arr(row[e], 0) \in Nat /\ Arr(row2[e], 0) \in Nat
      BY <1>1, ProgressTypes DEF AllLocated
    <3>3. QED
      BY <1>1, <3>1, <3>2
  <2>2. ~Meets(b, 0)
    BY DEF Meets
  <2>3. ASSUME NEW e \in Cta, NEW h \in DenseStage
        PROVE  \/ Freed(row2[e], h) = Freed(row[e], h)
               \/ /\ Meets(b, h) => \A d \in Cta : Freed(row2[e], h) <= Arr(row2[d], h)
                  /\ b.embed /\ h = 0 => \A d \in Cta : 1 <= Arr(row2[d], h)
    BY <1>3, <2>1, <2>2
  <2>4. QED
    BY <1>3, <2>3, BarrierKept DEF Barriers
<1>6. GroupFree(b, row2)
  <2>1. Kind(row2[c].stage) # "attention"
    BY <1>1, KindFacts DEF Skipping
  <2>2. \A e \in Cta : Kind(row2[e].stage) # "attention"
            \/ (row2[e].stage = row[e].stage /\ row2[e].step = row[e].step)
    BY <2>1 DEF Moves
  <2>3. QED
    BY <1>3, <2>2, GroupFreeKept DEF Barriers
<1>7. EventsLaw(b, B, row2, ev2)
  <2>1. Arr(row[c], 0) = row[c].step
    BY <1>1 DEF Arr, Skipping
  <2>2. \A h \in DenseStage : Arr(row2[c], h) = Arr(row[c], h) + (IF h = 0 THEN 1 ELSE 0)
    BY <1>2
  <2>3. QED
    BY <1>1, <1>4, <2>1, <2>2, EventsRaised DEF Barriers
<1>8. GroupsLaw(b, B, row2, gr)
  <2>1. \A e \in Cta : Joined(row2[e]) = Joined(row[e])
    BY MoveJoined DEF AllLocated, Moves
  <2>2. QED
    BY <2>1, GroupsSame DEF Barriers
<1>9. QED
  BY <1>5, <1>6, <1>7, <1>8 DEF Barriers

LEMMA PassBarriers ==
    ASSUME NEW b, NEW B \in Nat, NEW row, NEW row2, NEW ev, NEW gr,
           AllLocated(row), AllLocated(row2), Barriers(b, B, row, ev, gr),
           NEW c \in Cta, Moves(row, row2, c), Passing(row[c], row2[c]),
           NEW g, g = row[c].stage,
           IF b.groups /\ Kind(g) = "qkv"
           THEN \A t \in 0 .. (QkvTiles - 1) : GroupOf(t) % Grid = c =>
                    Arr(row[t % Grid], g) >= row[c].step + 1
           ELSE \A e \in Cta : Arr(row[e], g) >= row[c].step + 1
    PROVE  Barriers(b, B, row2, ev, gr)
<1>1. g \in DenseStage /\ row[c].step \in Nat /\ g \in Nat /\ g <= HeadStage
  BY StageIsNat DEF AllLocated, Located
<1>2. ASSUME NEW h \in DenseStage
      PROVE  /\ Arr(row2[c], h) = Arr(row[c], h)
             /\ Freed(row2[c], h) = Freed(row[c], h) + (IF h = g THEN 1 ELSE 0)
             /\ Arr(row[c], h) \in Nat /\ Freed(row[c], h) \in Nat
  BY MoveProgress, ProgressTypes DEF AllLocated
<1>3. ASSUME NEW e \in Cta, NEW h \in DenseStage
      PROVE  /\ Arr(row2[e], h) = Arr(row[e], h) /\ Arr(row2[e], h) \in Nat
             /\ h # g => Freed(row2[e], h) = Freed(row[e], h)
             /\ e # c => Freed(row2[e], h) = Freed(row[e], h)
  <2>1. CASE e = c
    BY <1>2, <2>1
  <2>2. CASE e # c
    BY <2>2, ProgressTypes DEF Moves, AllLocated
  <2>3. QED
    BY <2>1, <2>2
<1>4. Freed(row2[c], g) = row[c].step + 1
  <2>1. Freed(row[c], g) = row[c].step
    BY <1>1 DEF Freed
  <2>2. QED
    BY <1>1, <1>2, <2>1
<1>5. BarrierLaw(b, row2)
  <2>1. ASSUME NEW e \in Cta, NEW h \in DenseStage
        PROVE  \/ Freed(row2[e], h) = Freed(row[e], h)
               \/ /\ Meets(b, h) => \A d \in Cta : Freed(row2[e], h) <= Arr(row2[d], h)
                  /\ b.embed /\ h = 0 => \A d \in Cta : 1 <= Arr(row2[d], h)
    <3> SUFFICES ASSUME e = c, h = g,
                        ~(b.groups /\ Kind(g) = "qkv")
                 PROVE  /\ \A d \in Cta : Freed(row2[e], h) <= Arr(row2[d], h)
                        /\ \A d \in Cta : 1 <= Arr(row2[d], h)
      <4>1. b.groups /\ Kind(g) = "qkv" => ~Meets(b, g) /\ g # 0
        BY EdgeKinds DEF Meets
      <4>2. QED
        BY <1>3, <4>1
    <3> SUFFICES ASSUME NEW d \in Cta
                 PROVE  Freed(row2[e], h) <= Arr(row2[d], h) /\ 1 <= Arr(row2[d], h)
      OBVIOUS
    <3>1. Arr(row[d], g) >= row[c].step + 1
      OBVIOUS
    <3>2. QED
      BY <1>1, <1>3, <1>4, <3>1
  <2>2. \A e \in Cta : \A h \in DenseStage : Arr(row2[e], h) >= Arr(row[e], h)
    BY <1>3
  <2>3. QED
    BY <2>1, <2>2, BarrierKept DEF Barriers
<1>6. GroupFree(b, row2)
  <2>1. \/ Kind(row2[c].stage) # "attention"
        \/ b.groups => \A t \in 0 .. (QkvTiles - 1) : GroupOf(t) % Grid = c =>
                    Arr(row2[t % Grid], row2[c].stage - 1) >= row2[c].step + 1
    <3>1. CASE g = HeadStage
      <4>1. row2[c].stage = 0
        BY <3>1, DenseConstants DEF Passing
      <4>2. QED
        BY <4>1, EdgeKinds
    <3>2. CASE g < HeadStage
      <4>1. row2[c].stage = g + 1 /\ row2[c].step = row[c].step
        BY <3>2 DEF Passing
      <4>2. SUFFICES ASSUME Kind(g + 1) = "attention", b.groups,
                            NEW t \in 0 .. (QkvTiles - 1), GroupOf(t) % Grid = c
                     PROVE  Arr(row2[t % Grid], g) >= row[c].step + 1
        BY <1>1, <4>1
      <4>3. Kind(g) = "qkv"
        <5>1. g + 1 \in DenseStage
          BY <1>1, <3>2, DenseConstants DEF DenseStage
        <5>2. PICK h \in DenseStage : h = g + 1
          BY <5>1
        <5>3. Kind(h - 1) = "qkv"
          BY <4>2, <5>2, KindFacts
        <5>4. h - 1 = g
          BY <1>1, <5>2
        <5>5. QED
          BY <5>3, <5>4
      <4>4. Arr(row[t % Grid], g) >= row[c].step + 1
        BY <4>2, <4>3
      <4>5. t % Grid \in Cta
        BY SameOwner
      <4>6. QED
        BY <1>1, <1>3, <4>4, <4>5
    <3>3. QED
      BY <1>1, <3>1, <3>2, DenseConstants
  <2>2. \A e \in Cta : e # c =>
            row2[e].stage = row[e].stage /\ row2[e].step = row[e].step
    BY DEF Moves
  <2>3. \A e \in Cta : \A h \in DenseStage : Arr(row2[e], h) >= Arr(row[e], h)
    BY <1>3
  <2>4. QED
    BY <2>1, <2>2, <2>3, GroupFreeKept DEF Barriers
<1>7. EventsLaw(b, B, row2, ev)
  <2>1. \A e \in Cta : \A h \in DenseStage : Arr(row2[e], h) = Arr(row[e], h)
    BY <1>3
  <2>2. QED
    BY <2>1, EventsSame DEF Barriers
<1>8. GroupsLaw(b, B, row2, gr)
  <2>1. \A e \in Cta : Joined(row2[e]) = Joined(row[e])
    BY MoveJoined DEF AllLocated, Moves
  <2>2. QED
    BY <2>1, GroupsSame DEF Barriers
<1>9. QED
  BY <1>5, <1>6, <1>7, <1>8 DEF Barriers

-----------------------------------------------------------------------------
(***************************************************************************)
(* The head: one CTA of the grid decides, and how far the ranks may be     *)
(* apart.                                                                  *)
(***************************************************************************)
LEMMA HeadPastDown ==
    ASSUME NEW row, AllLocated(row), NEW n \in Nat, NEW m \in Nat, m <= n, NEW S,
           HeadPast(row, n, S)
    PROVE  HeadPast(row, m, S)
<1> SUFFICES ASSUME NEW c \in Cta
             PROVE  Scored(row[c]) >= m + 1 /\ (row[c].at \in S => row[c].step > m)
  BY DEF HeadPast
<1>1. Scored(row[c]) \in Nat /\ row[c].step \in Nat
  <2>1. HeadStage \in DenseStage
    BY DenseConstants DEF DenseStage
  <2>2. QED
    BY <2>1, ProgressTypes DEF AllLocated, Located
<1>2. Scored(row[c]) >= n + 1 /\ (row[c].at \in S => row[c].step > n)
  BY DEF HeadPast
<1>3. QED
  BY <1>1, <1>2

LEMMA ScoredTypes ==
    ASSUME NEW x, Located(x)
    PROVE  /\ Scored(x) \in Nat /\ x.step \in Nat /\ x.stage \in Nat /\ x.stage <= HeadStage
           /\ x.step <= Scored(x) /\ Scored(x) <= x.step + 1
           /\ Arr(x, HeadStage) \in Nat /\ Arr(x, HeadStage) <= Scored(x)
           /\ HeadStage \in DenseStage
<1>1. HeadStage \in DenseStage
  BY DenseConstants DEF DenseStage
<1>2. QED
  BY <1>1, ProgressTypes, StageIsNat DEF Located

\* Who has gone on has seen the step chosen.
LEMMA ChosenBefore ==
    ASSUME NEW b, NEW row, AllLocated(row), BarrierLaw(b, row), NEW n \in Nat,
           NEW c \in Cta, row[c].step > n
    PROVE  Chosen(row, n)
<1> SUFFICES ASSUME NEW e \in Cta
             PROVE  /\ Scored(row[e]) >= n + 1
                    /\ row[e].at \in Deciding => row[e].step > n
  BY DEF Chosen, HeadPast
<1>1. row[c].step <= Arr(row[e], HeadStage) /\ row[c].step \in Nat
  BY Lag DEF AllLocated, Located
<1>2. /\ Scored(row[e]) \in Nat /\ row[e].step \in Nat
      /\ Arr(row[e], HeadStage) \in Nat /\ Arr(row[e], HeadStage) <= Scored(row[e])
      /\ row[e].stage <= HeadStage /\ row[e].stage \in Nat
  BY ScoredTypes DEF AllLocated
<1>3. row[e].at \in Deciding => row[e].step > n
  BY <1>1, <1>2, DenseConstants DEF Arr, Deciding
<1>4. QED
  BY <1>1, <1>2, <1>3

LEMMA PhaseOrder ==
    ASSUME NEW row, NEW n
    PROVE  /\ Chosen(row, n) => Awaited(row, n)
           /\ Awaited(row, n) => Raised(row, n)
           /\ Raised(row, n) => Offered(row, n)
BY DEF Chosen, Awaited, Raised, Offered, HeadPast, Deciding

SameHeadAt(x, y) ==
    /\ Scored(y) = Scored(x)
    /\ x.at \in Deciding \/ y.at \in Deciding => y.at = x.at /\ y.step = x.step

SamePast(row, row2) ==
    \A n \in Nat :
        /\ Offered(row2, n) <=> Offered(row, n)
        /\ Raised(row2, n) <=> Raised(row, n)
        /\ Awaited(row2, n) <=> Awaited(row, n)
        /\ Chosen(row2, n) <=> Chosen(row, n)

LEMMA SameHead ==
    ASSUME NEW row, NEW row2, \A c \in Cta : SameHeadAt(row[c], row2[c])
    PROVE  /\ SamePast(row, row2)
           /\ \A B, n : HeadLaw(B, row, n) => HeadLaw(B, row2, n)
<1>1. ASSUME NEW n, NEW S \in SUBSET Deciding
      PROVE  HeadPast(row2, n, S) <=> HeadPast(row, n, S)
  BY DEF HeadPast, SameHeadAt
<1>2. {"offer"} \in SUBSET Deciding /\ {"offer", "flag"} \in SUBSET Deciding
      /\ {"offer", "flag", "await"} \in SUBSET Deciding /\ Deciding \in SUBSET Deciding
  BY DEF Deciding
<1>3. SamePast(row, row2)
  BY <1>1, <1>2 DEF SamePast, Offered, Raised, Awaited, Chosen
<1>4. ASSUME NEW B, NEW n, HeadLaw(B, row, n) PROVE HeadLaw(B, row2, n)
  <2>1. [c \in Cta |-> Scored(row2[c])] = [c \in Cta |-> Scored(row[c])]
    BY DEF SameHeadAt
  <2>2. Tally(Cta, [c \in Cta |-> Scored(row2[c])], n, Grid, B)
    BY <1>4, <2>1 DEF HeadLaw
  <2>3. ASSUME NEW c \in Cta, NEW e \in Cta, row2[c].at \in Deciding
        PROVE  /\ Scored(row2[e]) >= row2[c].step + 1
               /\ e # c => row2[e].at \notin Deciding
    <3>1. row2[c].step = row[c].step /\ row[c].at \in Deciding
      BY <2>3 DEF SameHeadAt
    <3>2. /\ Scored(row[e]) >= row[c].step + 1
          /\ e # c => row[e].at \notin Deciding
      BY <1>4, <3>1 DEF HeadLaw
    <3>3. /\ Scored(row2[e]) = Scored(row[e])
          /\ row2[e].at \in Deciding => row[e].at \in Deciding
      BY DEF SameHeadAt
    <3>4. QED
      BY <3>1, <3>2, <3>3
  <2>4. QED
    BY <2>2, <2>3 DEF HeadLaw
<1>5. QED
  BY <1>3, <1>4

\* The CTA that counts last decides; nothing is past the head by its counting.
LEMMA HeadFinish ==
    ASSUME NEW b, NEW B \in Nat, NEW row, NEW row2, AllLocated(row), AllLocated(row2),
           BarrierLaw(b, row), NEW n \in Nat, HeadLaw(B, row, n),
           NEW c \in Cta, Moves(row, row2, c),
           row[c].at = "task", row[c].stage = HeadStage,
           row2[c].step = row[c].step, row2[c].stage = HeadStage,
           row2[c].at = IF n % Grid = Grid - 1 THEN "offer" ELSE "join"
    PROVE  HeadLaw(B, row2, n + 1) /\ SamePast(row, row2)
<1>1. PICK k \in Nat : k = row[c].step
  BY DEF AllLocated, Located
<1>2. Scored(row[c]) = k /\ Scored(row2[c]) = k + 1
  BY <1>1 DEF Scored, Deciding
<1>3. ASSUME NEW e \in Cta
      PROVE  /\ Scored(row[e]) \in {k, k + 1} /\ row[e].step \in Nat /\ row[e].step <= k
             /\ Scored(row2[e]) \in Nat
  <2>1. k <= Arr(row[e], HeadStage)
    BY <1>1, Lag DEF AllLocated
  <2>2. row[e].step <= Arr(row[c], HeadStage)
    BY Lag DEF AllLocated
  <2>3. Arr(row[c], HeadStage) = k
    BY <1>1, DenseConstants DEF Arr
  <2>4. QED
    BY <2>1, <2>2, <2>3, ScoredTypes DEF AllLocated
<1> DEFINE f == [e \in Cta |-> Scored(row[e])]
           f2 == [e \in Cta |-> Scored(row2[e])]
           T == {e \in Cta : f[e] = k + 1}
<1>4. Tally(Cta, f, n, Grid, B)
  BY DEF HeadLaw
<1>5. Raises(Cta, f, f2, c, k)
  <2>1. f[c] = k /\ f2[c] = k + 1
    BY <1>2
  <2>2. \A e \in Cta : e # c => f2[e] = f[e]
    BY DEF Moves
  <2>3. \A e \in Cta : f[e] \in {k, k + 1}
    BY <1>3
  <2> HIDE DEF f, f2
  <2>4. QED
    BY <2>1, <2>2, <2>3 DEF Raises
<1>6. PICK target \in Nat : target = RoundTarget(Grid, B, k)
  <2>1. Grid * (B + k + 1) \in Nat
    BY DenseConstants, SMT
  <2>2. QED
    BY <2>1 DEF RoundTarget
<1>7. Tally(Cta, f2, n + 1, Grid, B)
  <2> HIDE DEF f, f2
  <2>1. QED
    BY <1>4, <1>5, <1>6, CtaFinite, DenseConstants, TallyStep
<1>8. n % Grid = Grid - 1 <=> \A e \in Cta : e # c => Scored(row[e]) = k + 1
  <2>1. n = Grid * (B + k) + Cardinality(T)
    <3>1. \A e \in Cta : f[e] \in {k, k + 1}
      BY <1>3
    <3> HIDE DEF f
    <3>2. QED
      BY <1>4, <3>1 DEF Tally
  <2>2. c \notin T /\ T \in SUBSET (Cta \ {c})
    BY <1>2
  <2>3. IsFiniteSet(Cta \ {c}) /\ Cardinality(Cta \ {c}) = Grid - 1
    BY CtaFinite, FS_RemoveElement
  <2>4. Cardinality(T) \in Nat /\ Cardinality(T) <= Grid - 1
        /\ (Cardinality(T) = Grid - 1 <=> T = Cta \ {c})
    <3> HIDE DEF T
    <3>1. IsFiniteSet(T) /\ Cardinality(T) <= Cardinality(Cta \ {c})
          /\ (Cardinality(T) = Cardinality(Cta \ {c}) <=> T = Cta \ {c})
      BY <2>2, <2>3, FS_Subset
    <3>2. QED
      BY <2>3, <3>1, FS_CardinalityType
  <2>5. T = Cta \ {c} <=> \A e \in Cta : e # c => Scored(row[e]) = k + 1
    BY <2>2
  <2>6. n % Grid = Cardinality(T)
    <3>1. PICK m \in Nat : m = Cardinality(T)
      BY <2>4
    <3>2. m \in 0 .. (Grid - 1) /\ Grid \in Nat \ {0} /\ B + k \in Nat
      BY <2>4, <3>1, DenseConstants
    <3>3. ((B + k) * Grid + m) % Grid = m
      BY <3>2, DivisionUnique
    <3>4. Grid * (B + k) = (B + k) * Grid
      BY DenseConstants, SMT
    <3>5. QED
      BY <2>1, <3>1, <3>3, <3>4
  <2> HIDE DEF T
  <2>7. QED
    BY <2>4, <2>5, <2>6
<1>9. ASSUME NEW e \in Cta PROVE row[e].at \notin Deciding
  <2>1. SUFFICES ASSUME row[e].at \in Deciding PROVE FALSE
    OBVIOUS
  <2>2. Scored(row[c]) >= row[e].step + 1
    BY <2>1 DEF HeadLaw
  <2>3. row[e].step < k
    BY <1>1, <1>2, <1>3, <2>2
  <2>4. k <= Arr(row[e], HeadStage)
    BY <1>1, Lag DEF AllLocated
  <2>5. row[e].stage \in Nat /\ row[e].stage <= HeadStage /\ row[e].at # "wait"
    BY <2>1, ScoredTypes DEF AllLocated, Deciding
  <2>6. Arr(row[e], HeadStage) = row[e].step
    BY <1>3, <2>5, DenseConstants DEF Arr
  <2>7. QED
    BY <1>1, <1>3, <2>3, <2>4, <2>6
<1>10. ASSUME NEW d \in Cta, NEW e \in Cta, row2[d].at \in Deciding
       PROVE  /\ Scored(row2[e]) >= row2[d].step + 1
              /\ e # d => row2[e].at \notin Deciding
  <2>1. d = c
    BY <1>9, <1>10 DEF Moves
  <2>2. n % Grid = Grid - 1
    BY <1>10, <2>1 DEF Deciding
  <2>3. row2[d].step = k
    BY <1>1, <2>1
  <2>4. CASE e = c
    BY <1>2, <2>1, <2>3, <2>4
  <2>5. CASE e # c
    <3>1. Scored(row2[e]) = k + 1
      BY <1>8, <2>2, <2>5 DEF Moves
    <3>2. row2[e].at \notin Deciding
      BY <1>9, <2>5 DEF Moves
    <3>3. QED
      BY <2>3, <3>1, <3>2
  <2>6. QED
    BY <2>4, <2>5
<1>11. HeadLaw(B, row2, n + 1)
  BY <1>7, <1>10 DEF HeadLaw
<1>12. ASSUME NEW m \in Nat, NEW S \in SUBSET Deciding, "offer" \in S
       PROVE  HeadPast(row2, m, S) <=> HeadPast(row, m, S)
  <2>1. ASSUME HeadPast(row2, m, S) PROVE HeadPast(row, m, S)
    <3>1. Scored(row2[c]) >= m + 1 /\ (row2[c].at \in S => row2[c].step > m)
      BY <2>1 DEF HeadPast
    <3>2. CASE Scored(row[c]) >= m + 1
      <4>1. row[c].at \notin S
        BY DEF Deciding
      <4>2. QED
        BY <2>1, <3>2, <4>1 DEF HeadPast, Moves
    <3>3. CASE ~(Scored(row[c]) >= m + 1)
      <4>1. \A e \in Cta : e # c => Scored(row[e]) >= m + 1
        BY <2>1 DEF HeadPast, Moves
      <4>2. CASE n % Grid = Grid - 1
        <5>1. row2[c].at = "offer"
          BY <4>2
        <5>2. k > m
          BY <1>1, <1>12, <3>1, <5>1
        <5>3. Scored(row[c]) >= m + 1
          BY <1>2, <5>2
        <5>4. QED
          BY <3>3, <5>3
      <4>3. CASE ~(n % Grid = Grid - 1)
        <5>1. PICK e \in Cta : e # c /\ Scored(row[e]) # k + 1
          BY <1>8, <4>3
        <5>2. Scored(row[e]) = k
          BY <1>3, <5>1
        <5>3. QED
          BY <1>2, <3>3, <4>1, <5>1, <5>2
      <4>4. QED
        BY <4>2, <4>3
    <3>4. QED
      BY <3>2, <3>3
  <2>2. ASSUME HeadPast(row, m, S) PROVE HeadPast(row2, m, S)
    <3>1. Scored(row[c]) >= m + 1
      BY <2>2 DEF HeadPast
    <3>2. \A e \in Cta : e # c => Scored(row2[e]) >= m + 1 /\ (row2[e].at \in S => row2[e].step > m)
      BY <2>2 DEF HeadPast, Moves
    <3>3. k > m
      BY <1>2, <3>1
    <3>4. Scored(row2[c]) >= m + 1 /\ row2[c].step > m
      BY <1>1, <1>2, <3>3
    <3>5. QED
      BY <3>2, <3>4 DEF HeadPast
  <2>3. QED
    BY <2>1, <2>2
<1>13. SamePast(row, row2)
  BY <1>12 DEF SamePast, Offered, Raised, Awaited, Chosen, Deciding
<1>14. QED
  BY <1>11, <1>13

\* A step of the deciding CTA: what it adds to the steps past S.
LEMMA HeadDecide ==
    ASSUME NEW B \in Nat, NEW row, NEW row2, AllLocated(row), AllLocated(row2),
           NEW n \in Nat, HeadLaw(B, row, n),
           NEW c \in Cta, Moves(row, row2, c),
           row[c].at \in Deciding, row[c].stage = HeadStage,
           row2[c].step = row[c].step, row2[c].stage = HeadStage,
           row2[c].at \in Deciding \cup {"join"}
    PROVE  /\ HeadLaw(B, row2, n)
           /\ \A m \in Nat : \A S \in SUBSET Deciding :
                 row2[c].at \in S /\ row[c].at \in S =>
                     (HeadPast(row2, m, S) <=> HeadPast(row, m, S))
           /\ \A m \in Nat : \A S \in SUBSET Deciding :
                 row2[c].at \notin S =>
                     (HeadPast(row2, m, S) <=> HeadPast(row, m, S) \/ m = row[c].step)
<1>1. PICK k \in Nat : k = row[c].step
  BY DEF AllLocated, Located
<1>2. Scored(row[c]) = k + 1 /\ Scored(row2[c]) = k + 1
  BY <1>1 DEF Scored, Deciding
<1>3. ASSUME NEW e \in Cta
      PROVE  /\ Scored(row[e]) >= k + 1 /\ Scored(row[e]) \in Nat
             /\ e # c => row[e].at \notin Deciding /\ row2[e] = row[e]
             /\ Scored(row2[e]) = Scored(row[e])
  <2>1. Scored(row[e]) \in Nat
    BY ScoredTypes DEF AllLocated
  <2>2. QED
    BY <1>1, <1>2, <2>1 DEF HeadLaw, Moves
<1>4. HeadLaw(B, row2, n)
  <2>1. [e \in Cta |-> Scored(row2[e])] = [e \in Cta |-> Scored(row[e])]
    BY <1>3
  <2>2. Tally(Cta, [e \in Cta |-> Scored(row2[e])], n, Grid, B)
    BY <2>1 DEF HeadLaw
  <2>3. ASSUME NEW d \in Cta, NEW e \in Cta, row2[d].at \in Deciding
        PROVE  /\ Scored(row2[e]) >= row2[d].step + 1
               /\ e # d => row2[e].at \notin Deciding
    <3>1. d = c
      BY <1>3, <2>3
    <3>2. QED
      BY <1>1, <1>3, <3>1
  <2>4. QED
    BY <2>2, <2>3 DEF HeadLaw
<1>5. ASSUME NEW m \in Nat, NEW S \in SUBSET Deciding,
             row2[c].at \in S, row[c].at \in S
      PROVE  HeadPast(row2, m, S) <=> HeadPast(row, m, S)
  BY <1>3, <1>5 DEF HeadPast
<1>6. ASSUME NEW m \in Nat, NEW S \in SUBSET Deciding, row2[c].at \notin S
      PROVE  HeadPast(row2, m, S) <=> HeadPast(row, m, S) \/ m = row[c].step
  <2>1. ASSUME HeadPast(row2, m, S), m # k PROVE HeadPast(row, m, S)
    <3>1. k + 1 >= m + 1
      BY <1>2, <2>1 DEF HeadPast
    <3>2. k > m
      BY <2>1, <3>1
    <3>3. QED
      BY <1>1, <1>3, <2>1, <3>2 DEF HeadPast
  <2>2. ASSUME HeadPast(row, m, S) PROVE HeadPast(row2, m, S)
    BY <1>3, <1>6, <2>2 DEF HeadPast
  <2>3. ASSUME m = k PROVE HeadPast(row2, m, S)
    BY <1>3, <1>6, <2>3 DEF HeadPast
  <2>4. QED
    BY <1>1, <2>1, <2>2, <2>3
<1>7. QED
  BY <1>4, <1>5, <1>6

\* A CTA in step n is met everywhere by the head of every step before.
LEMMA StepsApart ==
    ASSUME NEW b, NEW P, \A r \in Rank : AllLocated(P[r]) /\ BarrierLaw(b, P[r]),
           SkewLaw(P), NEW n \in Nat,
           NEW r \in Rank, NEW c \in Cta, P[r][c].step > n, NEW s \in Rank
    PROVE  Raised(P[s], n)
<1>1. Chosen(P[r], n)
  BY ChosenBefore
<1>2. Awaited(P[r], n)
  BY <1>1, PhaseOrder
<1>3. QED
  BY <1>2 DEF SkewLaw

-----------------------------------------------------------------------------
(***************************************************************************)
(* What the moves keep of the memory's meaning.                            *)
(***************************************************************************)
Staying(x, y) == y.step = x.step /\ y.stage = x.stage /\ y.task = x.task
Advancing(x, y) == y.step = x.step /\ y.stage = x.stage /\ y.task = x.task + Grid
Resting(c, x, y) == y.step = x.step /\ x.stage = 0 /\ y.stage = 0 /\ x.task = 0 /\ y.task <= c
Entering(c, x, y) == Passing(x, y) /\ x.task >= Tasks(x.stage) /\ y.task <= c
Bypassing(c, x, y) == Skipping(x, y) /\ y.task <= c

WrittenMove(kind, T, c, x, y) ==
    \A t \in T : t % Grid = c =>
        /\ Kind(y.stage) = kind /\ y.task > t =>
              y.stage = x.stage /\ y.step = x.step /\ x.task > t
        /\ y.stage >= 1 /\ Kind(y.stage - 1) = kind =>
              /\ y.step = x.step
              /\ y.stage = x.stage \/ (x.stage = y.stage - 1 /\ x.task > t)

LEMMA WrittenKept ==
    ASSUME NEW kind, NEW q, NEW row, NEW row2, NEW T \in SUBSET Nat, NEW m,
           AllLocated(row), AllLocated(row2),
           WrittenAt(kind, q, row, T, m),
           \A c \in Cta : WrittenMove(kind, T, c, row[c], row2[c])
    PROVE  WrittenAt(kind, q, row2, T, m)
<1> SUFFICES ASSUME NEW t \in T
             PROVE  LET y == row2[t % Grid] IN
                    /\ Kind(y.stage) = kind /\ y.task > t => m[t] = Value(q, y.step, y.stage)
                    /\ y.stage >= 1 /\ Kind(y.stage - 1) = kind =>
                          m[t] = Value(q, y.step, y.stage - 1)
  BY DEF WrittenAt
<1>1. t % Grid \in Cta
  BY SameOwner
<1>2. PICK c, x, y : c \in Cta /\ c = t % Grid /\ x = row[c] /\ y = row2[c]
  BY <1>1
<1>3. Located(x) /\ Located(y) /\ x.stage \in Nat /\ y.stage \in Nat
  BY <1>2, ScoredTypes DEF AllLocated
<1>4. /\ Kind(x.stage) = kind /\ x.task > t => m[t] = Value(q, x.step, x.stage)
      /\ x.stage >= 1 /\ Kind(x.stage - 1) = kind => m[t] = Value(q, x.step, x.stage - 1)
  BY <1>2 DEF WrittenAt
<1>5. /\ Kind(y.stage) = kind /\ y.task > t =>
              y.stage = x.stage /\ y.step = x.step /\ x.task > t
      /\ y.stage >= 1 /\ Kind(y.stage - 1) = kind =>
              /\ y.step = x.step
              /\ y.stage = x.stage \/ (x.stage = y.stage - 1 /\ x.task > t)
  BY <1>2 DEF WrittenMove
<1>6. Kind(y.stage) = kind /\ y.task > t => m[t] = Value(q, y.step, y.stage)
  BY <1>4, <1>5
<1>7. y.stage >= 1 /\ Kind(y.stage - 1) = kind => m[t] = Value(q, y.step, y.stage - 1)
  <2>1. CASE y.stage = x.stage
    BY <1>4, <1>5, <2>1
  <2>2. CASE x.stage = y.stage - 1
    BY <1>4, <1>5, <2>2
  <2>3. QED
    BY <1>5, <2>1, <2>2
<1>8. QED
  BY <1>2, <1>6, <1>7

LEMMA OwnFloor ==
    ASSUME NEW t \in Nat
    PROVE  t % Grid <= t /\ t % Grid \in Nat
<1>1. Grid \in Nat \ {0}
  BY DenseConstants
<1>2. t % Grid \in Nat /\ t = (t \div Grid) * Grid + (t % Grid) /\ t \div Grid \in Nat
  BY <1>1, Division
<1>3. (t \div Grid) * Grid \in Nat
  BY <1>1, <1>2, SMT
<1>4. QED
  BY <1>2, <1>3

LEMMA MoveWritten ==
    ASSUME NEW kind \in {"qkv", "attention", "gate_up"}, NEW N \in Nat,
           \A g \in DenseStage : Kind(g) = kind => Tasks(g) = N,
           NEW c \in Cta, NEW x, NEW y, Located(x), Located(y),
           \/ Staying(x, y)
           \/ Advancing(x, y) /\ Kind(x.stage) # kind
           \/ Resting(c, x, y)
           \/ Entering(c, x, y)
           \/ Bypassing(c, x, y)
    PROVE  WrittenMove(kind, 0 .. (N - 1), c, x, y)
<1> SUFFICES ASSUME NEW t \in 0 .. (N - 1), t % Grid = c
             PROVE  /\ Kind(y.stage) = kind /\ y.task > t =>
                          y.stage = x.stage /\ y.step = x.step /\ x.task > t
                    /\ y.stage >= 1 /\ Kind(y.stage - 1) = kind =>
                          /\ y.step = x.step
                          /\ y.stage = x.stage \/ (x.stage = y.stage - 1 /\ x.task > t)
  BY DEF WrittenMove
<1>1. c <= t /\ c \in Nat /\ t \in Nat
  BY OwnFloor
<1>2. /\ x.stage \in Nat /\ x.stage <= HeadStage /\ y.stage \in Nat /\ y.stage <= HeadStage
      /\ x.task \in Nat /\ y.task \in Nat /\ x.stage \in DenseStage /\ y.stage \in DenseStage
  BY ScoredTypes DEF Located
<1>3. CASE Staying(x, y)
  BY <1>3 DEF Staying
<1>4. CASE Advancing(x, y) /\ Kind(x.stage) # kind
  BY <1>4 DEF Advancing
<1>5. Kind(0) = "embed" /\ Kind(1) = "qkv" /\ Kind(HeadStage) = "head"
  BY EdgeKinds, KindFacts, <1>2
<1>6. CASE Resting(c, x, y)
  BY <1>5, <1>6 DEF Resting
<1>7. CASE Entering(c, x, y)
  <2>1. ~(y.task > t)
    BY <1>1, <1>2, <1>7 DEF Entering
  <2>2. CASE x.stage = HeadStage
    <3>1. y.stage = 0
      BY <1>7, <2>2, DenseConstants DEF Entering, Passing
    <3>2. QED
      BY <1>5, <2>1, <3>1
  <2>3. CASE x.stage < HeadStage
    <3>1. y.stage = x.stage + 1 /\ y.step = x.step
      BY <1>7, <2>3 DEF Entering, Passing
    <3>2. y.stage - 1 = x.stage
      BY <1>2, <3>1
    <3>3. Kind(x.stage) = kind => x.task > t
      <4>1. SUFFICES ASSUME Kind(x.stage) = kind PROVE x.task > t
        OBVIOUS
      <4>2. x.task >= N
        BY <1>2, <1>7, <4>1 DEF Entering
      <4>3. QED
        BY <1>1, <1>2, <4>2
    <3>4. QED
      BY <2>1, <3>1, <3>2, <3>3
  <2>4. QED
    BY <1>2, <2>2, <2>3, DenseConstants
<1>8. CASE Bypassing(c, x, y)
  <2>1. ~(y.task > t)
    BY <1>1, <1>2, <1>8 DEF Bypassing
  <2>2. y.stage = 1 /\ y.stage - 1 = 0
    BY <1>8 DEF Bypassing, Skipping
  <2>3. QED
    BY <1>5, <2>1, <2>2
<1>9. QED
  BY <1>3, <1>4, <1>6, <1>7, <1>8

\* A task's output, in its own place.
LEMMA WrittenStore ==
    ASSUME NEW kind \in {"qkv", "attention", "gate_up"}, NEW N \in Nat, NEW q,
           NEW row, NEW row2, AllLocated(row), AllLocated(row2),
           NEW c \in Cta, Moves(row, row2, c), Advancing(row[c], row2[c]),
           Kind(row[c].stage) = kind, NEW u \in 0 .. (N - 1), u = row[c].task, u % Grid = c,
           NEW m, NEW m2, m \in [0 .. (N - 1) -> Sound],
           m2 = [m EXCEPT ![u] = Value(q, row[c].step, row[c].stage)],
           WrittenAt(kind, q, row, 0 .. (N - 1), m)
    PROVE  WrittenAt(kind, q, row2, 0 .. (N - 1), m2)
<1> SUFFICES ASSUME NEW t \in 0 .. (N - 1)
             PROVE  LET y == row2[t % Grid] IN
                    /\ Kind(y.stage) = kind /\ y.task > t => m2[t] = Value(q, y.step, y.stage)
                    /\ y.stage >= 1 /\ Kind(y.stage - 1) = kind =>
                          m2[t] = Value(q, y.step, y.stage - 1)
  BY DEF WrittenAt
<1>1. t % Grid \in Cta /\ t \in Nat /\ u \in Nat
  BY SameOwner
<1>2. PICK d, x, y : d \in Cta /\ d = t % Grid /\ x = row[d] /\ y = row2[d]
  BY <1>1
<1>3. /\ Located(x) /\ Located(y) /\ x.stage \in Nat /\ y.stage \in Nat /\ x.stage \in DenseStage
      /\ x.task \in Nat /\ y.task \in Nat
  BY <1>2, ScoredTypes DEF AllLocated, Located
<1>4. /\ Kind(x.stage) = kind /\ x.task > t => m[t] = Value(q, x.step, x.stage)
      /\ x.stage >= 1 /\ Kind(x.stage - 1) = kind => m[t] = Value(q, x.step, x.stage - 1)
  BY <1>2 DEF WrittenAt
<1>5. CASE d # c
  <2>1. y = x
    BY <1>2, <1>5 DEF Moves
  <2>2. t # u
    BY <1>2, <1>5
  <2>3. m2[t] = m[t]
    BY <2>2
  <2>4. QED
    BY <1>2, <1>4, <2>1, <2>3
<1>6. CASE d = c
  <2>1. y.stage = x.stage /\ y.step = x.step /\ y.task = x.task + Grid /\ x.task = u
        /\ Kind(x.stage) = kind
    BY <1>2, <1>6 DEF Advancing
  <2>2. ~(y.stage >= 1 /\ Kind(y.stage - 1) = kind)
    <3>1. Kind(x.stage - 1) # kind
      BY <1>3, <2>1, KindFacts
    <3>2. QED
      BY <2>1, <3>1
  <2>3. CASE t = u
    BY <1>2, <1>6, <2>1, <2>2, <2>3
  <2>4. CASE t # u
    <3>1. m2[t] = m[t]
      BY <2>4
    <3>2. y.task > t => x.task > t
      <4>1. t < u + Grid => t <= u
        BY <1>1, <1>2, <1>6, SameOwner
      <4>2. y.task = u + Grid /\ Grid \in Nat /\ t \in Nat /\ u \in Nat /\ x.task = u
        BY <1>1, <2>1, DenseConstants
      <4>3. CASE t < u + Grid
        <5>1. t <= u
          BY <4>1, <4>3
        <5>2. QED
          BY <2>4, <4>2, <5>1
      <4>4. QED
        BY <4>2, <4>3
    <3>3. QED
      BY <1>2, <1>4, <2>1, <2>2, <3>1, <3>2
  <2>5. QED
    BY <2>3, <2>4
<1>7. QED
  BY <1>5, <1>6

LEMMA PartialKept ==
    ASSUME NEW q, NEW row, NEW row2, NEW m, PartialLaw(q, row, m),
           \A c \in Cta :
              row2[c].stage = HeadStage /\ Scored(row2[c]) = row2[c].step + 1 =>
                  /\ row[c].stage = HeadStage /\ row2[c].step = row[c].step
                  /\ Scored(row[c]) = row[c].step + 1
    PROVE  PartialLaw(q, row2, m)
BY DEF PartialLaw

\* Whether a step is embedded does not change.
SameEmbeds(b, row, row2) == \A n \in Nat : Embeds(b, row2, n) <=> Embeds(b, row, n)

LEMMA EmbedsKept ==
    ASSUME NEW b, NEW row, NEW row2, AllLocated(row), AllLocated(row2),
           b.embed => SamePast(row, row2),
           \/ Staying(row[0], row2[0])
           \/ Advancing(row[0], row2[0]) /\ row[0].stage # 0
           \/ Resting(0, row[0], row2[0])
           \/ Entering(0, row[0], row2[0])
           \/ Bypassing(0, row[0], row2[0]) /\ b.embed /\ row[0].step # 0
    PROVE  SameEmbeds(b, row, row2)
<1> SUFFICES ASSUME NEW n \in Nat
             PROVE  Embeds(b, row2, n) <=> Embeds(b, row, n)
  BY DEF SameEmbeds
<1>1. CASE b.embed /\ n # 0
  <2>1. n - 1 \in Nat
    BY <1>1
  <2>2. Chosen(row2, n - 1) <=> Chosen(row, n - 1)
    BY <1>1, <2>1 DEF SamePast
  <2>3. QED
    BY <1>1, <2>2 DEF Embeds
<1>2. CASE ~(b.embed /\ n # 0)
  <2>1. PICK x, y : x = row[0] /\ y = row2[0]
    OBVIOUS
  <2>2. /\ Located(x) /\ Located(y) /\ x.stage \in Nat /\ x.stage <= HeadStage
        /\ y.stage \in Nat /\ x.step \in Nat /\ x.task \in Nat /\ y.task \in Nat
        /\ x.stage \in DenseStage
    BY <2>1, DenseConstants, ScoredTypes DEF AllLocated, Located
  <2>3. Ran(y, 0, 0) >= n + 1 <=> Ran(x, 0, 0) >= n + 1
    <3>1. CASE Staying(x, y)
      BY <2>2, <3>1 DEF Staying, Ran
    <3>2. CASE Advancing(x, y) /\ x.stage # 0
      BY <2>2, <3>2 DEF Advancing, Ran
    <3>3. CASE Resting(0, x, y)
      BY <2>2, <3>3 DEF Resting, Ran
    <3>4. CASE Entering(0, x, y)
      <4>1. y.task = 0
        BY <2>2, <3>4 DEF Entering
      <4>2. CASE x.stage = 0
        <5>1. x.task >= 1
          BY <2>2, <3>4, <4>2, TaskFacts, EdgeKinds DEF Entering
        <5>2. y.stage = 1 /\ y.step = x.step
          BY <3>4, <4>2, DenseConstants DEF Entering, Passing
        <5>3. QED
          BY <2>2, <4>2, <5>1, <5>2 DEF Ran
      <4>3. CASE x.stage # 0 /\ x.stage < HeadStage
        <5>1. y.stage = x.stage + 1 /\ y.step = x.step
          BY <3>4, <4>3, DenseConstants DEF Entering, Passing
        <5>2. QED
          BY <2>2, <4>3, <5>1 DEF Ran
      <4>4. CASE x.stage = HeadStage
        <5>1. y.stage = 0 /\ y.step = x.step + 1
          BY <3>4, <4>4, DenseConstants DEF Entering, Passing
        <5>2. QED
          BY <2>2, <4>1, <4>4, <5>1, DenseConstants DEF Ran
      <4>5. QED
        BY <2>2, <4>2, <4>3, <4>4, DenseConstants
    <3>5. CASE Bypassing(0, x, y) /\ b.embed /\ x.step # 0
      <4>1. n = 0
        BY <1>2, <3>5
      <4>2. y.step = x.step
        BY <3>5 DEF Bypassing, Skipping
      <4>3. QED
        BY <2>2, <3>5, <4>1, <4>2 DEF Ran
    <3>6. QED
      BY <2>1, <3>1, <3>2, <3>3, <3>4, <3>5
  <2>4. QED
    BY <1>2, <2>1, <2>3 DEF Embeds
<1>3. QED
  BY <1>1, <1>2

\* What a tile of the residual stream holds, as a property of its owner's place.
Residual(b, q, row, x, t, v) ==
    /\ x.stage = 0 /\ Embeds(b, row, x.step) => v = Value(q, x.step, 0)
    /\ 0 < x.stage /\ x.stage < HeadStage => v = Value(q, x.step, StreamStage(x, t))
    /\ x.stage = HeadStage =>
          v = IF Embeds(b, row, x.step + 1) THEN Value(q, x.step + 1, 0)
              ELSE Value(q, x.step, HeadStage - 1)

LEMMA ResidualForm ==
    ASSUME NEW b, NEW q, NEW row, NEW m
    PROVE  ResidualLaw(b, q, row, m) <=>
               \A t \in 0 .. (XTiles - 1) : Residual(b, q, row, row[t % Grid], t, m[t])
BY DEF ResidualLaw, Residual

LEMMA ResidualMove ==
    ASSUME NEW b, NEW q, NEW row, NEW row2, SameEmbeds(b, row, row2),
           NEW t \in 0 .. (XTiles - 1), NEW c \in Cta, t % Grid = c, NEW v,
           NEW x, NEW y, Located(x), Located(y), Residual(b, q, row, x, t, v),
           \/ Staying(x, y)
           \/ Advancing(x, y) /\ Kind(x.stage) \notin {"o", "down"}
           \/ Resting(c, x, y)
           \/ /\ Entering(c, x, y)
              /\ x.stage = 0 => Embeds(b, row, x.step)
              /\ x.stage = HeadStage - 1 => ~Embeds(b, row, x.step + 1)
           \/ Bypassing(c, x, y) /\ Embeds(b, row, x.step)
    PROVE  Residual(b, q, row2, y, t, v)
<1>1. c <= t /\ c \in Nat /\ t \in Nat
  BY OwnFloor
<1>2. /\ x.stage \in Nat /\ x.stage <= HeadStage /\ y.stage \in Nat /\ y.stage <= HeadStage
      /\ x.task \in Nat /\ y.task \in Nat /\ x.stage \in DenseStage /\ y.stage \in DenseStage
      /\ x.step \in Nat /\ y.step \in Nat
  BY ScoredTypes DEF Located
<1>3. /\ Embeds(b, row2, x.step) <=> Embeds(b, row, x.step)
      /\ Embeds(b, row2, x.step + 1) <=> Embeds(b, row, x.step + 1)
  BY <1>2 DEF SameEmbeds
<1>4. CASE Staying(x, y)
  BY <1>3, <1>4 DEF Staying, Residual, StreamStage
<1>5. CASE Advancing(x, y) /\ Kind(x.stage) \notin {"o", "down"}
  <2>1. StreamStage(y, t) = StreamStage(x, t)
    BY <1>5 DEF Advancing, StreamStage
  <2>2. QED
    BY <1>3, <1>5, <2>1 DEF Advancing, Residual
<1>6. CASE Resting(c, x, y)
  BY <1>3, <1>6, DenseConstants DEF Resting, Residual
<1>7. CASE Bypassing(c, x, y) /\ Embeds(b, row, x.step)
  <2>1. v = Value(q, x.step, 0)
    BY <1>7 DEF Bypassing, Skipping, Residual
  <2>2. y.stage = 1 /\ y.step = x.step
    BY <1>7 DEF Bypassing, Skipping
  <2>3. StreamStage(y, t) = 0
    BY <1>2, <2>2, KindFacts DEF StreamStage
  <2>4. QED
    BY <2>1, <2>2, <2>3, DenseConstants DEF Residual
<1>8. CASE /\ Entering(c, x, y)
           /\ x.stage = 0 => Embeds(b, row, x.step)
           /\ x.stage = HeadStage - 1 => ~Embeds(b, row, x.step + 1)
  <2>1. ~(y.task > t) /\ x.task >= Tasks(x.stage)
    BY <1>1, <1>2, <1>8 DEF Entering
  <2>2. CASE x.stage = HeadStage
    <3>1. y.stage = 0 /\ y.step = x.step + 1
      BY <1>8, <2>2, DenseConstants DEF Entering, Passing
    <3>2. v = IF Embeds(b, row, x.step + 1) THEN Value(q, x.step + 1, 0)
              ELSE Value(q, x.step, HeadStage - 1)
      BY <2>2 DEF Residual
    <3>3. QED
      BY <1>3, <3>1, <3>2, DenseConstants DEF Residual
  <2>3. CASE x.stage = 0
    <3>1. y.stage = 1 /\ y.step = x.step
      BY <1>8, <2>3, DenseConstants DEF Entering, Passing
    <3>2. v = Value(q, x.step, 0)
      BY <1>8, <2>3 DEF Residual
    <3>3. StreamStage(y, t) = 0
      BY <1>2, <3>1, KindFacts DEF StreamStage
    <3>4. QED
      BY <3>1, <3>2, <3>3, DenseConstants DEF Residual
  <2>4. CASE 0 < x.stage /\ x.stage < HeadStage
    <3>1. y.stage = x.stage + 1 /\ y.step = x.step
      BY <1>8, <2>4 DEF Entering, Passing
    <3>2. v = Value(q, x.step, StreamStage(x, t))
      BY <2>4 DEF Residual
    <3>3. PICK g \in Nat : g = x.stage /\ g \in DenseStage
      BY <1>2
    <3>4. Kind(g) \in {"o", "down"} => x.task > t
      <4>1. SUFFICES ASSUME Kind(g) \in {"o", "down"} PROVE x.task > t
        OBVIOUS
      <4>2. Tasks(g) = XTiles
        BY <3>3, <4>1, TaskFacts
      <4>3. QED
        BY <1>1, <1>2, <2>1, <3>3, <4>2, DenseConstants
    <3>5. CASE y.stage = HeadStage
      <4>1. Kind(HeadStage - 1) = "down"
        <5>1. HeadStage \in DenseStage
          BY DenseConstants DEF DenseStage
        <5>2. QED
          BY <5>1, EdgeKinds, KindFacts
      <4>2. g = HeadStage - 1
        BY <1>2, <3>1, <3>3, <3>5, DenseConstants
      <4>3. StreamStage(x, t) = HeadStage - 1
        BY <3>3, <3>4, <4>1, <4>2 DEF StreamStage
      <4>4. ~Embeds(b, row2, x.step + 1)
        BY <1>3, <1>8, <3>3, <4>2
      <4>5. v = Value(q, y.step, HeadStage - 1)
        BY <3>1, <3>2, <4>3
      <4>6. QED
        BY <3>1, <3>5, <4>4, <4>5, DenseConstants DEF Residual
    <3>6. CASE y.stage # HeadStage
      <4>1. StreamStage(y, t) = StreamStage(x, t)
        <5>1. /\ Kind(g) \in {"qkv", "attention", "o", "gate_up", "down"}
              /\ Kind(g) = "qkv" => Kind(g + 1) = "attention"
              /\ Kind(g) = "attention" => Kind(g + 1) = "o"
              /\ Kind(g) = "o" => Kind(g + 1) = "gate_up"
              /\ Kind(g) = "gate_up" => Kind(g + 1) = "down"
              /\ Kind(g) = "down" => Kind(g + 1) \in {"qkv", "head"}
          BY <2>4, <3>3, KindFacts DEF Kinds
        <5>2. Kind(g) = "down" => Kind(g + 1) = "qkv"
          BY <1>2, <3>1, <3>3, <3>6, <5>1, KindFacts
        <5>3. y.stage = g + 1
          BY <3>1, <3>3
        <5>4. CASE Kind(g) = "qkv"
          BY <3>3, <5>1, <5>3, <5>4 DEF StreamStage
        <5>5. CASE Kind(g) = "attention"
          BY <2>1, <3>3, <5>1, <5>3, <5>5 DEF StreamStage
        <5>6. CASE Kind(g) = "o"
          BY <3>3, <3>4, <5>1, <5>3, <5>6 DEF StreamStage
        <5>7. CASE Kind(g) = "gate_up"
          BY <2>1, <3>3, <5>1, <5>3, <5>7 DEF StreamStage
        <5>8. CASE Kind(g) = "down"
          BY <3>3, <3>4, <5>2, <5>3, <5>8 DEF StreamStage
        <5>9. QED
          BY <5>1, <5>4, <5>5, <5>6, <5>7, <5>8
      <4>2. 0 < y.stage /\ y.stage < HeadStage
        BY <1>2, <3>1, <3>6, DenseConstants
      <4>3. y.stage # 0 /\ y.stage # HeadStage
        BY <1>2, <4>2, <3>6
      <4>4. v = Value(q, y.step, StreamStage(y, t))
        BY <3>1, <3>2, <4>1
      <4>5. QED
        BY <4>3, <4>4 DEF Residual
    <3>7. QED
      BY <3>5, <3>6
  <2>5. QED
    BY <1>2, <2>2, <2>3, <2>4, DenseConstants
<1>9. QED
  BY <1>4, <1>5, <1>6, <1>7, <1>8

-----------------------------------------------------------------------------
PartialStays(x, y) ==
    y.stage = HeadStage /\ Scored(y) = y.step + 1 =>
        x.stage = HeadStage /\ y.step = x.step /\ Scored(x) = x.step + 1

\* The moves that store nothing, with what lets them happen.
QuietMove(b, row, c, x, y) ==
    \/ Staying(x, y)
    \/ Advancing(x, y) /\ Kind(x.stage) = "head"
    \/ Resting(c, x, y)
    \/ /\ Entering(c, x, y)
       /\ x.stage = 0 => Embeds(b, row, x.step)
       /\ x.stage = HeadStage - 1 => ~Embeds(b, row, x.step + 1)
    \/ Bypassing(c, x, y) /\ b.embed /\ x.step # 0 /\ Embeds(b, row, x.step)

LEMMA WrittenTasks ==
    /\ \A g \in DenseStage : Kind(g) = "qkv" => Tasks(g) = QkvTiles
    /\ \A g \in DenseStage : Kind(g) = "attention" => Tasks(g) = KvGroups
    /\ \A g \in DenseStage : Kind(g) = "gate_up" => Tasks(g) = ActTiles
    /\ 0 .. (QkvTiles - 1) \in SUBSET Nat /\ 0 .. (KvGroups - 1) \in SUBSET Nat
    /\ 0 .. (ActTiles - 1) \in SUBSET Nat
    /\ QkvTiles \in Nat /\ KvGroups \in Nat /\ ActTiles \in Nat
BY TaskFacts, DenseConstants

LEMMA ResidualKept ==
    ASSUME NEW b, NEW q, NEW row, NEW row2, AllLocated(row), AllLocated(row2),
           SameEmbeds(b, row, row2), NEW m, ResidualLaw(b, q, row, m),
           \A c \in Cta :
              \/ Staying(row[c], row2[c])
              \/ Advancing(row[c], row2[c]) /\ Kind(row[c].stage) \notin {"o", "down"}
              \/ Resting(c, row[c], row2[c])
              \/ /\ Entering(c, row[c], row2[c])
                 /\ row[c].stage = 0 => Embeds(b, row, row[c].step)
                 /\ row[c].stage = HeadStage - 1 => ~Embeds(b, row, row[c].step + 1)
              \/ Bypassing(c, row[c], row2[c]) /\ Embeds(b, row, row[c].step)
    PROVE  ResidualLaw(b, q, row2, m)
<1>1. SUFFICES ASSUME NEW t \in 0 .. (XTiles - 1)
               PROVE  Residual(b, q, row2, row2[t % Grid], t, m[t])
  BY ResidualForm
<1>2. t % Grid \in Cta
  <2>1. t \in Nat /\ t % Grid = t % Grid
    BY DenseConstants
  <2>2. QED
    BY <2>1, SameOwner
<1>3. PICK c, x, y : c \in Cta /\ c = t % Grid /\ x = row[c] /\ y = row2[c]
  BY <1>2
<1>4. Located(x) /\ Located(y)
  BY <1>3 DEF AllLocated
<1>5. Residual(b, q, row, x, t, m[t])
  BY <1>3, ResidualForm
<1>6. \/ Staying(x, y)
      \/ Advancing(x, y) /\ Kind(x.stage) \notin {"o", "down"}
      \/ Resting(c, x, y)
      \/ /\ Entering(c, x, y)
         /\ x.stage = 0 => Embeds(b, row, x.step)
         /\ x.stage = HeadStage - 1 => ~Embeds(b, row, x.step + 1)
      \/ Bypassing(c, x, y) /\ Embeds(b, row, x.step)
  BY <1>3
<1>7. Residual(b, q, row2, y, t, m[t])
  BY <1>3, <1>4, <1>5, <1>6, ResidualMove
<1>8. QED
  BY <1>3, <1>7

LEMMA MemoryQuiet ==
    ASSUME NEW b, NEW q, NEW row, NEW row2, AllLocated(row), AllLocated(row2),
           b.embed => SamePast(row, row2), NEW m, MemoryLaw(b, q, row, m),
           \A c \in Cta : QuietMove(b, row, c, row[c], row2[c]),
           \A c \in Cta : PartialStays(row[c], row2[c])
    PROVE  MemoryLaw(b, q, row2, m) /\ SameEmbeds(b, row, row2)
<1>1. SameEmbeds(b, row, row2)
  <2>1. QuietMove(b, row, 0, row[0], row2[0])
    BY DenseConstants
  <2>2. Kind(row[0].stage) = "head" => row[0].stage # 0
    BY EdgeKinds
  <2>3. \/ Staying(row[0], row2[0])
        \/ Advancing(row[0], row2[0]) /\ row[0].stage # 0
        \/ Resting(0, row[0], row2[0])
        \/ Entering(0, row[0], row2[0])
        \/ Bypassing(0, row[0], row2[0]) /\ b.embed /\ row[0].step # 0
    BY <2>1, <2>2 DEF QuietMove
  <2>4. QED
    BY <2>3, EmbedsKept
<1>2. ResidualLaw(b, q, row2, m.x)
  <2>1. ASSUME NEW c \in Cta
        PROVE  \/ Staying(row[c], row2[c])
               \/ Advancing(row[c], row2[c]) /\ Kind(row[c].stage) \notin {"o", "down"}
               \/ Resting(c, row[c], row2[c])
               \/ /\ Entering(c, row[c], row2[c])
                  /\ row[c].stage = 0 => Embeds(b, row, row[c].step)
                  /\ row[c].stage = HeadStage - 1 => ~Embeds(b, row, row[c].step + 1)
               \/ Bypassing(c, row[c], row2[c]) /\ Embeds(b, row, row[c].step)
    <3>1. QuietMove(b, row, c, row[c], row2[c])
      OBVIOUS
    <3>2. QED
      BY <3>1 DEF QuietMove
  <2>2. ResidualLaw(b, q, row, m.x)
    BY DEF MemoryLaw
  <2>3. QED
    BY <1>1, <2>1, <2>2, ResidualKept
<1>3. ASSUME NEW kind \in {"qkv", "attention", "gate_up"}, NEW N \in Nat, NEW w,
             \A g \in DenseStage : Kind(g) = kind => Tasks(g) = N,
             WrittenAt(kind, q, row, 0 .. (N - 1), w)
      PROVE  WrittenAt(kind, q, row2, 0 .. (N - 1), w)
  <2>1. ASSUME NEW c \in Cta
        PROVE  WrittenMove(kind, 0 .. (N - 1), c, row[c], row2[c])
    <3>1. QuietMove(b, row, c, row[c], row2[c])
      OBVIOUS
    <3>2. PICK x, y : x = row[c] /\ y = row2[c]
      OBVIOUS
    <3>3. Located(x) /\ Located(y)
      BY <3>2 DEF AllLocated
    <3>4. \/ Staying(x, y)
          \/ Advancing(x, y) /\ Kind(x.stage) # kind
          \/ Resting(c, x, y)
          \/ Entering(c, x, y)
          \/ Bypassing(c, x, y)
      BY <3>1, <3>2 DEF QuietMove
    <3>5. WrittenMove(kind, 0 .. (N - 1), c, x, y)
      BY <1>3, <3>3, <3>4, MoveWritten
    <3>6. QED
      BY <3>2, <3>5
  <2>2. 0 .. (N - 1) \in SUBSET Nat
    OBVIOUS
  <2>3. QED
    BY <1>3, <2>1, <2>2, WrittenKept
<1>4. PartialLaw(q, row2, m.partial)
  BY PartialKept DEF MemoryLaw, PartialStays
<1>5. /\ WrittenAt("qkv", q, row2, 0 .. (QkvTiles - 1), m.qkv)
      /\ WrittenAt("attention", q, row2, 0 .. (KvGroups - 1), m.context)
      /\ WrittenAt("gate_up", q, row2, 0 .. (ActTiles - 1), m.act)
  BY <1>3, WrittenTasks DEF MemoryLaw
<1>6. QED
  BY <1>1, <1>2, <1>4, <1>5 DEF MemoryLaw

AllPlaced(b, q, row) == \A c \in Cta : PlaceLaw(b, q, c, row[c])

\* What a CTA let past a barrier knows of the residual stream.
LEMMA EnterSides ==
    ASSUME NEW b, NEW q, NEW row, AllLocated(row), BarrierLaw(b, row),
           AllPlaced(b, q, row),
           NEW c \in Cta, NEW x, x = row[c], x.at = "wait",
           ~(b.groups /\ Kind(x.stage) = "qkv") =>
              \A e \in Cta : Arr(row[e], x.stage) >= x.step + 1
    PROVE  /\ x.stage = 0 => Embeds(b, row, x.step)
           /\ x.stage = HeadStage - 1 => ~Embeds(b, row, x.step + 1)
<1>1. /\ Located(x) /\ x.step \in Nat /\ x.stage \in Nat /\ 0 \in Cta
      /\ HeadStage \in Nat /\ HeadStage >= 11
  BY DenseConstants, ScoredTypes DEF AllLocated
<1>2. PICK z : z = row[0]
  OBVIOUS
<1>3. /\ Located(z) /\ z.step \in Nat /\ z.stage \in Nat /\ z.task \in Nat
  BY <1>1, <1>2, ScoredTypes DEF AllLocated, Located
<1>4. x.stage = 0 => Embeds(b, row, x.step)
  <2>1. SUFFICES ASSUME x.stage = 0 PROVE Embeds(b, row, x.step)
    OBVIOUS
  <2>2. ~(b.embed /\ x.step # 0)
    BY <2>1 DEF AllPlaced, PlaceLaw
  <2>3. Arr(z, 0) >= x.step + 1
    BY <1>1, <1>2, <2>1, EdgeKinds
  <2>4. z.at = "wait" /\ z.stage = 0 => z.task >= 1
    <3>1. PlaceLaw(b, q, 0, z)
      BY <1>1, <1>2 DEF AllPlaced
    <3>2. Tasks(0) = 1
      BY EdgeKinds, TaskFacts, DenseConstants DEF DenseStage
    <3>3. QED
      BY <3>1, <3>2 DEF PlaceLaw
  <2>5. Ran(z, 0, 0) >= x.step + 1
    BY <1>1, <1>3, <2>3, <2>4 DEF Arr, Ran
  <2>6. QED
    BY <1>2, <2>2, <2>5 DEF Embeds
<1>5. x.stage = HeadStage - 1 => ~Embeds(b, row, x.step + 1)
  <2>1. SUFFICES ASSUME x.stage = HeadStage - 1, Embeds(b, row, x.step + 1) PROVE FALSE
    OBVIOUS
  <2>2. Arr(x, HeadStage) = x.step /\ Scored(x) = x.step
    BY <1>1, <2>1 DEF Arr, Scored
  <2>3. CASE b.embed
    <3>1. Chosen(row, x.step + 1 - 1)
      BY <1>1, <2>1, <2>3 DEF Embeds
    <3>2. x.step + 1 - 1 = x.step
      BY <1>1
    <3>3. Scored(x) >= x.step + 1
      BY <3>1, <3>2 DEF Chosen, HeadPast
    <3>4. QED
      BY <1>1, <2>2, <3>3
  <2>4. CASE ~b.embed
    <3>1. Ran(z, 0, 0) >= x.step + 1 + 1
      BY <1>2, <2>1, <2>4 DEF Embeds
    <3>2. z.step <= x.step
      BY <1>1, <1>2, <2>2, Lag DEF AllLocated
    <3>3. QED
      BY <1>1, <1>3, <3>1, <3>2 DEF Ran
  <2>5. QED
    BY <2>3, <2>4
<1>6. QED
  BY <1>4, <1>5

LEMMA BypassSide ==
    ASSUME NEW b, NEW row, AllLocated(row), BarrierLaw(b, row),
           NEW c \in Cta, NEW x, x = row[c], b.embed, x.step # 0
    PROVE  Embeds(b, row, x.step)
<1>1. x.step \in Nat /\ x.step - 1 \in Nat /\ x.step > x.step - 1
  BY ScoredTypes DEF AllLocated
<1>2. Chosen(row, x.step - 1)
  BY <1>1, ChosenBefore
<1>3. QED
  BY <1>2 DEF Embeds

-----------------------------------------------------------------------------
(***************************************************************************)
(* What the tasks write.                                                   *)
(***************************************************************************)
LEMMA Owner ==
    ASSUME NEW N \in Nat, NEW t \in 0 .. (N - 1)
    PROVE  t \in Nat /\ t % Grid \in Cta
BY SameOwner

LEMMA MemoryCompute ==
    ASSUME NEW b, NEW q, NEW row, NEW row2, AllLocated(row), AllLocated(row2),
           b.embed => SamePast(row, row2), NEW m \in MemorySet, MemoryLaw(b, q, row, m),
           NEW c \in Cta, Moves(row, row2, c), Advancing(row[c], row2[c]),
           NEW u, u = row[c].task, u % Grid = c, u < Tasks(row[c].stage),
           NEW v, v = Value(q, row[c].step, row[c].stage),
           Kind(row[c].stage) \in {"qkv", "attention", "gate_up"},
           NEW m2,
           m2 = CASE Kind(row[c].stage) = "qkv" -> [m EXCEPT !.qkv[u] = v]
                  [] Kind(row[c].stage) = "attention" -> [m EXCEPT !.context[u] = v]
                  [] Kind(row[c].stage) = "gate_up" -> [m EXCEPT !.act[u] = v]
    PROVE  MemoryLaw(b, q, row2, m2)
<1>1. PICK x, y, g : x = row[c] /\ y = row2[c] /\ g = x.stage
  OBVIOUS
<1>2. /\ Located(x) /\ Located(y) /\ g \in DenseStage /\ u \in Nat /\ y.stage = g
      /\ y.step = x.step /\ y.task = x.task + Grid
      /\ \A e \in Cta : Located(row[e]) /\ Located(row2[e])
  BY <1>1 DEF AllLocated, Located, Advancing
<1>3. g # 0 /\ g # HeadStage
  BY <1>1, EdgeKinds
<1>4. SameEmbeds(b, row, row2)
  <2>1. Staying(row[0], row2[0]) \/ (Advancing(row[0], row2[0]) /\ row[0].stage # 0)
    <3>1. CASE c = 0
      BY <1>1, <1>3, <3>1
    <3>2. CASE c # 0
      <4>1. row2[0] = row[0]
        BY <3>2, DenseConstants DEF Moves
      <4>2. QED
        BY <4>1 DEF Staying
    <3>3. QED
      BY <3>1, <3>2
  <2>2. QED
    BY <2>1, EmbedsKept
<1>5. ResidualLaw(b, q, row2, m.x)
  <2>1. ASSUME NEW e \in Cta
        PROVE  \/ Staying(row[e], row2[e])
               \/ Advancing(row[e], row2[e]) /\ Kind(row[e].stage) \notin {"o", "down"}
    <3>1. CASE e = c
      BY <3>1
    <3>2. CASE e # c
      BY <3>2 DEF Moves, Staying
    <3>3. QED
      BY <3>1, <3>2
  <2>2. ResidualLaw(b, q, row, m.x)
    BY DEF MemoryLaw
  <2>3. QED
    BY <1>4, <2>1, <2>2, ResidualKept
<1>6. PartialLaw(q, row2, m.partial)
  <2>1. ASSUME NEW e \in Cta, row2[e].stage = HeadStage
        PROVE  row2[e] = row[e]
    <3>1. e # c
      BY <1>1, <1>2, <1>3, <2>1
    <3>2. QED
      BY <3>1 DEF Moves
  <2>2. ASSUME NEW e \in Cta, row2[e].stage = HeadStage, Scored(row2[e]) = row2[e].step + 1
        PROVE  row[e].stage = HeadStage /\ row2[e].step = row[e].step
               /\ Scored(row[e]) = row[e].step + 1
    BY <2>1, <2>2
  <2>3. PartialLaw(q, row, m.partial)
    BY DEF MemoryLaw
  <2>4. QED
    BY <2>2, <2>3, PartialKept
<1>7. ASSUME NEW kind \in {"qkv", "attention", "gate_up"}, Kind(g) # kind, NEW N \in Nat,
             NEW w, \A h \in DenseStage : Kind(h) = kind => Tasks(h) = N,
             WrittenAt(kind, q, row, 0 .. (N - 1), w)
      PROVE  WrittenAt(kind, q, row2, 0 .. (N - 1), w)
  <2>1. ASSUME NEW e \in Cta
        PROVE  WrittenMove(kind, 0 .. (N - 1), e, row[e], row2[e])
    <3>1. PICK a, z : a = row[e] /\ z = row2[e]
      OBVIOUS
    <3>2. Located(a) /\ Located(z)
      BY <1>2, <3>1
    <3>3. Staying(a, z) \/ (Advancing(a, z) /\ Kind(a.stage) # kind)
      <4>1. CASE e = c
        BY <1>1, <1>7, <3>1, <4>1
      <4>2. CASE e # c
        BY <3>1, <4>2 DEF Moves, Staying
      <4>3. QED
        BY <4>1, <4>2
    <3>4. WrittenMove(kind, 0 .. (N - 1), e, a, z)
      BY <1>7, <3>2, <3>3, MoveWritten
    <3>5. QED
      BY <3>1, <3>4
  <2>2. 0 .. (N - 1) \in SUBSET Nat
    OBVIOUS
  <2>3. QED
    BY <1>7, <2>1, <2>2, WrittenKept
<1>8. ASSUME NEW kind \in {"qkv", "attention", "gate_up"}, Kind(g) = kind, NEW N \in Nat,
             Tasks(g) = N, NEW w \in [0 .. (N - 1) -> Sound], NEW w2, w2 = [w EXCEPT ![u] = v],
             WrittenAt(kind, q, row, 0 .. (N - 1), w)
      PROVE  WrittenAt(kind, q, row2, 0 .. (N - 1), w2)
  <2>1. u \in 0 .. (N - 1)
    BY <1>1, <1>2, <1>8
  <2>2. w2 = [w EXCEPT ![u] = Value(q, row[c].step, row[c].stage)]
    BY <1>8
  <2>3. Kind(row[c].stage) = kind
    BY <1>1, <1>8
  <2>4. QED
    BY <1>8, <2>1, <2>2, <2>3, WrittenStore
<1>9. /\ m.qkv \in [0 .. (QkvTiles - 1) -> Sound] /\ m.context \in [0 .. (KvGroups - 1) -> Sound]
      /\ m.act \in [0 .. (ActTiles - 1) -> Sound]
      /\ m = [x |-> m.x, qkv |-> m.qkv, context |-> m.context, act |-> m.act,
              partial |-> m.partial]
  <2> HIDE DEF Sound
  <2>1. QED
    BY DEF MemorySet
<1>10. /\ WrittenAt("qkv", q, row, 0 .. (QkvTiles - 1), m.qkv)
       /\ WrittenAt("attention", q, row, 0 .. (KvGroups - 1), m.context)
       /\ WrittenAt("gate_up", q, row, 0 .. (ActTiles - 1), m.act)
  BY DEF MemoryLaw
<1>11. /\ Kind(g) = "qkv" => Tasks(g) = QkvTiles
       /\ Kind(g) = "attention" => Tasks(g) = KvGroups
       /\ Kind(g) = "gate_up" => Tasks(g) = ActTiles
  BY <1>2, WrittenTasks
<1>12. CASE Kind(g) = "qkv"
  <2>1. PICK w2 : w2 = [m.qkv EXCEPT ![u] = v]
    OBVIOUS
  <2>2. m2.x = m.x /\ m2.qkv = w2 /\ m2.context = m.context /\ m2.act = m.act
        /\ m2.partial = m.partial
    BY <1>1, <1>9, <1>12, <2>1
  <2>3. WrittenAt("qkv", q, row2, 0 .. (QkvTiles - 1), w2)
    BY <1>8, <1>9, <1>10, <1>11, <1>12, <2>1, WrittenTasks
  <2>4. /\ WrittenAt("attention", q, row2, 0 .. (KvGroups - 1), m.context)
        /\ WrittenAt("gate_up", q, row2, 0 .. (ActTiles - 1), m.act)
    BY <1>7, <1>10, <1>12, WrittenTasks
  <2>5. QED
    BY <1>5, <1>6, <2>2, <2>3, <2>4 DEF MemoryLaw
<1>13. CASE Kind(g) = "attention"
  <2>1. PICK w2 : w2 = [m.context EXCEPT ![u] = v]
    OBVIOUS
  <2>2. m2.x = m.x /\ m2.qkv = m.qkv /\ m2.context = w2 /\ m2.act = m.act
        /\ m2.partial = m.partial
    BY <1>1, <1>9, <1>13, <2>1
  <2>3. WrittenAt("attention", q, row2, 0 .. (KvGroups - 1), w2)
    BY <1>8, <1>9, <1>10, <1>11, <1>13, <2>1, WrittenTasks
  <2>4. /\ WrittenAt("qkv", q, row2, 0 .. (QkvTiles - 1), m.qkv)
        /\ WrittenAt("gate_up", q, row2, 0 .. (ActTiles - 1), m.act)
    BY <1>7, <1>10, <1>13, WrittenTasks
  <2>5. QED
    BY <1>5, <1>6, <2>2, <2>3, <2>4 DEF MemoryLaw
<1>14. CASE Kind(g) = "gate_up"
  <2>1. PICK w2 : w2 = [m.act EXCEPT ![u] = v]
    OBVIOUS
  <2>2. m2.x = m.x /\ m2.qkv = m.qkv /\ m2.context = m.context /\ m2.act = w2
        /\ m2.partial = m.partial
    BY <1>1, <1>9, <1>14, <2>1
  <2>3. WrittenAt("gate_up", q, row2, 0 .. (ActTiles - 1), w2)
    BY <1>8, <1>9, <1>10, <1>11, <1>14, <2>1, WrittenTasks
  <2>4. /\ WrittenAt("qkv", q, row2, 0 .. (QkvTiles - 1), m.qkv)
        /\ WrittenAt("attention", q, row2, 0 .. (KvGroups - 1), m.context)
    BY <1>7, <1>10, <1>14, WrittenTasks
  <2>5. QED
    BY <1>5, <1>6, <2>2, <2>3, <2>4 DEF MemoryLaw
<1>15. QED
  BY <1>1, <1>12, <1>13, <1>14

\* A store to the residual stream or of a partial leaves the rest.
LEMMA MemoryStream ==
    ASSUME NEW b, NEW q, NEW row, NEW row2, AllLocated(row), AllLocated(row2),
           NEW m, MemoryLaw(b, q, row, m), NEW c \in Cta, Moves(row, row2, c),
           Advancing(row[c], row2[c]) \/ Staying(row[c], row2[c]),
           Kind(row[c].stage) \notin {"qkv", "attention", "gate_up"},
           NEW m2, m2.qkv = m.qkv, m2.context = m.context, m2.act = m.act,
           ResidualLaw(b, q, row2, m2.x), PartialLaw(q, row2, m2.partial)
    PROVE  MemoryLaw(b, q, row2, m2)
<1>1. ASSUME NEW kind \in {"qkv", "attention", "gate_up"}, NEW N \in Nat,
             NEW w, \A h \in DenseStage : Kind(h) = kind => Tasks(h) = N,
             WrittenAt(kind, q, row, 0 .. (N - 1), w)
      PROVE  WrittenAt(kind, q, row2, 0 .. (N - 1), w)
  <2>1. ASSUME NEW e \in Cta
        PROVE  WrittenMove(kind, 0 .. (N - 1), e, row[e], row2[e])
    <3>1. PICK a, z : a = row[e] /\ z = row2[e]
      OBVIOUS
    <3>2. Located(a) /\ Located(z)
      BY <3>1 DEF AllLocated
    <3>3. Staying(a, z) \/ (Advancing(a, z) /\ Kind(a.stage) # kind)
      <4>1. CASE e = c
        BY <1>1, <3>1, <4>1
      <4>2. CASE e # c
        BY <3>1, <4>2 DEF Moves, Staying
      <4>3. QED
        BY <4>1, <4>2
    <3>4. WrittenMove(kind, 0 .. (N - 1), e, a, z)
      BY <1>1, <3>2, <3>3, MoveWritten
    <3>5. QED
      BY <3>1, <3>4
  <2>2. 0 .. (N - 1) \in SUBSET Nat
    OBVIOUS
  <2>3. QED
    BY <1>1, <2>1, <2>2, WrittenKept
<1>2. /\ WrittenAt("qkv", q, row, 0 .. (QkvTiles - 1), m.qkv)
      /\ WrittenAt("attention", q, row, 0 .. (KvGroups - 1), m.context)
      /\ WrittenAt("gate_up", q, row, 0 .. (ActTiles - 1), m.act)
  BY DEF MemoryLaw
<1>3. /\ WrittenAt("qkv", q, row2, 0 .. (QkvTiles - 1), m.qkv)
      /\ WrittenAt("attention", q, row2, 0 .. (KvGroups - 1), m.context)
      /\ WrittenAt("gate_up", q, row2, 0 .. (ActTiles - 1), m.act)
  BY <1>1, <1>2, WrittenTasks
<1>4. QED
  BY <1>3 DEF MemoryLaw

\* A partial sum and its residual, into the tile's place.
LEMMA ResidualReduce ==
    ASSUME NEW b, NEW q, NEW row, NEW row2, AllLocated(row), AllLocated(row2),
           b.embed => SamePast(row, row2),
           NEW c \in Cta, Moves(row, row2, c), Advancing(row[c], row2[c]),
           Kind(row[c].stage) \in {"o", "down"},
           NEW u \in 0 .. (XTiles - 1), u = row[c].task, u % Grid = c,
           NEW m, m \in [0 .. (XTiles - 1) -> Sound], ResidualLaw(b, q, row, m),
           NEW m2, m2 = [m EXCEPT ![u] = Value(q, row[c].step, row[c].stage)]
    PROVE  ResidualLaw(b, q, row2, m2)
<1>1. PICK x, y, g : x = row[c] /\ y = row2[c] /\ g = x.stage
  OBVIOUS
<1>2. /\ Located(x) /\ Located(y) /\ g \in DenseStage /\ g \in Nat /\ g <= HeadStage
      /\ u \in Nat /\ y.stage = g
      /\ y.step = x.step /\ y.task = u + Grid /\ x.task = u /\ Grid \in Nat /\ Grid >= 1
  BY <1>1, DenseConstants, StageIsNat DEF AllLocated, Located, Advancing
<1>3. 0 < g /\ g < HeadStage
  <2>1. Kind(g) \in {"o", "down"}
    BY <1>1
  <2>2. g # 0 /\ g # HeadStage
    BY <2>1, EdgeKinds
  <2>3. HeadStage \in Nat
    BY DenseConstants
  <2>4. QED
    BY <1>2, <2>2, <2>3
<1>4. SameEmbeds(b, row, row2)
  <2>1. Staying(row[0], row2[0]) \/ (Advancing(row[0], row2[0]) /\ row[0].stage # 0)
    <3>1. CASE c = 0
      BY <1>1, <1>2, <1>3, <3>1
    <3>2. CASE c # 0
      <4>1. row2[0] = row[0]
        BY <3>2, DenseConstants DEF Moves
      <4>2. QED
        BY <4>1 DEF Staying
    <3>3. QED
      BY <3>1, <3>2
  <2>2. QED
    BY <2>1, EmbedsKept
<1>5. SUFFICES ASSUME NEW t \in 0 .. (XTiles - 1)
               PROVE  Residual(b, q, row2, row2[t % Grid], t, m2[t])
  BY ResidualForm
<1>6. t \in Nat /\ t % Grid \in Cta
  BY Owner, DenseConstants
<1>7. PICK e, a, z : e \in Cta /\ e = t % Grid /\ a = row[e] /\ z = row2[e]
  BY <1>6
<1>8. Located(a) /\ Located(z)
  BY <1>7 DEF AllLocated
<1>9. Residual(b, q, row, a, t, m[t])
  BY <1>7, ResidualForm
<1>10. CASE e # c
  <2>1. z = a /\ t # u
    BY <1>7, <1>10 DEF Moves
  <2>2. m2[t] = m[t] /\ Staying(a, z)
    BY <2>1 DEF Staying
  <2>3. Residual(b, q, row2, z, t, m[t])
    BY <1>4, <1>7, <1>8, <1>9, <2>2, ResidualMove
  <2>4. QED
    BY <1>7, <2>2, <2>3
<1>11. CASE e = c
  <2>1. a = x /\ z = y
    BY <1>1, <1>7, <1>11
  <2>2. Kind(g) \in {"o", "down"}
    BY <1>1
  <2>3. CASE t = u
    <3>1. z.task > t
      BY <1>2, <2>1, <2>3
    <3>2. StreamStage(z, t) = g
      BY <1>2, <2>1, <2>2, <3>1 DEF StreamStage
    <3>3. m2[t] = Value(q, z.step, g)
      BY <1>1, <1>2, <2>1, <2>3
    <3>4. QED
      BY <1>2, <1>3, <1>7, <2>1, <3>2, <3>3 DEF Residual
  <2>4. CASE t # u
    <3>1. m2[t] = m[t]
      BY <2>4
    <3>2. z.task > t <=> a.task > t
      <4>1. t < u + Grid => t <= u
        BY <1>2, <1>6, <1>7, <1>11, SameOwner
      <4>2. CASE t < u + Grid
        <5>1. t <= u
          BY <4>1, <4>2
        <5>2. QED
          BY <1>2, <1>6, <2>1, <2>4, <5>1
      <4>3. CASE ~(t < u + Grid)
        BY <1>2, <1>6, <2>1, <4>3
      <4>4. QED
        BY <4>2, <4>3
    <3>3. StreamStage(z, t) = StreamStage(a, t)
      BY <1>1, <1>2, <2>1, <3>2 DEF StreamStage
    <3>4. m[t] = Value(q, a.step, StreamStage(a, t))
      BY <1>1, <1>3, <1>9, <2>1 DEF Residual
    <3>5. QED
      BY <1>1, <1>2, <1>3, <1>7, <2>1, <3>1, <3>3, <3>4 DEF Residual
  <2>5. QED
    BY <2>3, <2>4
<1>12. QED
  BY <1>10, <1>11

\* The prologue's embedding, while no other CTA is past it.
Embedding(q, p) == Fill(0 .. (XTiles - 1), Value(q, p, 0))
LEMMA ResidualEmbed ==
    ASSUME NEW b, NEW q, NEW row, NEW row2, AllLocated(row), AllLocated(row2),
           BarrierLaw(b, row), Moves(row, row2, 0), Advancing(row[0], row2[0]),
           row[0].stage = 0, row[0].task = 0, row[0].at = "task",
           b.embed => row[0].step = 0,
           NEW m2, m2 = Embedding(q, row[0].step)
    PROVE  ResidualLaw(b, q, row2, m2)
<1>1. PICK x, y, p : x = row[0] /\ y = row2[0] /\ p = x.step
  OBVIOUS
<1>2. /\ 0 \in Cta /\ Located(x) /\ p \in Nat /\ y.stage = 0 /\ y.step = p /\ y.task = Grid
      /\ Grid \in Nat /\ Grid >= 1
  BY <1>1, DenseConstants DEF AllLocated, Located, Advancing
<1>3. Ran(y, 0, 0) >= p + 1
  BY <1>2 DEF Ran
<1>4. Embeds(b, row2, p)
  BY <1>1, <1>3 DEF Embeds
<1>5. Arr(x, 0) = p
  BY <1>1, <1>2 DEF Arr
<1>6. SUFFICES ASSUME NEW t \in 0 .. (XTiles - 1)
               PROVE  Residual(b, q, row2, row2[t % Grid], t, m2[t])
  BY ResidualForm
<1>7. t \in Nat /\ t % Grid \in Cta
  BY Owner, DenseConstants
<1>8. PICK e, a, z : e \in Cta /\ e = t % Grid /\ a = row[e] /\ z = row2[e]
  BY <1>7
<1>9. m2[t] = Value(q, p, 0)
  BY <1>1 DEF Fill, Embedding
<1>10. CASE e = 0
  BY <1>1, <1>2, <1>8, <1>9, <1>10, DenseConstants DEF Residual
<1>11. CASE e # 0
  <2>1. z = a
    BY <1>8, <1>11 DEF Moves
  <2>2. /\ Located(a) /\ a.stage \in Nat /\ a.step \in Nat /\ a.stage <= HeadStage
    BY <1>8, ScoredTypes DEF AllLocated
  <2>3. x.step <= a.step + 1 /\ (x.step = a.step + 1 => a.stage = HeadStage)
    BY <1>1, <1>2, <1>8, Lag DEF AllLocated
  <2>4. (a.step = p /\ a.stage = 0) \/ p = a.step + 1
    <3>1. CASE b.embed
      <4>1. p = 0
        BY <1>1, <3>1
      <4>2. ~(Freed(a, 0) >= 1)
        BY <1>1, <1>2, <1>5, <1>8, <3>1, <4>1 DEF BarrierLaw
      <4>3. QED
        BY <2>2, <4>1, <4>2 DEF Freed
    <3>2. CASE ~b.embed
      <4>1. Meets(b, 0) /\ 0 \in DenseStage
        BY <3>2, EdgeKinds, DenseConstants DEF Meets, DenseStage
      <4>2. Freed(a, 0) <= p
        BY <1>1, <1>2, <1>5, <1>8, <4>1 DEF BarrierLaw
      <4>3. QED
        BY <1>1, <1>2, <2>2, <2>3, <4>2 DEF Freed
    <3>3. QED
      BY <3>1, <3>2
  <2>5. CASE a.step = p /\ a.stage = 0
    BY <1>8, <1>9, <2>1, <2>5, DenseConstants DEF Residual
  <2>6. CASE p = a.step + 1
    <3>1. a.stage = HeadStage
      BY <1>1, <2>3, <2>6
    <3>2. QED
      BY <1>4, <1>8, <1>9, <2>1, <2>6, <3>1, DenseConstants DEF Residual
  <2>7. QED
    BY <2>4, <2>5, <2>6
<1>12. QED
  BY <1>10, <1>11

\* Around the CTA that decides, all others are done with the head's tasks.
LEMMA AroundDeciding ==
    ASSUME NEW b, NEW B, NEW row, AllLocated(row), BarrierLaw(b, row), NEW n,
           HeadLaw(B, row, n), NEW c \in Cta, row[c].at \in Deciding,
           row[c].stage = HeadStage, NEW e \in Cta
    PROVE  row[e].step = row[c].step /\ row[e].stage = HeadStage
           /\ Scored(row[e]) = row[e].step + 1
<1>1. PICK x, a : x = row[c] /\ a = row[e]
  OBVIOUS
<1>2. /\ Located(x) /\ Located(a) /\ x.step \in Nat /\ a.step \in Nat /\ Scored(a) \in Nat
      /\ a.step <= Scored(a) /\ Scored(a) <= a.step + 1 /\ HeadStage \in Nat
  BY <1>1, ScoredTypes, DenseConstants DEF AllLocated
<1>3. Scored(a) >= x.step + 1
  BY <1>1 DEF HeadLaw
<1>4. x.at # "wait"
  BY <1>1 DEF Deciding
<1>5. Arr(x, HeadStage) = x.step
  BY <1>1, <1>2, <1>4 DEF Arr
<1>6. a.step <= x.step
  <2>1. row[e].step <= Arr(row[c], HeadStage)
    BY Lag DEF AllLocated
  <2>2. QED
    BY <1>1, <1>5, <2>1
<1>7. a.step = x.step /\ Scored(a) = a.step + 1
  BY <1>2, <1>3, <1>6
<1>8. a.stage = HeadStage
  BY <1>2, <1>7 DEF Scored
<1>9. QED
  BY <1>1, <1>7, <1>8

\* The next step's embedding, by the CTA that chose its token.
LEMMA ResidualChoose ==
    ASSUME NEW b, NEW q, NEW B, NEW row, NEW row2, AllLocated(row), AllLocated(row2),
           BarrierLaw(b, row), NEW n, HeadLaw(B, row, n), b.embed,
           NEW c \in Cta, Moves(row, row2, c), Staying(row[c], row2[c]),
           row[c].at \in Deciding, row[c].stage = HeadStage,
           Chosen(row2, row[c].step),
           NEW m2, m2 = Fill(0 .. (XTiles - 1), Value(q, row[c].step + 1, 0))
    PROVE  ResidualLaw(b, q, row2, m2)
<1>1. PICK p : p = row[c].step
  OBVIOUS
<1>2. p \in Nat /\ p + 1 \in Nat /\ p + 1 # 0 /\ p + 1 - 1 = p
  BY <1>1, ScoredTypes DEF AllLocated
<1>3. Embeds(b, row2, p + 1)
  BY <1>1, <1>2 DEF Embeds
<1>4. SUFFICES ASSUME NEW t \in 0 .. (XTiles - 1)
               PROVE  Residual(b, q, row2, row2[t % Grid], t, m2[t])
  BY ResidualForm
<1>5. t \in Nat /\ t % Grid \in Cta
  BY Owner, DenseConstants
<1>6. PICK e, a, z : e \in Cta /\ e = t % Grid /\ a = row[e] /\ z = row2[e]
  BY <1>5
<1>7. m2[t] = Value(q, p + 1, 0)
  BY <1>1 DEF Fill
<1>8. a.step = p /\ a.stage = HeadStage
  BY <1>1, <1>6, AroundDeciding
<1>9. z.step = p /\ z.stage = HeadStage
  BY <1>6, <1>8 DEF Moves, Staying
<1>10. Residual(b, q, row2, z, t, m2[t])
  BY <1>3, <1>7, <1>9, DenseConstants DEF Residual
<1>11. QED
  BY <1>6, <1>10

\* A CTA's best of the head, once it has scored its last tile.
HandsIn(q, row2, c, m, m2) ==
    \A e \in Cta : m2[e] = IF e = c THEN Value(q, row2[c].step, HeadStage) ELSE m[e]
LEMMA PartialStore ==
    ASSUME NEW q, NEW row, NEW row2, NEW c \in Cta, Moves(row, row2, c),
           NEW m, PartialLaw(q, row, m), NEW m2, HandsIn(q, row2, c, m, m2)
    PROVE  PartialLaw(q, row2, m2)
<1> SUFFICES ASSUME NEW e \in Cta, row2[e].stage = HeadStage,
                    Scored(row2[e]) = row2[e].step + 1
             PROVE  m2[e] = Value(q, row2[e].step, HeadStage)
  BY DEF PartialLaw
<1>1. CASE e = c
  BY <1>1 DEF HandsIn
<1>2. CASE e # c
  <2>1. row2[e] = row[e]
    BY <1>2 DEF Moves
  <2>2. m[e] = Value(q, row2[e].step, HeadStage)
    BY <2>1 DEF PartialLaw
  <2>3. QED
    BY <1>2, <2>2 DEF HandsIn
<1>3. QED
  BY <1>1, <1>2

-----------------------------------------------------------------------------
(***************************************************************************)
(* What the tasks read.                                                    *)
(***************************************************************************)
\* A CTA at a stage, and one that has arrived at the end of the stage before.
LEMMA Beside ==
    ASSUME NEW b, NEW row, AllLocated(row), BarrierLaw(b, row),
           NEW c \in Cta, NEW e \in Cta, row[c].at # "wait", row[c].stage >= 1,
           NEW h \in DenseStage, h >= row[c].stage, Meets(b, h),
           Arr(row[e], row[c].stage - 1) >= row[c].step + 1
    PROVE  /\ row[e].step = row[c].step
           /\ row[c].stage - 1 <= row[e].stage /\ row[e].stage <= h
           /\ row[e].stage = row[c].stage - 1 => row[e].at = "wait"
<1>1. PICK x, a : x = row[c] /\ a = row[e]
  OBVIOUS
<1>2. /\ Located(x) /\ Located(a) /\ x.step \in Nat /\ a.step \in Nat /\ x.stage \in Nat
      /\ a.stage \in Nat /\ h \in Nat
  BY <1>1, ScoredTypes, StageIsNat DEF AllLocated
<1>3. Freed(a, h) <= Arr(x, h)
  BY <1>1 DEF BarrierLaw
<1>4. Arr(x, h) = x.step
  BY <1>1, <1>2 DEF Arr
<1>5. a.step <= x.step /\ ~(a.step = x.step /\ a.stage > h)
  BY <1>2, <1>3, <1>4 DEF Freed
<1>6. Arr(a, x.stage - 1) >= x.step + 1
  BY <1>1
<1>7. /\ a.step = x.step
      /\ a.stage > x.stage - 1 \/ (a.stage = x.stage - 1 /\ a.at = "wait")
  BY <1>1, <1>2, <1>5, <1>6 DEF Arr
<1>8. QED
  BY <1>1, <1>2, <1>5, <1>7

\* Who stands after a stage with a barrier of its own was waited for by all.
LEMMA ArrivedBefore ==
    ASSUME NEW b, NEW row, AllLocated(row), BarrierLaw(b, row),
           NEW c \in Cta, NEW e \in Cta, row[c].stage >= 1,
           Meets(b, row[c].stage - 1)
    PROVE  Arr(row[e], row[c].stage - 1) >= row[c].step + 1
<1>1. PICK x, g : x = row[c] /\ g = x.stage - 1
  OBVIOUS
<1>2. Located(x) /\ x.stage \in Nat /\ g \in Nat /\ g \in DenseStage /\ x.step \in Nat
  BY <1>1, ScoredTypes, DenseConstants DEF AllLocated, DenseStage
<1>3. Freed(x, g) = x.step + 1
  BY <1>1, <1>2 DEF Freed
<1>4. Freed(x, g) <= Arr(row[e], g)
  BY <1>1, <1>2 DEF BarrierLaw
<1>5. Arr(row[e], g) \in Nat
  BY <1>2, ProgressTypes DEF AllLocated
<1>6. QED
  BY <1>1, <1>2, <1>3, <1>4, <1>5

KindTasks(kind, N) == \A g \in DenseStage : Kind(g) = kind => Tasks(g) = N

LEMMA WrittenRead ==
    ASSUME NEW b, NEW q, NEW row, AllLocated(row), BarrierLaw(b, row),
           AllPlaced(b, q, row),
           NEW kind, NEW N \in Nat, KindTasks(kind, N),
           NEW w, WrittenAt(kind, q, row, 0 .. (N - 1), w),
           NEW c \in Cta, row[c].at # "wait", row[c].stage >= 1,
           Kind(row[c].stage - 1) = kind, Meets(b, row[c].stage),
           NEW t \in 0 .. (N - 1),
           Arr(row[t % Grid], row[c].stage - 1) >= row[c].step + 1
    PROVE  w[t] = Value(q, row[c].step, row[c].stage - 1)
<1>1. t \in Nat /\ t % Grid \in Cta
  BY Owner
<1>2. PICK x, e, a : x = row[c] /\ e = t % Grid /\ a = row[e] /\ e \in Cta
  BY <1>1
<1>3. /\ Located(x) /\ Located(a) /\ x.stage \in Nat /\ a.stage \in Nat /\ x.stage \in DenseStage
      /\ a.task \in Nat /\ x.stage - 1 \in DenseStage
  <2>1. /\ Located(x) /\ Located(a) /\ x.stage \in Nat /\ a.stage \in Nat
        /\ x.stage \in DenseStage /\ a.task \in Nat /\ x.stage <= HeadStage /\ x.stage >= 1
    BY <1>2, ScoredTypes DEF AllLocated, Located
  <2>2. x.stage - 1 \in DenseStage
    BY <2>1, DenseConstants DEF DenseStage
  <2>3. QED
    BY <2>1, <2>2
<1>4. /\ a.step = x.step /\ x.stage - 1 <= a.stage /\ a.stage <= x.stage
      /\ a.stage = x.stage - 1 => a.at = "wait"
  <2>1. x.stage >= x.stage
    BY <1>3
  <2>2. QED
    BY <1>2, <1>3, <2>1, Beside
<1>5. CASE a.stage = x.stage
  BY <1>2, <1>4, <1>5 DEF WrittenAt
<1>6. CASE a.stage = x.stage - 1
  <2>1. PlaceLaw(b, q, e, a)
    BY <1>2 DEF AllPlaced
  <2>2. a.task >= Tasks(a.stage)
    BY <1>4, <1>6, <2>1 DEF PlaceLaw
  <2>3. Tasks(a.stage) = N
    BY <1>2, <1>3, <1>6 DEF KindTasks
  <2>4. a.task > t
    BY <1>1, <1>3, <2>2, <2>3
  <2>5. QED
    BY <1>2, <1>4, <1>6, <2>4 DEF WrittenAt
<1>7. QED
  BY <1>3, <1>4, <1>5, <1>6

LEMMA ResidualRead ==
    ASSUME NEW b, NEW q, NEW row, AllLocated(row), BarrierLaw(b, row),
           AllPlaced(b, q, row),
           NEW m, ResidualLaw(b, q, row, m),
           NEW c \in Cta, row[c].at = "task", Kind(row[c].stage) \in {"qkv", "gate_up", "head"},
           NEW t \in 0 .. (XTiles - 1)
    PROVE  m[t] = Value(q, row[c].step, row[c].stage - 1)
<1>1. t \in Nat /\ t % Grid \in Cta
  BY Owner, DenseConstants
<1>2. PICK x, e, a, g, p : x = row[c] /\ e = t % Grid /\ a = row[e] /\ e \in Cta
                           /\ g = x.stage /\ p = x.step
  BY <1>1
<1>3. /\ Located(x) /\ Located(a) /\ g \in Nat /\ g \in DenseStage /\ a.stage \in Nat
      /\ a.stage \in DenseStage /\ a.task \in Nat /\ p \in Nat /\ a.step \in Nat
      /\ g <= HeadStage /\ a.stage <= HeadStage /\ HeadStage \in Nat /\ HeadStage >= 11
      /\ HeadStage \in DenseStage
  BY <1>2, ScoredTypes, DenseConstants DEF AllLocated, Located
<1>4. Residual(b, q, row, a, t, m[t])
  BY <1>2, ResidualForm
<1>5. Kind(g) \in {"qkv", "gate_up", "head"}
  BY <1>2
<1>6. g >= 1 /\ g - 1 \in Nat /\ g - 1 \in DenseStage
  <2>1. g # 0
    BY <1>5, EdgeKinds
  <2>2. QED
    BY <1>3, <2>1 DEF DenseStage
<1>7. PICK f \in DenseStage : f = g - 1
  BY <1>6
<1>8. a.stage = f /\ a.at = "wait" /\ Kind(f) \in {"o", "down"} =>
         StreamStage(a, t) = f
  <2>1. SUFFICES ASSUME a.stage = f, a.at = "wait", Kind(f) \in {"o", "down"}
                 PROVE  StreamStage(a, t) = f
    OBVIOUS
  <2>2. PlaceLaw(b, q, e, a)
    BY <1>2 DEF AllPlaced
  <2>3. a.task >= XTiles
    BY <1>3, <2>1, <2>2, TaskFacts DEF PlaceLaw
  <2>4. a.task > t
    BY <1>1, <1>3, <2>3, DenseConstants
  <2>5. QED
    BY <2>1, <2>4 DEF StreamStage
<1>9. 0 < a.stage /\ a.stage < HeadStage /\ a.step = p /\ StreamStage(a, t) = f =>
         m[t] = Value(q, p, f)
  BY <1>3, <1>4 DEF Residual
<1>10. CASE Kind(g) = "gate_up"
  <2>1. Kind(f) = "o" /\ g >= 4 /\ g + 1 < HeadStage
    BY <1>3, <1>7, <1>10, KindFacts
  <2>2. Meets(b, f) /\ Meets(b, g)
    BY <1>6, <1>7, <1>10, <2>1, EdgeKinds DEF Meets
  <2>3. Arr(a, f) >= p + 1
    BY <1>2, <1>6, <1>7, <2>2, ArrivedBefore
  <2>4. /\ a.step = p /\ f <= a.stage /\ a.stage <= g
        /\ a.stage = f => a.at = "wait"
    <3>1. x.stage >= 1 /\ x.stage - 1 = f /\ x.at # "wait" /\ g >= x.stage
      BY <1>2, <1>3, <1>6, <1>7
    <3>2. QED
      BY <1>2, <1>3, <2>2, <2>3, <3>1, Beside
  <2>5. StreamStage(a, t) = f
    <3>1. CASE a.stage = f
      BY <1>8, <2>1, <2>4, <3>1
    <3>2. CASE a.stage = g
      BY <1>7, <1>10, <3>2 DEF StreamStage
    <3>3. QED
      BY <1>3, <1>7, <2>4, <3>1, <3>2
  <2>6. 0 < a.stage /\ a.stage < HeadStage
    BY <1>3, <1>7, <2>1, <2>4
  <2>7. QED
    BY <1>2, <1>7, <1>9, <2>4, <2>5, <2>6
<1>11. CASE Kind(g) = "head"
  <2>1. Kind(f) = "down" /\ g = HeadStage
    BY <1>3, <1>7, <1>11, KindFacts
  <2>2. Meets(b, f) /\ Meets(b, g)
    BY <1>6, <1>7, <1>11, <2>1, EdgeKinds DEF Meets
  <2>3. Arr(a, f) >= p + 1
    BY <1>2, <1>6, <1>7, <2>2, ArrivedBefore
  <2>4. /\ a.step = p /\ f <= a.stage /\ a.stage <= g
        /\ a.stage = f => a.at = "wait"
    <3>1. x.stage >= 1 /\ x.stage - 1 = f /\ x.at # "wait" /\ g >= x.stage
      BY <1>2, <1>3, <1>6, <1>7
    <3>2. QED
      BY <1>2, <1>3, <2>2, <2>3, <3>1, Beside
  <2>5. CASE a.stage = f
    <3>1. StreamStage(a, t) = f
      BY <1>8, <2>1, <2>4, <2>5
    <3>2. 0 < a.stage /\ a.stage < HeadStage
      BY <1>3, <1>7, <2>1, <2>5
    <3>3. QED
      BY <1>2, <1>7, <1>9, <2>4, <3>1, <3>2
  <2>6. CASE a.stage = g
    <3>1. Scored(x) = p /\ Arr(x, HeadStage) = p
      BY <1>2, <1>3, <2>1 DEF Scored, Arr, Deciding
    <3>2. ~Embeds(b, row, p + 1)
      <4>1. SUFFICES ASSUME Embeds(b, row, p + 1) PROVE FALSE
        OBVIOUS
      <4>2. CASE b.embed
        <5>1. Chosen(row, p + 1 - 1) /\ p + 1 - 1 = p
          BY <1>3, <4>1, <4>2 DEF Embeds
        <5>2. Scored(x) >= p + 1
          BY <1>2, <5>1 DEF Chosen, HeadPast
        <5>3. QED
          BY <1>3, <3>1, <5>2
      <4>3. CASE ~b.embed
        <5>1. PICK z : z = row[0]
          OBVIOUS
        <5>2. Located(z) /\ z.step \in Nat
          BY <5>1, DenseConstants, ScoredTypes DEF AllLocated
        <5>3. Ran(z, 0, 0) >= p + 1 + 1
          BY <4>1, <4>3, <5>1 DEF Embeds
        <5>4. z.step <= p
          BY <1>2, <3>1, <5>1, Lag, DenseConstants DEF AllLocated
        <5>5. QED
          BY <1>3, <5>2, <5>3, <5>4 DEF Ran
      <4>4. QED
        BY <4>2, <4>3
    <3>3. m[t] = Value(q, p, HeadStage - 1)
      BY <1>4, <2>1, <2>4, <2>6, <3>2 DEF Residual
    <3>4. QED
      BY <1>2, <2>1, <3>3
  <2>7. QED
    BY <1>3, <1>7, <2>4, <2>5, <2>6
<1>12. CASE Kind(g) = "qkv"
  <2>1. g + 4 < HeadStage /\ Kind(g + 1) = "attention" /\ Kind(f) \in {"embed", "down"}
    BY <1>3, <1>7, <1>12, KindFacts
  <2>2. PICK h \in DenseStage : h = g + 1
    BY <1>3, <2>1 DEF DenseStage
  <2>3. Meets(b, h) /\ Kind(h) = "attention" /\ h >= x.stage
    BY <1>2, <1>3, <2>1, <2>2, EdgeKinds DEF Meets
  <2>4. (StreamStage(a, t) = f /\ 0 < a.stage /\ a.stage < HeadStage)
        \/ ~(a.stage = g \/ a.stage = h)
    BY <1>3, <1>6, <1>7, <1>12, <2>1, <2>2, <2>3 DEF StreamStage
  <2>5. ASSUME Arr(a, f) >= p + 1
        PROVE  /\ a.step = p /\ f <= a.stage /\ a.stage <= h
               /\ a.stage = f => a.at = "wait"
    <3>1. x.stage >= 1 /\ x.stage - 1 = f /\ x.at # "wait"
      BY <1>2, <1>6, <1>7
    <3>2. QED
      BY <1>2, <2>3, <2>5, <3>1, Beside
  <2>6. CASE Kind(f) = "down"
    <3>1. Meets(b, f)
      BY <2>6, EdgeKinds DEF Meets
    <3>2. Arr(a, f) >= p + 1
      BY <1>2, <1>6, <1>7, <3>1, ArrivedBefore
    <3>3. f # 0
      BY <2>6, EdgeKinds
    <3>4. StreamStage(a, t) = f /\ 0 < a.stage /\ a.stage < HeadStage
      <4>1. CASE a.stage = f
        BY <1>3, <1>6, <1>7, <1>8, <2>1, <2>5, <2>6, <3>2, <3>3, <4>1
      <4>2. CASE a.stage # f
        BY <1>3, <1>6, <1>7, <2>2, <2>4, <2>5, <3>2, <4>2
      <4>3. QED
        BY <4>1, <4>2
    <3>5. QED
      BY <1>2, <1>7, <1>9, <2>5, <3>2, <3>4
  <2>7. CASE Kind(f) = "embed"
    <3>1. f = 0 /\ g = 1
      BY <1>3, <1>7, <2>7, KindFacts
    <3>2. CASE ~(b.embed /\ p # 0)
      <4>1. \A d \in Cta : Arr(row[d], 0) >= p + 1
        <5>1. TAKE d \in Cta
        <5>2. CASE b.embed
          <6>1. Freed(x, 0) >= 1 /\ p = 0
            BY <1>2, <1>3, <3>1, <3>2, <5>2 DEF Freed
          <6>2. Arr(row[d], 0) >= 1
            BY <1>2, <5>2, <6>1 DEF BarrierLaw
          <6>3. QED
            BY <6>1, <6>2
        <5>3. CASE ~b.embed
          <6>1. Meets(b, f)
            BY <2>7, <5>3 DEF Meets
          <6>2. Arr(row[d], f) >= p + 1
            BY <1>2, <1>6, <1>7, <6>1, ArrivedBefore
          <6>3. QED
            BY <3>1, <6>2
        <5>4. QED
          BY <5>2, <5>3
      <4>2. Embeds(b, row, p)
        <5>1. PICK z : z = row[0]
          OBVIOUS
        <5>2. /\ Located(z) /\ z.step \in Nat /\ z.stage \in Nat /\ z.task \in Nat
              /\ PlaceLaw(b, q, 0, z)
          BY <5>1, DenseConstants, ScoredTypes DEF AllPlaced, AllLocated, Located
        <5>3. Arr(z, 0) >= p + 1
          BY <4>1, <5>1, DenseConstants
        <5>4. z.at = "wait" /\ z.stage = 0 => z.task >= 1
          <6>1. Tasks(0) = 1
            BY EdgeKinds, TaskFacts, <3>1
          <6>2. QED
            BY <5>2, <6>1 DEF PlaceLaw
        <5>5. Ran(z, 0, 0) >= p + 1
          BY <1>3, <5>2, <5>3, <5>4 DEF Arr, Ran
        <5>6. QED
          BY <3>2, <5>1, <5>5 DEF Embeds
      <4>3. Arr(a, f) >= p + 1
        BY <1>2, <3>1, <4>1
      <4>4. CASE a.stage = 0
        BY <1>2, <1>4, <1>7, <2>5, <3>1, <4>2, <4>3, <4>4 DEF Residual
      <4>5. CASE a.stage # 0
        <5>1. StreamStage(a, t) = f /\ 0 < a.stage /\ a.stage < HeadStage
          BY <1>3, <2>2, <2>4, <2>5, <3>1, <4>3, <4>5
        <5>2. QED
          BY <1>2, <1>7, <1>9, <2>5, <4>3, <5>1
      <4>6. QED
        BY <4>4, <4>5
    <3>3. CASE b.embed /\ p # 0
      <4>1. Embeds(b, row, p)
        BY <1>2, <3>3, BypassSide
      <4>2. p <= a.step + 1 /\ (p = a.step + 1 => a.stage = HeadStage)
        BY <1>2, Lag DEF AllLocated
      <4>3. a.step <= p /\ ~(a.step = p /\ a.stage > h)
        <5>1. Freed(a, h) <= Arr(x, h)
          BY <1>2, <2>3 DEF BarrierLaw
        <5>2. Arr(x, h) = p
          BY <1>2, <1>3, <2>2 DEF Arr
        <5>3. QED
          BY <1>3, <2>2, <5>1, <5>2 DEF Freed
      <4>4. CASE a.step = p
        <5>1. CASE a.stage = 0
          BY <1>2, <1>4, <1>7, <3>1, <4>1, <4>4, <5>1 DEF Residual
        <5>2. CASE a.stage # 0
          <6>1. StreamStage(a, t) = f /\ 0 < a.stage /\ a.stage < HeadStage
            BY <1>3, <2>2, <2>4, <3>1, <4>3, <4>4, <5>2
          <6>2. QED
            BY <1>2, <1>7, <1>9, <4>4, <6>1
        <5>3. QED
          BY <5>1, <5>2
      <4>5. CASE p = a.step + 1
        <5>1. a.stage = HeadStage /\ Embeds(b, row, a.step + 1)
          BY <4>1, <4>2, <4>5
        <5>2. m[t] = Value(q, p, 0)
          BY <1>3, <1>4, <4>5, <5>1 DEF Residual
        <5>3. QED
          BY <1>2, <1>7, <3>1, <5>2
      <4>6. QED
        BY <1>3, <4>2, <4>3, <4>4, <4>5
    <3>4. QED
      BY <3>2, <3>3
  <2>8. QED
    BY <2>1, <2>6, <2>7
<1>13. QED
  BY <1>5, <1>10, <1>11, <1>12

\* What a task at stage g of position p finds in memory m is of the stage before.
Reads(m, kind, t) ==
    CASE kind \in {"qkv", "gate_up", "head"} -> {m.x[i] : i \in DOMAIN m.x}
      [] kind = "attention" -> {m.qkv[i] : i \in {j \in DOMAIN m.qkv : GroupOf(j) = t}}
      [] kind = "o" -> {m.context[i] : i \in DOMAIN m.context}
      [] kind = "down" -> {m.act[i] : i \in DOMAIN m.act}

LEMMA MemoryParts ==
    ASSUME NEW m \in MemorySet
    PROVE  /\ m.x \in [0 .. (XTiles - 1) -> Sound]
           /\ m.qkv \in [0 .. (QkvTiles - 1) -> Sound]
           /\ m.context \in [0 .. (KvGroups - 1) -> Sound]
           /\ m.act \in [0 .. (ActTiles - 1) -> Sound]
           /\ m.partial \in [Cta -> Sound]
           /\ m = [x |-> m.x, qkv |-> m.qkv, context |-> m.context, act |-> m.act,
                   partial |-> m.partial]
BY DEF MemorySet

LEMMA ReadsCurrent ==
    ASSUME NEW b, NEW q, NEW row, AllLocated(row), BarrierLaw(b, row), GroupFree(b, row),
           AllPlaced(b, q, row),
           NEW m \in MemorySet, MemoryLaw(b, q, row, m),
           NEW c \in Cta, row[c].at = "task", row[c].stage >= 1,
           row[c].task < Tasks(row[c].stage)
    PROVE  Reads(m, Kind(row[c].stage), row[c].task) =
               {Value(q, row[c].step, row[c].stage - 1)}
<1>1. PICK x, g, p, v, f : x = row[c] /\ g = x.stage /\ p = x.step /\ f = g - 1
                           /\ v = Value(q, p, f)
  OBVIOUS
<1>2. /\ Located(x) /\ g \in DenseStage /\ g \in Nat /\ g <= HeadStage /\ x.task \in Nat
      /\ HeadStage \in Nat /\ x.at # "wait"
  BY <1>1, ScoredTypes, DenseConstants DEF AllLocated, Located
<1>3. g >= 1 /\ f \in Nat /\ f \in DenseStage
  BY <1>1, <1>2 DEF DenseStage
<1>4. Kind(g) \in Kinds \ {"embed"}
  <2>1. Kind(g) \in Kinds /\ (Kind(g) = "embed" <=> g = 0)
    BY <1>2, KindFacts
  <2>2. QED
    BY <1>3, <2>1
<1>5. CASE Kind(g) \in {"qkv", "gate_up", "head"}
  <2>1. PICK w \in [0 .. (XTiles - 1) -> Sound] : w = m.x
    BY MemoryParts
  <2>2. ASSUME NEW t \in 0 .. (XTiles - 1) PROVE w[t] = v
    <3>1. ResidualLaw(b, q, row, m.x)
      BY DEF MemoryLaw
    <3>2. row[c].at = "task" /\ Kind(row[c].stage) \in {"qkv", "gate_up", "head"}
      BY <1>1, <1>5
    <3>3. m.x[t] = Value(q, row[c].step, row[c].stage - 1)
      BY <3>1, <3>2, ResidualRead
    <3>4. QED
      BY <1>1, <2>1, <3>3
  <2>3. {w[i] : i \in DOMAIN w} = {v}
    <3>1. 0 \in 0 .. (XTiles - 1)
      BY DenseConstants
    <3>2. QED
      BY <2>1, <2>2, <3>1
  <2>4. Reads(m, Kind(g), x.task) = {w[i] : i \in DOMAIN w}
    BY <1>5, <2>1 DEF Reads
  <2>5. QED
    BY <1>1, <2>3, <2>4
<1>6. ASSUME NEW kind, NEW N \in Nat, KindTasks(kind, N),
             NEW w, WrittenAt(kind, q, row, 0 .. (N - 1), w), Kind(f) = kind,
             Meets(b, g), NEW t \in 0 .. (N - 1), Arr(row[t % Grid], f) >= p + 1
      PROVE  w[t] = v
  <2>1. /\ row[c].at # "wait" /\ row[c].stage >= 1 /\ Kind(row[c].stage - 1) = kind
        /\ Meets(b, row[c].stage) /\ Arr(row[t % Grid], row[c].stage - 1) >= row[c].step + 1
    BY <1>1, <1>2, <1>3, <1>6
  <2>2. w[t] = Value(q, row[c].step, row[c].stage - 1)
    BY <1>6, <2>1, WrittenRead
  <2>3. QED
    BY <1>1, <2>2
<1>7. ASSUME Meets(b, f), NEW e \in Cta
      PROVE  Arr(row[e], f) >= p + 1
  <2>1. Meets(b, row[c].stage - 1) /\ row[c].stage >= 1
    BY <1>1, <1>7
  <2>2. Arr(row[e], row[c].stage - 1) >= row[c].step + 1
    BY <2>1, ArrivedBefore
  <2>3. QED
    BY <1>1, <2>2
<1>8. CASE Kind(g) = "o"
  <2>1. Kind(f) = "attention" /\ Meets(b, f) /\ Meets(b, g)
    BY <1>1, <1>2, <1>3, <1>8, KindFacts, EdgeKinds DEF Meets
  <2>2. PICK w \in [0 .. (KvGroups - 1) -> Sound] : w = m.context
    BY MemoryParts
  <2>3. ASSUME NEW t \in 0 .. (KvGroups - 1) PROVE w[t] = v
    <3>1. WrittenAt("attention", q, row, 0 .. (KvGroups - 1), w)
      BY <2>2 DEF MemoryLaw
    <3>2. t % Grid \in Cta
      BY Owner, DenseConstants
    <3>3. Arr(row[t % Grid], f) >= p + 1
      BY <1>7, <2>1, <3>2
    <3>4. KvGroups \in Nat /\ KindTasks("attention", KvGroups)
      BY WrittenTasks DEF KindTasks
    <3>5. QED
      BY <1>6, <2>1, <3>1, <3>3, <3>4
  <2>4. {w[i] : i \in DOMAIN w} = {v}
    <3>1. 0 \in 0 .. (KvGroups - 1)
      BY DenseConstants
    <3>2. QED
      BY <2>2, <2>3, <3>1
  <2>5. Reads(m, Kind(g), x.task) = {w[i] : i \in DOMAIN w}
    BY <1>8, <2>2 DEF Reads
  <2>6. QED
    BY <1>1, <2>4, <2>5
<1>9. CASE Kind(g) = "down"
  <2>1. Kind(f) = "gate_up" /\ Meets(b, f) /\ Meets(b, g)
    BY <1>1, <1>2, <1>3, <1>9, KindFacts, EdgeKinds DEF Meets
  <2>2. PICK w \in [0 .. (ActTiles - 1) -> Sound] : w = m.act
    BY MemoryParts
  <2>3. ASSUME NEW t \in 0 .. (ActTiles - 1) PROVE w[t] = v
    <3>1. WrittenAt("gate_up", q, row, 0 .. (ActTiles - 1), w)
      BY <2>2 DEF MemoryLaw
    <3>2. t % Grid \in Cta
      BY Owner, DenseConstants
    <3>3. Arr(row[t % Grid], f) >= p + 1
      BY <1>7, <2>1, <3>2
    <3>4. ActTiles \in Nat /\ KindTasks("gate_up", ActTiles)
      BY WrittenTasks DEF KindTasks
    <3>5. QED
      BY <1>6, <2>1, <3>1, <3>3, <3>4
  <2>4. {w[i] : i \in DOMAIN w} = {v}
    <3>1. 0 \in 0 .. (ActTiles - 1)
      BY DenseConstants
    <3>2. QED
      BY <2>2, <2>3, <3>1
  <2>5. Reads(m, Kind(g), x.task) = {w[i] : i \in DOMAIN w}
    BY <1>9, <2>2 DEF Reads
  <2>6. QED
    BY <1>1, <2>4, <2>5
<1>10. CASE Kind(g) = "attention"
  <2>1. Kind(f) = "qkv" /\ Meets(b, g)
    BY <1>1, <1>2, <1>3, <1>10, KindFacts, EdgeKinds DEF Meets
  <2>2. PICK w, k : w \in [0 .. (QkvTiles - 1) -> Sound] /\ w = m.qkv /\ k = x.task
    BY MemoryParts
  <2>3. k \in 0 .. (KvGroups - 1) /\ k % Grid = c
    <3>1. Tasks(g) = KvGroups
      BY <1>2, <1>10, TaskFacts
    <3>2. x.task % Grid = c
      <4>1. PlaceLaw(b, q, c, x)
        BY <1>1 DEF AllPlaced
      <4>2. x.at \notin Idle
        BY <1>1 DEF Idle
      <4>3. QED
        BY <4>1, <4>2 DEF PlaceLaw
    <3>3. QED
      BY <1>1, <1>2, <2>2, <3>1, <3>2, DenseConstants
  <2>4. ASSUME NEW t \in 0 .. (QkvTiles - 1), GroupOf(t) = k PROVE w[t] = v
    <3>1. WrittenAt("qkv", q, row, 0 .. (QkvTiles - 1), w)
      BY <2>2 DEF MemoryLaw
    <3>2. t % Grid \in Cta
      BY Owner, DenseConstants
    <3>3. Arr(row[t % Grid], f) >= p + 1
      <4>1. CASE b.groups
        BY <1>1, <1>10, <2>3, <2>4, <4>1 DEF GroupFree
      <4>2. CASE ~b.groups
        <5>1. Meets(b, f)
          BY <1>3, <2>1, <4>2, EdgeKinds DEF Meets
        <5>2. QED
          BY <1>7, <3>2, <5>1
      <4>3. QED
        BY <4>1, <4>2
    <3>4. QkvTiles \in Nat /\ KindTasks("qkv", QkvTiles)
      BY WrittenTasks DEF KindTasks
    <3>5. QED
      BY <1>6, <2>1, <3>1, <3>3, <3>4
  <2>5. {w[i] : i \in {j \in DOMAIN w : GroupOf(j) = k}} = {v}
    <3>1. PICK s : s \in 0 .. (QkvTiles - 1) /\ GroupOf(s) = k
      <4>1. k * GroupTiles \in TilesOf(k)
        BY <2>3, GroupTilesFacts
      <4>2. QED
        BY <4>1 DEF TilesOf
    <3>2. s \in {j \in DOMAIN w : GroupOf(j) = k}
      BY <2>2, <3>1
    <3>3. \A i \in {j \in DOMAIN w : GroupOf(j) = k} : w[i] = v
      BY <2>2, <2>4
    <3>4. QED
      BY <3>2, <3>3
  <2>6. Reads(m, Kind(g), x.task) = {w[i] : i \in {j \in DOMAIN w : GroupOf(j) = k}}
    BY <1>10, <2>2 DEF Reads
  <2>7. QED
    BY <1>1, <2>5, <2>6
<1>11. QED
  BY <1>4, <1>5, <1>8, <1>9, <1>10 DEF Kinds

-----------------------------------------------------------------------------
(***************************************************************************)
(* The packets a CTA has sent, and the head's words across the ranks.      *)
(***************************************************************************)
LEMMA SentMove ==
    ASSUME NEW c \in Cta, NEW x, NEW y, Located(x), Located(y),
           x.at = "reduce" => Reduces(x.stage) /\ x.task % Grid = c,
           \/ Staying(x, y) /\ (y.at = "reduce" <=> x.at = "reduce")
           \/ Advancing(x, y) /\ ~Reduces(x.stage) /\ y.at # "reduce" /\ x.at # "reduce"
           \/ Advancing(x, y) /\ x.at = "reduce" /\ y.at # "reduce"
           \/ Resting(c, x, y)
           \/ Entering(c, x, y) /\ y.at # "reduce"
           \/ Bypassing(c, x, y),
           NEW g \in DenseStage, Reduces(g), NEW t \in 0 .. (XTiles - 1), t % Grid = c
    PROVE  Sent(y, g, t) = Sent(x, g, t)
<1>1. c <= t /\ c \in Nat /\ t \in Nat
  <2>1. t \in Nat
    BY DenseConstants
  <2>2. QED
    BY <2>1, OwnFloor
<1>2. /\ x.stage \in Nat /\ x.stage <= HeadStage /\ y.stage \in Nat /\ y.stage <= HeadStage
      /\ x.task \in Nat /\ y.task \in Nat /\ x.stage \in DenseStage /\ y.stage \in DenseStage
      /\ x.step \in Nat /\ y.step \in Nat /\ Grid \in Nat /\ Grid >= 1
  BY ScoredTypes, DenseConstants DEF Located
<1>3. g \in Nat /\ 1 <= g /\ g < HeadStage /\ Tasks(g) = XTiles
  <2>1. Kind(g) \in {"o", "down"} /\ Tasks(g) = XTiles
    BY TaskFacts
  <2>2. g \in Nat /\ HeadStage \in Nat
    BY DenseConstants, StageIsNat
  <2>3. Kind(g) = "o" => g >= 3 /\ g + 2 < HeadStage
    BY KindFacts
  <2>4. Kind(g) = "down" => g >= 5 /\ g < HeadStage
    BY KindFacts
  <2>5. QED
    BY <2>1, <2>2, <2>3, <2>4
<1>4. CASE Staying(x, y) /\ (y.at = "reduce" <=> x.at = "reduce")
  BY <1>4 DEF Staying, Sent
<1>5. CASE Advancing(x, y) /\ ~Reduces(x.stage) /\ y.at # "reduce" /\ x.at # "reduce"
  <2>1. x.stage # g
    BY <1>5
  <2>2. QED
    BY <1>2, <1>3, <1>5, <2>1 DEF Advancing, Sent
<1>6. CASE Advancing(x, y) /\ x.at = "reduce" /\ y.at # "reduce"
  <2>1. y.stage = x.stage /\ y.step = x.step /\ y.task = x.task + Grid
    BY <1>6 DEF Advancing
  <2>2. y.task > t <=> x.task > t \/ x.task = t
    <3>1. t < x.task + Grid => t <= x.task
      BY <1>1, <1>2, <1>6, SameOwner
    <3>2. CASE t < x.task + Grid
      <4>1. t <= x.task
        BY <3>1, <3>2
      <4>2. QED
        BY <1>1, <1>2, <2>1, <3>2, <4>1
    <3>3. CASE ~(t < x.task + Grid)
      BY <1>1, <1>2, <2>1, <3>3
    <3>4. QED
      BY <3>2, <3>3
  <2>3. QED
    BY <1>6, <2>1, <2>2 DEF Sent
<1>7. CASE Resting(c, x, y)
  BY <1>2, <1>3, <1>7 DEF Resting, Sent
<1>8. CASE Entering(c, x, y) /\ y.at # "reduce"
  <2>1. ~(y.task > t) /\ x.task >= Tasks(x.stage)
    BY <1>1, <1>2, <1>8 DEF Entering
  <2>2. CASE x.stage = HeadStage
    <3>1. y.stage = 0 /\ y.step = x.step + 1
      BY <1>2, <1>8, <2>2, DenseConstants DEF Entering, Passing
    <3>2. QED
      BY <1>2, <1>3, <2>2, <3>1 DEF Sent
  <2>3. CASE x.stage < HeadStage
    <3>1. y.stage = x.stage + 1 /\ y.step = x.step
      BY <1>8, <2>3 DEF Entering, Passing
    <3>2. x.stage = g => x.task > t
      BY <1>1, <1>2, <1>3, <2>1, DenseConstants
    <3>3. CASE x.stage = g
      BY <1>2, <1>3, <3>1, <3>2, <3>3 DEF Sent
    <3>4. CASE x.stage > g
      BY <1>2, <1>3, <3>1, <3>4 DEF Sent
    <3>5. CASE x.stage < g
      <4>1. ~(x.stage > g) /\ x.stage # g /\ ~(y.stage > g)
        BY <1>2, <1>3, <3>1, <3>5
      <4>2. ~(y.stage = g /\ (y.task > t \/ (y.task = t /\ y.at = "reduce")))
        BY <1>8, <2>1
      <4>3. QED
        BY <3>1, <4>1, <4>2 DEF Sent
    <3>6. QED
      BY <1>2, <1>3, <3>3, <3>4, <3>5
  <2>4. QED
    BY <1>2, <2>2, <2>3, DenseConstants
<1>9. CASE Bypassing(c, x, y)
  <2>1. g # 1
    <3>1. Kind(1) = "qkv"
      BY KindFacts
    <3>2. QED
      BY <3>1, TaskFacts
  <2>2. QED
    BY <1>2, <1>3, <1>9, <2>1 DEF Bypassing, Skipping, Sent
<1>10. QED
  BY <1>4, <1>5, <1>6, <1>7, <1>8, <1>9

SameSent(row, row2) ==
    \A g \in DenseStage : Reduces(g) => \A t \in 0 .. (XTiles - 1) :
        Sent(row2[t % Grid], g, t) = Sent(row[t % Grid], g, t)

LEMMA SameTrivial ==
    ASSUME NEW row
    PROVE  SamePast(row, row) /\ SameSent(row, row)
BY DEF SamePast, SameSent

LEMMA SkewSame ==
    ASSUME NEW P, NEW P2, \A s \in Rank : SamePast(P[s], P2[s]), SkewLaw(P)
    PROVE  SkewLaw(P2)
<1> SUFFICES ASSUME NEW a \in Rank, NEW s \in Rank, NEW n \in Nat, Awaited(P2[a], n)
             PROVE  Raised(P2[s], n)
  BY DEF SkewLaw
<1>1. SamePast(P[a], P2[a]) /\ SamePast(P[s], P2[s])
  OBVIOUS
<1>2. Awaited(P[a], n)
  BY <1>1 DEF SamePast
<1>3. Raised(P[s], n)
  BY <1>2 DEF SkewLaw
<1>4. QED
  BY <1>1, <1>3 DEF SamePast

LEMMA PacketSame ==
    ASSUME NEW q, NEW B, NEW P, NEW P2, \A s \in Rank : SameSent(P[s], P2[s]),
           NEW pk, PacketLaw(q, B, P, pk)
    PROVE  PacketLaw(q, B, P2, pk)
<1> SUFFICES ASSUME NEW r \in Rank, NEW s \in Rank, s # r, NEW g \in DenseStage, Reduces(g),
                    NEW t \in 0 .. (XTiles - 1)
             PROVE  LET n == Sent(P2[s][t % Grid], g, t)  slot == pk[r][Region(g)][s][t] IN
                    /\ slot.epoch = (B + n) % PacketEpochs
                    /\ n > 0 => slot.value = Value(q, n - 1, g)
  BY DEF PacketLaw
<1>1. SameSent(P[s], P2[s])
  OBVIOUS
<1>2. Sent(P2[s][t % Grid], g, t) = Sent(P[s][t % Grid], g, t)
  BY <1>1 DEF SameSent
<1>3. LET n == Sent(P[s][t % Grid], g, t)  slot == pk[r][Region(g)][s][t] IN
         /\ slot.epoch = (B + n) % PacketEpochs
         /\ n > 0 => slot.value = Value(q, n - 1, g)
  BY DEF PacketLaw
<1>4. QED
  BY <1>2, <1>3

LEMMA ExchangeSame ==
    ASSUME NEW q, NEW B, NEW P, NEW P2, \A s \in Rank : SamePast(P[s], P2[s]),
           NEW ex, ExchangeLaw(q, B, P, ex)
    PROVE  ExchangeLaw(q, B, P2, ex)
<1> SUFFICES ASSUME NEW r \in Rank, NEW s \in Rank, s # r, NEW n \in Nat
             PROVE  /\ \A y \in 0 .. 1 : ex[r].flag[y][s] = B + n + 1 => Raised(P2[s], n)
                    /\ Offered(P2[s], n) /\ ~Offered(P2[s], n + 2) =>
                          ex[r].data[(B + n) % 2][s] = Value(q, n, HeadStage)
  BY DEF ExchangeLaw
<1>1. SamePast(P[s], P2[s]) /\ n + 2 \in Nat
  OBVIOUS
<1>2. /\ Offered(P2[s], n) <=> Offered(P[s], n)
      /\ Raised(P2[s], n) <=> Raised(P[s], n)
      /\ Offered(P2[s], n + 2) <=> Offered(P[s], n + 2)
  BY <1>1 DEF SamePast
<1>3. /\ \A y \in 0 .. 1 : ex[r].flag[y][s] = B + n + 1 => Raised(P[s], n)
      /\ Offered(P[s], n) /\ ~Offered(P[s], n + 2) =>
            ex[r].data[(B + n) % 2][s] = Value(q, n, HeadStage)
  BY DEF ExchangeLaw
<1>4. QED
  BY <1>2, <1>3

\* The laws between ranks do not see this.
Apart(q, B, P, pk, ex) == SkewLaw(P) /\ PacketLaw(q, B, P, pk) /\ ExchangeLaw(q, B, P, ex)

LEMMA ApartQuiet ==
    ASSUME NEW q, NEW B, NEW P, NEW P2, NEW r \in Rank,
           \A s \in Rank : s # r => P2[s] = P[s],
           SamePast(P[r], P2[r]), SameSent(P[r], P2[r]),
           NEW pk, NEW ex, Apart(q, B, P, pk, ex)
    PROVE  Apart(q, B, P2, pk, ex)
<1>1. ASSUME NEW s \in Rank PROVE SamePast(P[s], P2[s]) /\ SameSent(P[s], P2[s])
  <2>1. CASE s = r
    BY <2>1
  <2>2. CASE s # r
    BY <2>2, SameTrivial
  <2>3. QED
    BY <2>1, <2>2
<1>2. SkewLaw(P2)
  BY <1>1, SkewSame DEF Apart
<1>3. PacketLaw(q, B, P2, pk)
  BY <1>1, PacketSame DEF Apart
<1>4. ExchangeLaw(q, B, P2, ex)
  BY <1>1, ExchangeSame DEF Apart
<1>5. QED
  BY <1>2, <1>3, <1>4 DEF Apart

-----------------------------------------------------------------------------
(* The packets. *)

\* Neighbouring epochs differ.
LEMMA EpochsDiffer ==
    ASSUME NEW k \in Nat, NEW M \in Nat, M >= 2
    PROVE  k % M # (k + 1) % M
<1>1. /\ k % M \in 0 .. (M - 1) /\ (k + 1) % M \in 0 .. (M - 1)
      /\ k = M * (k \div M) + (k % M) /\ k \div M \in Int
      /\ k + 1 = M * ((k + 1) \div M) + ((k + 1) % M) /\ (k + 1) \div M \in Int
  BY SMT
<1>2. PICK a \in Int, e \in Int, x \in 0 .. (M - 1), y \in 0 .. (M - 1) :
         /\ a = k \div M /\ e = (k + 1) \div M /\ x = k % M /\ y = (k + 1) % M
         /\ k = M * a + x /\ k + 1 = M * e + y
  BY <1>1
<1>3. SUFFICES ASSUME x = y PROVE FALSE
  BY <1>2
<1>4. M * e - M * a = 1
  <2>1. M * e \in Int /\ M * a \in Int
    OBVIOUS
  <2>2. PICK u \in Int, w \in Int : u = M * e /\ w = M * a
    BY <2>1
  <2>3. QED
    BY <1>2, <1>3, <2>2
<1>5. M * (e - a) = 1
  BY <1>4, SMT
<1>6. PICK d \in Int : d = e - a
  OBVIOUS
<1>7. M * d = 1
  BY <1>5, <1>6
<1>8. CASE d <= 0
  <2>1. M * d <= 0
    BY <1>8, SMT
  <2>2. QED
    BY <1>7, <2>1
<1>9. CASE d >= 1
  <2>1. M * d >= M
    BY <1>9, SMT
  <2>2. QED
    BY <1>7, <2>1
<1>10. QED
  BY <1>8, <1>9

LEMMA SentWindow ==
    ASSUME NEW b, NEW P, \A r \in Rank : AllLocated(P[r]) /\ BarrierLaw(b, P[r]), SkewLaw(P),
           NEW r \in Rank, NEW s \in Rank, NEW c \in Cta,
           P[r][c].stage < HeadStage,
           NEW g \in DenseStage, Reduces(g), NEW t \in 0 .. (XTiles - 1), t % Grid = c
    PROVE  Sent(P[s][c], g, t) \in Nat /\ P[r][c].step <= Sent(P[s][c], g, t)
           /\ Sent(P[s][c], g, t) <= P[r][c].step + 1
<1>1. PICK x, z : x = P[r][c] /\ z = P[s][c]
  OBVIOUS
<1>2. AllLocated(P[r]) /\ AllLocated(P[s])
  OBVIOUS
<1>3. /\ Located(x) /\ Located(z) /\ x.step \in Nat /\ z.step \in Nat /\ z.stage \in Nat
      /\ x.stage \in Nat /\ HeadStage \in Nat
  BY <1>1, <1>2, ScoredTypes, DenseConstants DEF AllLocated
<1>4. g \in Nat /\ g < HeadStage
  <2>1. Kind(g) \in {"o", "down"}
    BY TaskFacts
  <2>2. g # HeadStage
    BY <2>1, EdgeKinds
  <2>3. QED
    BY <1>3, <2>2, StageIsNat
<1>5. z.step <= Sent(z, g, t) /\ Sent(z, g, t) <= z.step + 1 /\ Sent(z, g, t) \in Nat
  BY <1>3 DEF Sent
<1>6. x.step <= Sent(z, g, t)
  <2>1. CASE x.step = 0
    BY <1>5, <2>1
  <2>2. CASE x.step # 0
    <3>1. x.step - 1 \in Nat /\ P[r][c].step > x.step - 1
      BY <1>1, <1>3, <2>2
    <3>2. Raised(P[s], x.step - 1)
      BY <3>1, StepsApart
    <3>3. Scored(z) >= x.step - 1 + 1
      BY <1>1, <3>2 DEF Raised, HeadPast
    <3>4. z.step >= x.step \/ (z.step = x.step - 1 /\ z.stage = HeadStage)
      BY <1>3, <3>3 DEF Scored
    <3>5. QED
      BY <1>3, <1>4, <1>5, <3>4 DEF Sent
  <2>3. QED
    BY <2>1, <2>2
<1>7. Sent(z, g, t) <= x.step + 1
  <2>1. z.step <= x.step
    <3>1. SUFFICES ASSUME z.step > x.step PROVE FALSE
      BY <1>3
    <3>2. Raised(P[r], x.step)
      BY <1>1, <1>3, <3>1, StepsApart
    <3>3. Scored(x) >= x.step + 1
      BY <1>1, <3>2 DEF Raised, HeadPast
    <3>4. x.stage # HeadStage
      BY <1>1, <1>3
    <3>5. QED
      BY <1>3, <3>3, <3>4 DEF Scored
  <2>2. QED
    BY <1>3, <1>5, <2>1
<1>8. QED
  BY <1>1, <1>5, <1>6, <1>7

AllMet(b, P) == \A s \in Rank : AllLocated(P[s]) /\ BarrierLaw(b, P[s])
\* The packet of tile t of stage g, from s to r, has the epoch of the step of c,
\* or is of it.
Arrives(B, P, pk, r, s, c, g, t) ==
    pk[r][Region(g)][s][t].epoch = (B + P[r][c].step + 1) % PacketEpochs
Carries(q, P, pk, r, s, c, g, t) ==
    pk[r][Region(g)][s][t].value = Value(q, P[r][c].step, g)

\* A packet with the epoch asked for is of this step.
LEMMA PacketRead ==
    ASSUME NEW b, NEW q, NEW B \in Nat, NEW P,
           AllMet(b, P), SkewLaw(P), NEW pk, PacketLaw(q, B, P, pk),
           NEW r \in Rank, NEW s \in Rank, s # r, NEW c \in Cta,
           NEW g \in DenseStage, g = P[r][c].stage, Reduces(g),
           NEW t, t \in 0 .. (XTiles - 1), t % Grid = c,
           Arrives(B, P, pk, r, s, c, g, t)
    PROVE  Carries(q, P, pk, r, s, c, g, t)
<1>0. \A e \in Rank : AllLocated(P[e]) /\ BarrierLaw(b, P[e])
  BY DEF AllMet
<1>1. PICK n, p, slot : n = Sent(P[s][c], g, t) /\ p = P[r][c].step
                        /\ slot = pk[r][Region(g)][s][t]
  OBVIOUS
<1>2. P[r][c].stage < HeadStage
  <2>1. Kind(g) \in {"o", "down"}
    BY TaskFacts
  <2>2. g # HeadStage
    BY <2>1, EdgeKinds
  <2>3. QED
    BY <2>2, StageIsNat, DenseConstants
<1>3. n \in Nat /\ p <= n /\ n <= p + 1
  BY <1>0, <1>1, <1>2, SentWindow
<1>4. p \in Nat
  <2>1. AllLocated(P[r])
    BY <1>0
  <2>2. QED
    BY <1>1, <2>1, ScoredTypes DEF AllLocated
<1>5. /\ slot.epoch = (B + n) % PacketEpochs
      /\ n > 0 => slot.value = Value(q, n - 1, g)
  BY <1>1 DEF PacketLaw
<1>6. n # p
  <2>1. SUFFICES ASSUME n = p PROVE FALSE
    OBVIOUS
  <2>2. PICK k \in Nat : k = B + p
    BY <1>4
  <2>3. k % PacketEpochs # (k + 1) % PacketEpochs
    BY EpochsDiffer, DenseConstants
  <2>4. B + n = k /\ B + p + 1 = k + 1
    BY <1>4, <2>1, <2>2
  <2>5. slot.epoch = (k + 1) % PacketEpochs /\ slot.epoch = k % PacketEpochs
    BY <1>1, <1>5, <2>4 DEF Arrives
  <2>6. QED
    BY <2>3, <2>5
<1>7. n = p + 1 /\ n - 1 = p /\ n > 0
  BY <1>3, <1>4, <1>6
<1>8. QED
  BY <1>1, <1>5, <1>7 DEF Carries

Slots == [Rank -> [0 .. (2 * Layers - 1) -> [Rank -> [0 .. (XTiles - 1) -> PacketSet]]]]

\* pk2 differs from pk in what r has sent to the others of tile t in region i.
SentBy(r, i, t, v, pk, pk2) ==
    \A d \in Rank : \A s \in Rank : s # d =>
        \A j \in 0 .. (2 * Layers - 1) : \A u \in 0 .. (XTiles - 1) :
            pk2[d][j][s][u] = IF s = r /\ j = i /\ u = t THEN v ELSE pk[d][j][s][u]

LEMMA SendStores ==
    ASSUME NEW r \in Rank, NEW i \in 0 .. (2 * Layers - 1), NEW t \in 0 .. (XTiles - 1),
           NEW v, NEW pk \in Slots, NEW pk2,
           pk2 = [s \in Rank |-> IF s = r THEN pk[s] ELSE [pk[s] EXCEPT ![i][r][t] = v]]
    PROVE  SentBy(r, i, t, v, pk, pk2)
<1> SUFFICES ASSUME NEW d \in Rank, NEW s \in Rank, s # d,
                    NEW j \in 0 .. (2 * Layers - 1), NEW u \in 0 .. (XTiles - 1)
             PROVE  pk2[d][j][s][u] = IF s = r /\ j = i /\ u = t THEN v ELSE pk[d][j][s][u]
  BY DEF SentBy
<1>1. CASE d = r
  BY <1>1
<1>2. CASE d # r
  <2>1. PICK A, T : A = 0 .. (2 * Layers - 1) /\ T = 0 .. (XTiles - 1)
    OBVIOUS
  <2>2. i \in A /\ j \in A /\ t \in T /\ u \in T
    BY <2>1
  <2>3. PICK K \in [A -> [Rank -> [T -> PacketSet]]] : K = pk[d]
    BY <2>1 DEF Slots
  <2>4. PICK K2 : K2 = [K EXCEPT ![i][r][t] = v]
    OBVIOUS
  <2>5. K2[j][s][u] = IF s = r /\ j = i /\ u = t THEN v ELSE K[j][s][u]
    <3>1. PICK L \in [Rank -> [T -> PacketSet]] : L = K[i]
      BY <2>2
    <3>2. PICK M \in [T -> PacketSet] : M = L[r]
      OBVIOUS
    <3>3. PICK M2 : M2 = [M EXCEPT ![t] = v]
      OBVIOUS
    <3>4. PICK L2 : L2 = [L EXCEPT ![r] = M2]
      OBVIOUS
    <3>5. K2 = [K EXCEPT ![i] = L2]
      BY <2>4, <3>1, <3>2, <3>3, <3>4
    <3>6. M2[u] = IF u = t THEN v ELSE M[u]
      BY <2>2, <3>3
    <3>7. L2[s][u] = IF s = r /\ u = t THEN v ELSE L[s][u]
      BY <3>2, <3>4, <3>6
    <3>8. CASE j = i
      BY <2>2, <3>1, <3>5, <3>7, <3>8
    <3>9. CASE j # i
      BY <2>2, <3>5, <3>9
    <3>10. QED
      BY <3>8, <3>9
  <2>6. pk2[d] = K2
    BY <1>2, <2>3, <2>4
  <2>7. QED
    BY <2>3, <2>5, <2>6
<1>3. QED
  BY <1>1, <1>2

LEMMA SentHere ==
    ASSUME NEW x, NEW y, Located(x), y.step = x.step, y.stage = x.stage, y.task = x.task,
           x.at = "task", y.at = "reduce", NEW h \in Nat, NEW u \in Nat
    PROVE  Sent(y, h, u) = IF h = x.stage /\ u = x.task THEN x.step + 1 ELSE Sent(x, h, u)
<1>1. x.step \in Nat /\ x.stage \in Nat /\ x.task \in Nat
  BY StageIsNat DEF Located
<1>2. CASE h = x.stage /\ u = x.task
  BY <1>1, <1>2 DEF Sent
<1>3. CASE h # x.stage
  BY <1>1, <1>3 DEF Sent
<1>4. CASE u # x.task
  BY <1>1, <1>4 DEF Sent
<1>5. QED
  BY <1>2, <1>3, <1>4

\* The packets of one task, to every peer.
LEMMA PacketsSent ==
    ASSUME NEW q, NEW B \in Nat, NEW P, NEW P2, NEW r \in Rank,
           \A s \in Rank : s # r => P2[s] = P[s],
           NEW pk, NEW pk2, PacketLaw(q, B, P, pk),
           NEW c \in Cta, Moves(P[r], P2[r], c), Located(P[r][c]),
           NEW g \in DenseStage, g = P[r][c].stage, Reduces(g),
           NEW t \in 0 .. (XTiles - 1), t = P[r][c].task, t % Grid = c,
           P[r][c].at = "task", P2[r][c].at = "reduce", Staying(P[r][c], P2[r][c]),
           NEW v, v.epoch = (B + P[r][c].step + 1) % PacketEpochs,
           v.value = Value(q, P[r][c].step, g),
           SentBy(r, Region(g), t, v, pk, pk2)
    PROVE  PacketLaw(q, B, P2, pk2)
<1> SUFFICES ASSUME NEW d \in Rank, NEW s \in Rank, s # d, NEW h \in DenseStage, Reduces(h),
                    NEW u \in 0 .. (XTiles - 1)
             PROVE  LET n == Sent(P2[s][u % Grid], h, u)  slot == pk2[d][Region(h)][s][u] IN
                    /\ slot.epoch = (B + n) % PacketEpochs
                    /\ n > 0 => slot.value = Value(q, n - 1, h)
  BY DEF PacketLaw
<1>1. /\ Region(g) \in 0 .. (2 * Layers - 1) /\ Region(h) \in 0 .. (2 * Layers - 1)
      /\ Region(h) = Region(g) => h = g
  BY RegionFacts
<1>2. u % Grid \in Cta /\ u \in Nat /\ t \in Nat /\ g \in Nat /\ h \in Nat
  BY Owner, DenseConstants, StageIsNat
<1>3. PICK n, slot, n2, slot2 : n = Sent(P[s][u % Grid], h, u) /\ slot = pk[d][Region(h)][s][u]
        /\ n2 = Sent(P2[s][u % Grid], h, u) /\ slot2 = pk2[d][Region(h)][s][u]
  OBVIOUS
<1>4. slot.epoch = (B + n) % PacketEpochs /\ (n > 0 => slot.value = Value(q, n - 1, h))
  BY <1>3 DEF PacketLaw
<1>5. PICK x, y, p : x = P[r][c] /\ y = P2[r][c] /\ p = x.step
  OBVIOUS
<1>6. slot2 = IF s = r /\ Region(h) = Region(g) /\ u = t THEN v ELSE slot
  BY <1>1, <1>3 DEF SentBy
<1>7. Sent(y, h, u) = IF h = g /\ u = t THEN p + 1 ELSE Sent(x, h, u)
  <2>1. /\ Located(x) /\ y.step = x.step /\ y.stage = x.stage /\ y.task = x.task
        /\ x.at = "task" /\ y.at = "reduce" /\ x.stage = g /\ x.task = t /\ p = x.step
    BY <1>5 DEF Staying
  <2>2. Sent(y, h, u) = IF h = x.stage /\ u = x.task THEN x.step + 1 ELSE Sent(x, h, u)
    BY <1>2, <2>1, SentHere
  <2>3. QED
    BY <2>1, <2>2
<1>8. n2 = IF s = r /\ h = g /\ u = t THEN p + 1 ELSE n
  <2>1. CASE s # r
    BY <1>3, <2>1
  <2>2. CASE s = r /\ u % Grid = c
    BY <1>3, <1>5, <1>7, <2>2
  <2>3. CASE s = r /\ u % Grid # c
    BY <1>2, <1>3, <2>3 DEF Moves
  <2>4. QED
    BY <2>1, <2>2, <2>3
<1>9. slot2.epoch = (B + n2) % PacketEpochs /\ (n2 > 0 => slot2.value = Value(q, n2 - 1, h))
  <2>1. CASE s = r /\ h = g /\ u = t
    <3>1. slot2 = v /\ n2 = p + 1
      BY <1>6, <1>8, <2>1
    <3>2. p \in Nat
      BY <1>5 DEF Located
    <3>3. B + n2 = B + p + 1 /\ n2 - 1 = p
      BY <3>1, <3>2
    <3>4. v.epoch = (B + p + 1) % PacketEpochs /\ v.value = Value(q, p, h)
      BY <1>5, <2>1
    <3>5. QED
      BY <3>1, <3>3, <3>4
  <2>2. CASE ~(s = r /\ h = g /\ u = t)
    <3>1. slot2 = slot /\ n2 = n
      BY <1>1, <1>6, <1>8, <2>2
    <3>2. QED
      BY <1>4, <3>1
  <2>3. QED
    BY <2>1, <2>2
<1>10. QED
  BY <1>3, <1>9

-----------------------------------------------------------------------------
(* The candidates and their flags. *)

LEMMA ParityType == \A k \in Nat : k % 2 \in 0 .. 1
OBVIOUS

\* ex2 differs from ex in the candidate, or the flag, r has stored at parity y.
DataBy(r, y, v, ex, ex2) ==
    \A d \in Rank : \A s \in Rank : s # d => \A z \in 0 .. 1 :
        /\ ex2[d].data[z][s] = IF s = r /\ z = y THEN v ELSE ex[d].data[z][s]
        /\ ex2[d].flag[z][s] = ex[d].flag[z][s]
FlagBy(r, y, v, ex, ex2) ==
    \A d \in Rank : \A s \in Rank : s # d => \A z \in 0 .. 1 :
        /\ ex2[d].flag[z][s] = IF s = r /\ z = y THEN v ELSE ex[d].flag[z][s]
        /\ ex2[d].data[z][s] = ex[d].data[z][s]

\* The words of step p.
CandidateBy(q, B, r, p, ex, ex2) == DataBy(r, (B + p) % 2, Value(q, p, HeadStage), ex, ex2)
RaisedBy(B, r, p, ex, ex2) == FlagBy(r, (B + p) % 2, B + p + 1, ex, ex2)

LEMMA TwoStored ==
    ASSUME NEW V, NEW K \in [0 .. 1 -> [Rank -> V]], NEW y \in 0 .. 1, NEW r \in Rank, NEW v,
           NEW K2, K2 = [K EXCEPT ![y][r] = v], NEW z \in 0 .. 1, NEW s \in Rank
    PROVE  K2[z][s] = IF s = r /\ z = y THEN v ELSE K[z][s]
<1>1. PICK L \in [Rank -> V] : L = K[y]
  OBVIOUS
<1>2. PICK L2 : L2 = [L EXCEPT ![r] = v]
  OBVIOUS
<1>3. K2 = [K EXCEPT ![y] = L2]
  BY <1>1, <1>2
<1>4. L2[s] = IF s = r THEN v ELSE L[s]
  BY <1>2
<1>5. CASE z = y
  BY <1>1, <1>3, <1>4, <1>5
<1>6. CASE z # y
  BY <1>3, <1>6
<1>7. QED
  BY <1>5, <1>6

LEMMA OfferStores ==
    ASSUME NEW r \in Rank, NEW y \in 0 .. 1, NEW v, NEW ex \in [Rank -> ExchangeSet], NEW ex2,
           ex2 = [s \in Rank |-> IF s = r THEN ex[s] ELSE [ex[s] EXCEPT !.data[y][r] = v]]
    PROVE  DataBy(r, y, v, ex, ex2)
<1> SUFFICES ASSUME NEW d \in Rank, NEW s \in Rank, s # d, NEW z \in 0 .. 1
             PROVE  /\ ex2[d].data[z][s] = IF s = r /\ z = y THEN v ELSE ex[d].data[z][s]
                    /\ ex2[d].flag[z][s] = ex[d].flag[z][s]
  BY DEF DataBy
<1>1. CASE d = r
  BY <1>1
<1>2. CASE d # r
  <2>1. PICK K \in [0 .. 1 -> [Rank -> Val]], F \in [0 .. 1 -> [Rank -> Nat]] :
           ex[d] = [data |-> K, flag |-> F]
    BY DEF ExchangeSet
  <2>2. PICK K2 : K2 = [K EXCEPT ![y][r] = v]
    OBVIOUS
  <2>3. ex2[d] = [data |-> K2, flag |-> F]
    BY <1>2, <2>1, <2>2
  <2>4. K2[z][s] = IF s = r /\ z = y THEN v ELSE K[z][s]
    BY <2>2, TwoStored
  <2>5. QED
    BY <2>1, <2>3, <2>4
<1>3. QED
  BY <1>1, <1>2

LEMMA FlagStores ==
    ASSUME NEW r \in Rank, NEW y \in 0 .. 1, NEW v, NEW ex \in [Rank -> ExchangeSet], NEW ex2,
           ex2 = [s \in Rank |-> IF s = r THEN ex[s] ELSE [ex[s] EXCEPT !.flag[y][r] = v]]
    PROVE  FlagBy(r, y, v, ex, ex2)
<1> SUFFICES ASSUME NEW d \in Rank, NEW s \in Rank, s # d, NEW z \in 0 .. 1
             PROVE  /\ ex2[d].flag[z][s] = IF s = r /\ z = y THEN v ELSE ex[d].flag[z][s]
                    /\ ex2[d].data[z][s] = ex[d].data[z][s]
  BY DEF FlagBy
<1>1. CASE d = r
  BY <1>1
<1>2. CASE d # r
  <2>1. PICK K \in [0 .. 1 -> [Rank -> Val]], F \in [0 .. 1 -> [Rank -> Nat]] :
           ex[d] = [data |-> K, flag |-> F]
    BY DEF ExchangeSet
  <2>2. PICK F2 : F2 = [F EXCEPT ![y][r] = v]
    OBVIOUS
  <2>3. ex2[d] = [data |-> K, flag |-> F2]
    BY <1>2, <2>1, <2>2
  <2>4. F2[z][s] = IF s = r /\ z = y THEN v ELSE F[z][s]
    BY <2>2, TwoStored
  <2>5. QED
    BY <2>1, <2>3, <2>4
<1>3. QED
  BY <1>1, <1>2

\* The place of the CTA that decides; its step is past the phases it has left.
LEMMA DecidePast ==
    ASSUME NEW B, NEW row, AllLocated(row), NEW n, HeadLaw(B, row, n),
           NEW c \in Cta, row[c].at \in Deciding, NEW S \in SUBSET Deciding,
           row[c].at \notin S
    PROVE  HeadPast(row, row[c].step, S)
<1> SUFFICES ASSUME NEW e \in Cta
             PROVE  Scored(row[e]) >= row[c].step + 1 /\ (row[e].at \in S => row[e].step > row[c].step)
  BY DEF HeadPast
<1>1. Scored(row[e]) >= row[c].step + 1 /\ (e # c => row[e].at \notin Deciding)
  BY DEF HeadLaw
<1>2. QED
  BY <1>1

LEMMA NotPast ==
    ASSUME NEW row, AllLocated(row), NEW c \in Cta, NEW n \in Nat, n >= Scored(row[c]), NEW S
    PROVE  ~HeadPast(row, n, S)
<1>1. Scored(row[c]) \in Nat
  BY ScoredTypes DEF AllLocated
<1>2. QED
  BY <1>1 DEF HeadPast

\* A step of the deciding CTA of r, as the other ranks see it: past the phases T
\* it becomes, and of the others nothing changes.
Decides(row, row2, c) ==
    /\ row[c].at \in Deciding /\ row[c].stage = HeadStage
    /\ row2[c].step = row[c].step /\ row2[c].stage = HeadStage
    /\ Moves(row, row2, c)

LEMMA DecideSteps ==
    ASSUME NEW B \in Nat, NEW row, NEW row2, AllLocated(row), AllLocated(row2),
           NEW n \in Nat, HeadLaw(B, row, n), NEW c \in Cta, Decides(row, row2, c),
           NEW p, p = row[c].step
    PROVE  /\ row[c].at = "offer" /\ row2[c].at = "flag" => \A m \in Nat :
                 /\ Offered(row2, m) <=> Offered(row, m) \/ m = p
                 /\ Raised(row2, m) <=> Raised(row, m)
                 /\ Awaited(row2, m) <=> Awaited(row, m)
                 /\ Chosen(row2, m) <=> Chosen(row, m)
           /\ row[c].at = "flag" /\ row2[c].at = "await" => \A m \in Nat :
                 /\ Offered(row2, m) <=> Offered(row, m)
                 /\ Raised(row2, m) <=> Raised(row, m) \/ m = p
                 /\ Awaited(row2, m) <=> Awaited(row, m)
                 /\ Chosen(row2, m) <=> Chosen(row, m)
           /\ row[c].at = "await" /\ row2[c].at = "choose" => \A m \in Nat :
                 /\ Offered(row2, m) <=> Offered(row, m)
                 /\ Raised(row2, m) <=> Raised(row, m)
                 /\ Awaited(row2, m) <=> Awaited(row, m) \/ m = p
                 /\ Chosen(row2, m) <=> Chosen(row, m)
           /\ row[c].at = "choose" /\ row2[c].at = "join" => \A m \in Nat :
                 /\ Offered(row2, m) <=> Offered(row, m)
                 /\ Raised(row2, m) <=> Raised(row, m)
                 /\ Awaited(row2, m) <=> Awaited(row, m)
                 /\ Chosen(row2, m) <=> Chosen(row, m) \/ m = p
<1>1. /\ {"offer"} \in SUBSET Deciding /\ {"offer", "flag"} \in SUBSET Deciding
      /\ {"offer", "flag", "await"} \in SUBSET Deciding /\ Deciding \in SUBSET Deciding
  BY DEF Deciding
<1>2. ASSUME row2[c].at \in Deciding \cup {"join"}, NEW S \in SUBSET Deciding,
             row[c].at \in S => row2[c].at \in S \/ row[c].at \in S,
             NEW m \in Nat
      PROVE  /\ row2[c].at \in S /\ row[c].at \in S =>
                    (HeadPast(row2, m, S) <=> HeadPast(row, m, S))
             /\ row2[c].at \notin S /\ row[c].at \notin S =>
                    (HeadPast(row2, m, S) <=> HeadPast(row, m, S))
             /\ row2[c].at \notin S => (HeadPast(row2, m, S) <=> HeadPast(row, m, S) \/ m = p)
  <2>1. /\ row2[c].at \in S /\ row[c].at \in S =>
                    (HeadPast(row2, m, S) <=> HeadPast(row, m, S))
        /\ row2[c].at \notin S =>
                    (HeadPast(row2, m, S) <=> HeadPast(row, m, S) \/ m = row[c].step)
    BY <1>2, HeadDecide DEF Decides
  <2>2. row[c].at \notin S => HeadPast(row, row[c].step, S)
    BY DecidePast DEF Decides
  <2>3. QED
    BY <2>1, <2>2
<1>3. CASE row[c].at = "offer" /\ row2[c].at = "flag"
  BY <1>1, <1>2, <1>3 DEF Offered, Raised, Awaited, Chosen, Deciding
<1>4. CASE row[c].at = "flag" /\ row2[c].at = "await"
  BY <1>1, <1>2, <1>4 DEF Offered, Raised, Awaited, Chosen, Deciding
<1>5. CASE row[c].at = "await" /\ row2[c].at = "choose"
  BY <1>1, <1>2, <1>5 DEF Offered, Raised, Awaited, Chosen, Deciding
<1>6. CASE row[c].at = "choose" /\ row2[c].at = "join"
  BY <1>1, <1>2, <1>6 DEF Offered, Raised, Awaited, Chosen, Deciding
<1>7. QED
  BY <1>3, <1>4, <1>5, <1>6

\* The candidate of step p: it takes the place of that of step p - 2.
LEMMA ApartOffer ==
    ASSUME NEW q, NEW B \in Nat, NEW P, NEW P2, NEW r \in Rank,
           \A s \in Rank : s # r => P2[s] = P[s],
           AllLocated(P[r]), AllLocated(P2[r]), NEW n \in Nat, HeadLaw(B, P[r], n),
           NEW c \in Cta, Decides(P[r], P2[r], c),
           P[r][c].at = "offer", P2[r][c].at = "flag", SameSent(P[r], P2[r]),
           NEW p \in Nat, p = P[r][c].step,
           NEW pk, NEW ex, NEW ex2, Apart(q, B, P, pk, ex),
           CandidateBy(q, B, r, p, ex, ex2)
    PROVE  Apart(q, B, P2, pk, ex2)
<1>1. \A m \in Nat :
         /\ Offered(P2[r], m) <=> Offered(P[r], m) \/ m = p
         /\ Raised(P2[r], m) <=> Raised(P[r], m)
         /\ Awaited(P2[r], m) <=> Awaited(P[r], m)
         /\ Chosen(P2[r], m) <=> Chosen(P[r], m)
  BY DecideSteps
<1>2. SkewLaw(P2)
  BY <1>1 DEF Apart, SkewLaw
<1>3. PacketLaw(q, B, P2, pk)
  <2>1. \A s \in Rank : SameSent(P[s], P2[s])
    BY SameTrivial
  <2>2. QED
    BY <2>1, PacketSame DEF Apart
<1>4. ExchangeLaw(q, B, P2, ex2)
  <2> SUFFICES ASSUME NEW d \in Rank, NEW s \in Rank, s # d, NEW m \in Nat
               PROVE  /\ \A y \in 0 .. 1 : ex2[d].flag[y][s] = B + m + 1 => Raised(P2[s], m)
                      /\ Offered(P2[s], m) /\ ~Offered(P2[s], m + 2) =>
                            ex2[d].data[(B + m) % 2][s] = Value(q, m, HeadStage)
    BY DEF ExchangeLaw
  <2>1. /\ \A y \in 0 .. 1 : ex[d].flag[y][s] = B + m + 1 => Raised(P[s], m)
        /\ Offered(P[s], m) /\ ~Offered(P[s], m + 2) =>
              ex[d].data[(B + m) % 2][s] = Value(q, m, HeadStage)
    BY DEF Apart, ExchangeLaw
  <2>2. (B + m) % 2 \in 0 .. 1 /\ (B + p) % 2 \in 0 .. 1
    BY ParityType
  <2>3. /\ \A y \in 0 .. 1 : ex2[d].flag[y][s] = ex[d].flag[y][s]
        /\ ex2[d].data[(B + m) % 2][s] =
              IF s = r /\ (B + m) % 2 = (B + p) % 2 THEN Value(q, p, HeadStage)
              ELSE ex[d].data[(B + m) % 2][s]
    BY <2>2 DEF DataBy, CandidateBy
  <2>4. Raised(P2[s], m) <=> Raised(P[s], m)
    BY <1>1
  <2>5. CASE s # r
    BY <2>1, <2>3, <2>5
  <2>6. CASE s = r
    <3>1. SUFFICES ASSUME Offered(P2[r], m), ~Offered(P2[r], m + 2)
                   PROVE  ex2[d].data[(B + m) % 2][r] = Value(q, m, HeadStage)
      BY <2>1, <2>3, <2>4, <2>6
    <3>2. CASE m = p
      BY <2>3, <2>6, <3>2
    <3>3. CASE m # p
      <4>1. Offered(P[r], m) /\ ~Offered(P[r], m + 2) /\ m + 2 # p
        <5>1. m + 2 \in Nat
          OBVIOUS
        <5>2. QED
          BY <1>1, <3>1, <3>3, <5>1
      <4>2. m <= p
        <5>1. SUFFICES ASSUME m > p PROVE FALSE
          OBVIOUS
        <5>2. Scored(P[r][c]) <= p + 1 /\ Scored(P[r][c]) \in Nat
          BY ScoredTypes DEF AllLocated
        <5>3. m >= Scored(P[r][c])
          BY <5>1, <5>2
        <5>4. QED
          BY <4>1, <5>3, NotPast DEF Offered
      <4>3. ~(m < p /\ m + 2 <= p)
        <5>1. SUFFICES ASSUME m + 2 <= p PROVE FALSE
          OBVIOUS
        <5>2. HeadPast(P2[r], p, {"offer"})
          BY <1>1 DEF Offered
        <5>3. m + 2 \in Nat
          OBVIOUS
        <5>4. HeadPast(P2[r], m + 2, {"offer"})
          BY <5>1, <5>2, <5>3, HeadPastDown
        <5>5. QED
          BY <3>1, <5>4 DEF Offered
      <4>4. p = m + 1
        BY <3>3, <4>2, <4>3
      <4>5. (B + m) % 2 # (B + p) % 2
        BY <4>4
      <4>6. QED
        BY <2>1, <2>3, <2>6, <4>1, <4>5
    <3>4. QED
      BY <3>2, <3>3
  <2>7. QED
    BY <2>5, <2>6
<1>5. QED
  BY <1>2, <1>3, <1>4 DEF Apart

LEMMA ApartRaise ==
    ASSUME NEW q, NEW B \in Nat, NEW P, NEW P2, NEW r \in Rank,
           \A s \in Rank : s # r => P2[s] = P[s],
           AllLocated(P[r]), AllLocated(P2[r]), NEW n \in Nat, HeadLaw(B, P[r], n),
           NEW c \in Cta, Decides(P[r], P2[r], c),
           P[r][c].at = "flag", P2[r][c].at = "await", SameSent(P[r], P2[r]),
           NEW p \in Nat, p = P[r][c].step,
           NEW pk, NEW ex, NEW ex2, Apart(q, B, P, pk, ex),
           RaisedBy(B, r, p, ex, ex2)
    PROVE  Apart(q, B, P2, pk, ex2)
<1>1. \A m \in Nat :
         /\ Offered(P2[r], m) <=> Offered(P[r], m)
         /\ Raised(P2[r], m) <=> Raised(P[r], m) \/ m = p
         /\ Awaited(P2[r], m) <=> Awaited(P[r], m)
         /\ Chosen(P2[r], m) <=> Chosen(P[r], m)
  BY DecideSteps
<1>2. SkewLaw(P2)
  BY <1>1 DEF Apart, SkewLaw
<1>3. PacketLaw(q, B, P2, pk)
  <2>1. \A s \in Rank : SameSent(P[s], P2[s])
    BY SameTrivial
  <2>2. QED
    BY <2>1, PacketSame DEF Apart
<1>4. ExchangeLaw(q, B, P2, ex2)
  <2> SUFFICES ASSUME NEW d \in Rank, NEW s \in Rank, s # d, NEW m \in Nat
               PROVE  /\ \A y \in 0 .. 1 : ex2[d].flag[y][s] = B + m + 1 => Raised(P2[s], m)
                      /\ Offered(P2[s], m) /\ ~Offered(P2[s], m + 2) =>
                            ex2[d].data[(B + m) % 2][s] = Value(q, m, HeadStage)
    BY DEF ExchangeLaw
  <2>1. /\ \A y \in 0 .. 1 : ex[d].flag[y][s] = B + m + 1 => Raised(P[s], m)
        /\ Offered(P[s], m) /\ ~Offered(P[s], m + 2) =>
              ex[d].data[(B + m) % 2][s] = Value(q, m, HeadStage)
    BY DEF Apart, ExchangeLaw
  <2>2. (B + m) % 2 \in 0 .. 1 /\ (B + p) % 2 \in 0 .. 1
    BY ParityType
  <2>3. /\ \A y \in 0 .. 1 : ex2[d].flag[y][s] =
              IF s = r /\ y = (B + p) % 2 THEN B + p + 1 ELSE ex[d].flag[y][s]
        /\ ex2[d].data[(B + m) % 2][s] = ex[d].data[(B + m) % 2][s]
    BY <2>2 DEF FlagBy, RaisedBy
  <2>4. /\ Offered(P2[s], m) <=> Offered(P[s], m)
        /\ Offered(P2[s], m + 2) <=> Offered(P[s], m + 2)
        /\ Raised(P[s], m) => Raised(P2[s], m)
    BY <1>1
  <2>5. ASSUME NEW y \in 0 .. 1, ex2[d].flag[y][s] = B + m + 1 PROVE Raised(P2[s], m)
    <3>1. CASE s = r /\ y = (B + p) % 2
      <4>1. B + p + 1 = B + m + 1
        BY <2>3, <2>5, <3>1
      <4>2. m = p
        BY <4>1
      <4>3. QED
        BY <1>1, <3>1, <4>2
    <3>2. CASE ~(s = r /\ y = (B + p) % 2)
      BY <2>1, <2>3, <2>4, <2>5, <3>2
    <3>3. QED
      BY <3>1, <3>2
  <2>6. QED
    BY <2>1, <2>3, <2>4, <2>5
<1>5. QED
  BY <1>2, <1>3, <1>4 DEF Apart

OthersStand(P, P2, r) == \A s \in Rank : s # r => P2[s] = P[s]
FlagsSeen(B, ex, r, y, p) == \A s \in Rank : s # r => ex[r].flag[y][s] = B + p + 1
LEMMA ApartAwait ==
    ASSUME NEW q, NEW B \in Nat, NEW P, NEW P2, NEW r \in Rank, OthersStand(P, P2, r),
           AllLocated(P[r]), AllLocated(P2[r]), NEW n \in Nat, HeadLaw(B, P[r], n),
           NEW c \in Cta, Decides(P[r], P2[r], c),
           P[r][c].at = "await", P2[r][c].at = "choose", SameSent(P[r], P2[r]),
           NEW p \in Nat, p = P[r][c].step,
           NEW pk, NEW ex, Apart(q, B, P, pk, ex),
           NEW y \in 0 .. 1, FlagsSeen(B, ex, r, y, p)
    PROVE  Apart(q, B, P2, pk, ex)
<1>1. /\ \A s \in Rank : s # r => P2[s] = P[s]
      /\ \A s \in Rank : s # r => ex[r].flag[y][s] = B + p + 1
  BY DEF OthersStand, FlagsSeen
<1>2. \A m \in Nat :
         /\ Offered(P2[r], m) <=> Offered(P[r], m)
         /\ Raised(P2[r], m) <=> Raised(P[r], m)
         /\ Awaited(P2[r], m) <=> Awaited(P[r], m) \/ m = p
         /\ Chosen(P2[r], m) <=> Chosen(P[r], m)
  BY DecideSteps
<1>3. SkewLaw(P2)
  <2> SUFFICES ASSUME NEW a \in Rank, NEW s \in Rank, NEW m \in Nat, Awaited(P2[a], m)
               PROVE  Raised(P2[s], m)
    BY DEF SkewLaw
  <2>1. CASE Awaited(P[a], m)
    BY <1>1, <1>2, <2>1 DEF Apart, SkewLaw
  <2>2. CASE ~Awaited(P[a], m)
    <3>1. a = r /\ m = p
      BY <1>1, <1>2, <2>2
    <3>2. CASE s = r
      BY <3>1, <3>2, PhaseOrder
    <3>3. CASE s # r
      <4>1. ex[r].flag[y][s] = B + m + 1
        BY <1>1, <3>1, <3>3
      <4>2. Raised(P[s], m)
        BY <1>1, <3>3, <4>1 DEF Apart, ExchangeLaw
      <4>3. QED
        BY <1>1, <3>3, <4>2
    <3>4. QED
      BY <3>2, <3>3
  <2>3. QED
    BY <2>1, <2>2
<1>4. PacketLaw(q, B, P2, pk)
  <2>1. \A s \in Rank : SameSent(P[s], P2[s])
    BY <1>1, SameTrivial
  <2>2. QED
    BY <2>1, PacketSame DEF Apart
<1>5. ExchangeLaw(q, B, P2, ex)
  <2>1. \A s \in Rank : \A m \in Nat :
           (Offered(P2[s], m) <=> Offered(P[s], m)) /\ (Raised(P2[s], m) <=> Raised(P[s], m))
    BY <1>1, <1>2
  <2>2. \A m \in Nat : m + 2 \in Nat
    OBVIOUS
  <2>3. QED
    BY <2>1, <2>2 DEF Apart, ExchangeLaw
<1>6. QED
  BY <1>3, <1>4, <1>5 DEF Apart

LEMMA ApartChoose ==
    ASSUME NEW q, NEW B \in Nat, NEW P, NEW P2, NEW r \in Rank,
           \A s \in Rank : s # r => P2[s] = P[s],
           AllLocated(P[r]), AllLocated(P2[r]), NEW n \in Nat, HeadLaw(B, P[r], n),
           NEW c \in Cta, Decides(P[r], P2[r], c),
           P[r][c].at = "choose", P2[r][c].at = "join", SameSent(P[r], P2[r]),
           NEW pk, NEW ex, Apart(q, B, P, pk, ex)
    PROVE  Apart(q, B, P2, pk, ex)
<1>1. \A m \in Nat :
         /\ Offered(P2[r], m) <=> Offered(P[r], m)
         /\ Raised(P2[r], m) <=> Raised(P[r], m)
         /\ Awaited(P2[r], m) <=> Awaited(P[r], m)
  BY DecideSteps
<1>2. SkewLaw(P2)
  BY <1>1 DEF Apart, SkewLaw
<1>3. PacketLaw(q, B, P2, pk)
  <2>1. \A s \in Rank : SameSent(P[s], P2[s])
    BY SameTrivial
  <2>2. QED
    BY <2>1, PacketSame DEF Apart
<1>4. ExchangeLaw(q, B, P2, ex)
  <2>1. \A s \in Rank : \A m \in Nat :
           (Offered(P2[s], m) <=> Offered(P[s], m)) /\ (Raised(P2[s], m) <=> Raised(P[s], m))
    BY <1>1
  <2>2. \A m \in Nat : m + 2 \in Nat
    OBVIOUS
  <2>3. QED
    BY <2>1, <2>2 DEF Apart, ExchangeLaw
<1>5. QED
  BY <1>2, <1>3, <1>4 DEF Apart

ParityOf(B, p) == (B + p) % 2

CandidateAt(q, B, P, ex, r, c, s) ==
    ex[r].data[ParityOf(B, P[r][c].step)][s] = Value(q, P[r][c].step, HeadStage)

\* The candidates the choosing CTA finds are those of its step.
LEMMA CandidateRead ==
    ASSUME NEW b, NEW q, NEW B \in Nat, NEW P,
           AllMet(b, P), NEW pk, NEW ex, Apart(q, B, P, pk, ex),
           NEW r \in Rank, NEW s \in Rank, s # r, NEW n, HeadLaw(B, P[r], n),
           NEW c \in Cta, P[r][c].at = "choose", P[r][c].stage = HeadStage
    PROVE  CandidateAt(q, B, P, ex, r, c, s)
<1> PICK p \in Nat : p = P[r][c].step
  BY DEF AllMet, AllLocated, Located
<1>1. /\ AllLocated(P[r]) /\ AllLocated(P[s]) /\ SkewLaw(P)
      /\ \A e \in Rank : AllLocated(P[e]) /\ BarrierLaw(b, P[e])
  BY DEF Apart, AllMet
<1>2. Scored(P[r][c]) = p + 1
  BY <1>1 DEF Scored, Deciding
<1>3. Offered(P[s], p)
  <2>1. {"offer", "flag", "await"} \in SUBSET Deciding /\ "choose" \in Deciding
        /\ "choose" \notin {"offer", "flag", "await"}
    BY DEF Deciding
  <2>2. HeadPast(P[r], P[r][c].step, {"offer", "flag", "await"})
    BY <1>1, <2>1, DecidePast
  <2>3. Awaited(P[r], p)
    BY <2>2 DEF Awaited
  <2>4. Raised(P[s], p)
    BY <1>1, <2>3 DEF SkewLaw
  <2>5. QED
    BY <2>4, PhaseOrder
<1>4. ~Offered(P[s], p + 2)
  <2>1. SUFFICES ASSUME Offered(P[s], p + 2) PROVE FALSE
    OBVIOUS
  <2>2. PICK z : z = P[s][c]
    OBVIOUS
  <2>3. Scored(z) >= p + 2 + 1 /\ z.step \in Nat /\ Scored(z) <= z.step + 1
    BY <1>1, <2>1, <2>2, ScoredTypes DEF AllLocated, Offered, HeadPast
  <2>4. P[s][c].step > p + 1 /\ p + 1 \in Nat
    BY <2>2, <2>3, ScoredTypes, <1>1 DEF AllLocated
  <2>5. Raised(P[r], p + 1)
    BY <1>1, <2>4, StepsApart
  <2>6. Scored(P[r][c]) >= p + 1 + 1
    BY <2>5 DEF Raised, HeadPast
  <2>7. QED
    BY <1>2, <2>6
<1>5. QED
  BY <1>3, <1>4 DEF Apart, ExchangeLaw, ParityOf, CandidateAt

-----------------------------------------------------------------------------
(***************************************************************************)
(* A rank's laws, when one of its CTAs moves.                              *)
(***************************************************************************)
LEMMA PositionNat == \A j \in Position : j \in Nat
<1>1. NewTokens \in Seq(Nat \ {0})
  BY DenseAssumption DEF DenseAssumption
<1>2. SUFFICES ASSUME NEW q \in DOMAIN NewTokens, NEW j \in 0 .. (PromptLen + NewTokens[q])
               PROVE  j \in Nat
  BY DEF Position
<1>3. NewTokens[q] \in Nat
  BY <1>1
<1>4. QED
  BY <1>3, DenseConstants

LEMMA KernelMove ==
    ASSUME NEW b, NEW q, NEW d, NEW s, NEW row, NEW row2, KernelLaw(b, q, d, s, row),
           NEW c \in Cta, Moves(row, row2, c), row[c].at # "away", row2[c].at # "away",
           IF row2[c].at = "done" THEN row2[c].step = FirstOf(b, q, d + 1)
           ELSE FirstOf(b, q, d) <= row2[c].step /\ row2[c].step < FirstOf(b, q, d + 1)
    PROVE  KernelLaw(b, q, d, s, row2)
<1>1. ASSUME NEW e \in Cta PROVE row2[e] = row[e] \/ e = c
  BY DEF Moves
<1>2. ASSUME NEW e \in Cta, NEW f \in Cta, row2[e].at # "away"
      PROVE  row2[f].at # "away" /\ d >= 1 /\ s
  <2>1. row[f].at # "away" /\ d >= 1 /\ s
    BY DEF KernelLaw
  <2>2. QED
    BY <1>1, <2>1
<1>3. ASSUME NEW e \in Cta
      PROVE  /\ row2[e].at = "away" => row2[e].step = FirstOf(b, q, d)
             /\ row2[e].at = "done" => row2[e].step = FirstOf(b, q, d + 1)
             /\ row2[e].at \notin Idle =>
                   FirstOf(b, q, d) <= row2[e].step /\ row2[e].step < FirstOf(b, q, d + 1)
  <2>1. CASE e = c
    BY <2>1 DEF Idle
  <2>2. CASE e # c
    <3>1. row2[e] = row[e]
      BY <1>1, <2>2
    <3>2. QED
      BY <3>1 DEF KernelLaw
  <2>3. QED
    BY <2>1, <2>2
<1>4. QED
  BY <1>2, <1>3 DEF KernelLaw

LEMMA TokenKept ==
    ASSUME NEW q, NEW d, NEW row, NEW row2, NEW tok, TokenLaw(q, d, row, tok),
           \A n \in Nat : Chosen(row2, n) => Chosen(row, n)
    PROVE  TokenLaw(q, d, row2, tok)
<1>1. ASSUME NEW j \in Position, j >= PromptLen, Chosen(row2, j - 1)
      PROVE  tok[j] = Token(q, j)
  <2>1. j - 1 \in Nat
    BY <1>1, PositionNat, DenseConstants
  <2>2. Chosen(row, j - 1)
    BY <1>1, <2>1
  <2>3. QED
    BY <1>1, <2>2 DEF TokenLaw
<1>2. QED
  BY <1>1 DEF TokenLaw

LEMMA PlacesMoved ==
    ASSUME NEW b, NEW q, NEW row, NEW row2, AllPlaced(b, q, row), NEW c \in Cta,
           Moves(row, row2, c), PlaceLaw(b, q, c, row2[c])
    PROVE  AllPlaced(b, q, row2)
<1> SUFFICES ASSUME NEW e \in Cta PROVE PlaceLaw(b, q, e, row2[e])
  BY DEF AllPlaced
<1>1. CASE e = c
  BY <1>1
<1>2. CASE e # c
  BY <1>2 DEF Moves, AllPlaced
<1>3. QED
  BY <1>1, <1>2

AllBanked(b, B, row, bk) == \A c \in Cta : BankLaw(b, B, row[c], bk[c])

LEMMA BanksMoved ==
    ASSUME NEW b, NEW B, NEW row, NEW row2, NEW bk, NEW bk2, AllBanked(b, B, row, bk),
           NEW c \in Cta, Moves(row, row2, c), Moves(bk, bk2, c),
           BankLaw(b, B, row2[c], bk2[c])
    PROVE  AllBanked(b, B, row2, bk2)
<1> SUFFICES ASSUME NEW e \in Cta PROVE BankLaw(b, B, row2[e], bk2[e])
  BY DEF AllBanked
<1>1. CASE e = c
  BY <1>1
<1>2. CASE e # c
  BY <1>2 DEF Moves, AllBanked
<1>3. QED
  BY <1>1, <1>2

LEMMA RankForm ==
    ASSUME NEW b, NEW q, NEW B, NEW d, NEW s, NEW row, NEW ev, NEW gr, NEW n, NEW bk, NEW m,
           NEW tok
    PROVE  RankLaw(b, q, B, d, s, row, ev, gr, n, bk, m, tok) <=>
              /\ AllPlaced(b, q, row)
              /\ KernelLaw(b, q, d, s, row)
              /\ Barriers(b, B, row, ev, gr)
              /\ HeadLaw(B, row, n)
              /\ AllBanked(b, B, row, bk)
              /\ MemoryLaw(b, q, row, m)
              /\ TokenLaw(q, d, row, tok)
BY DEF RankLaw, AllPlaced, Barriers, AllBanked

LEMMA BankInner ==
    ASSUME NEW b, NEW B, NEW x, NEW y, NEW k, BankLaw(b, B, x, k), Inner(x, y),
           x.at \notin Idle, y.at \notin Idle
    PROVE  BankLaw(b, B, y, k)
BY DEF BankLaw, Inner

\* A move within a stage.
LEMMA RankInner ==
    ASSUME NEW b, NEW q, NEW B, NEW d, NEW s, NEW row, NEW row2, NEW ev, NEW gr, NEW n,
           NEW n2, NEW bk, NEW m, NEW m2, NEW tok, NEW tok2,
           RankLaw(b, q, B, d, s, row, ev, gr, n, bk, m, tok),
           AllLocated(row), AllLocated(row2),
           NEW c \in Cta, Moves(row, row2, c), Inner(row[c], row2[c]),
           row[c].at \notin Idle, row2[c].at \notin Idle,
           PlaceLaw(b, q, c, row2[c]), HeadLaw(B, row2, n2), MemoryLaw(b, q, row2, m2),
           TokenLaw(q, d, row2, tok2)
    PROVE  RankLaw(b, q, B, d, s, row2, ev, gr, n2, bk, m2, tok2)
<1>1. /\ AllPlaced(b, q, row) /\ KernelLaw(b, q, d, s, row) /\ Barriers(b, B, row, ev, gr)
      /\ AllBanked(b, B, row, bk)
  BY RankForm
<1>2. AllPlaced(b, q, row2)
  BY <1>1, PlacesMoved
<1>3. KernelLaw(b, q, d, s, row2)
  <2>1. FirstOf(b, q, d) <= row[c].step /\ row[c].step < FirstOf(b, q, d + 1)
    BY <1>1 DEF KernelLaw
  <2>2. row2[c].step = row[c].step
    BY DEF Inner
  <2>3. row[c].at # "away" /\ row2[c].at # "away" /\ row2[c].at # "done"
    BY DEF Idle
  <2>4. QED
    BY <1>1, <2>1, <2>2, <2>3, KernelMove
<1>4. Barriers(b, B, row2, ev, gr)
  <2>1. ASSUME NEW e \in Cta PROVE Inner(row[e], row2[e])
    BY DEF Moves, Inner
  <2>2. QED
    BY <1>1, <2>1, InnerBarriers
<1>5. AllBanked(b, B, row2, bk)
  <2>1. BankLaw(b, B, row2[c], bk[c])
    BY <1>1, BankInner DEF AllBanked
  <2>2. Moves(bk, bk, c)
    BY DEF Moves
  <2>3. QED
    BY <1>1, <2>1, <2>2, BanksMoved
<1>6. QED
  BY <1>2, <1>3, <1>4, <1>5, RankForm

\* The rest of the row, when the head's count does not see the move.
LEMMA HeadsSame ==
    ASSUME NEW row, NEW row2, NEW c \in Cta, Moves(row, row2, c),
           SameHeadAt(row[c], row2[c])
    PROVE  SamePast(row, row2) /\ \A B, n : HeadLaw(B, row, n) => HeadLaw(B, row2, n)
<1>1. ASSUME NEW e \in Cta PROVE SameHeadAt(row[e], row2[e])
  BY DEF Moves, SameHeadAt
<1>2. QED
  BY <1>1, SameHead

LEMMA SentMoves ==
    ASSUME NEW row, NEW row2, NEW c \in Cta, Moves(row, row2, c),
           \A g \in DenseStage : Reduces(g) => \A t \in 0 .. (XTiles - 1) : t % Grid = c =>
               Sent(row2[c], g, t) = Sent(row[c], g, t)
    PROVE  SameSent(row, row2)
<1> SUFFICES ASSUME NEW g \in DenseStage, Reduces(g), NEW t \in 0 .. (XTiles - 1)
             PROVE  Sent(row2[t % Grid], g, t) = Sent(row[t % Grid], g, t)
  BY DEF SameSent
<1>1. t % Grid \in Cta
  BY Owner, DenseConstants
<1>2. CASE t % Grid = c
  BY <1>2
<1>3. CASE t % Grid # c
  BY <1>1, <1>3 DEF Moves
<1>4. QED
  BY <1>2, <1>3

-----------------------------------------------------------------------------
(***************************************************************************)
(* The state: where a running CTA stands in its kernel, and how a step of  *)
(* one rank carries over to the invariant.                                 *)
(***************************************************************************)
LEMMA RequestFacts ==
    ASSUME NEW q \in Nat, q >= 1, q <= Len(NewTokens)
    PROVE  /\ q \in DOMAIN NewTokens /\ NewTokens[q] \in Nat /\ NewTokens[q] >= 1
           /\ TotalSteps(q) \in Nat /\ TotalSteps(q) >= PromptLen
           /\ TotalSteps(q) = PromptLen + NewTokens[q] - 1
           /\ 0 .. (PromptLen + NewTokens[q]) \in SUBSET Position
<1>1. NewTokens \in Seq(Nat \ {0})
  BY DenseAssumption DEF DenseAssumption
<1>2. q \in DOMAIN NewTokens /\ NewTokens[q] \in Nat /\ NewTokens[q] >= 1
  BY <1>1
<1>3. 0 .. (PromptLen + NewTokens[q]) \in SUBSET Position
  BY <1>2 DEF Position
<1>4. QED
  BY <1>2, <1>3, DenseConstants DEF TotalSteps

\* The steps of the rounds follow one another; the first round is the prompt's.
LEMMA FirstFacts ==
    ASSUME NEW b \in [embed : BOOLEAN, groups : BOOLEAN, loop : BOOLEAN],
           NEW q \in Nat, q >= 1, q <= Len(NewTokens), NEW k \in Nat
    PROVE  /\ Rounds(b, q) \in Nat /\ Rounds(b, q) >= 2
           /\ FirstOf(b, q, k) \in Nat /\ FirstOf(b, q, k + 1) \in Nat
           /\ FirstOf(b, q, 0) = 0 /\ FirstOf(b, q, 1) = 0
           /\ k = 0 => FirstOf(b, q, k) = 0 /\ FirstOf(b, q, k + 1) = 0
           /\ FirstOf(b, q, Rounds(b, q)) = TotalSteps(q)
           /\ k + 1 <= Rounds(b, q) =>
                 /\ FirstOf(b, q, k) <= FirstOf(b, q, k + 1)
                 /\ FirstOf(b, q, k + 1) <= TotalSteps(q)
                 /\ k >= 1 => FirstOf(b, q, k) < FirstOf(b, q, k + 1)
<1>1. /\ TotalSteps(q) \in Nat /\ NewTokens[q] \in Nat /\ NewTokens[q] >= 1
      /\ TotalSteps(q) = PromptLen + NewTokens[q] - 1 /\ PromptLen \in Nat /\ PromptLen >= 1
  BY RequestFacts, DenseConstants
<1>2. PICK N \in Nat, T \in Nat : N = NewTokens[q] /\ T = TotalSteps(q)
  BY <1>1
<1>3. CASE b.loop
  BY <1>1, <1>2, <1>3 DEF Rounds, FirstOf
<1>4. CASE ~b.loop
  <2>1. /\ Rounds(b, q) = T + 1 /\ T \in Nat /\ T >= 1
        /\ \A j \in Nat : FirstOf(b, q, j) = IF j = 0 THEN 0 ELSE j - 1
    BY <1>1, <1>2, <1>4 DEF Rounds, FirstOf
  <2>2. PICK a, e : a = FirstOf(b, q, k) /\ e = FirstOf(b, q, k + 1)
    OBVIOUS
  <2>3. a = (IF k = 0 THEN 0 ELSE k - 1) /\ e = k
    BY <2>1, <2>2
  <2>4. FirstOf(b, q, 0) = 0 /\ FirstOf(b, q, 1) = 0 /\ FirstOf(b, q, T + 1) = T
    BY <2>1
  <2>5. a \in Nat /\ e \in Nat /\ (k = 0 => a = 0 /\ e = 0)
    BY <2>3
  <2>6. k + 1 <= T + 1 => a <= e /\ e <= T /\ (k >= 1 => a < e)
    BY <2>1, <2>3
  <2>7. /\ Rounds(b, q) \in Nat /\ Rounds(b, q) >= 2
        /\ FirstOf(b, q, Rounds(b, q)) = TotalSteps(q)
    <3>1. FirstOf(b, q, Rounds(b, q)) = FirstOf(b, q, T + 1)
      BY <2>1
    <3>2. Rounds(b, q) \in Nat /\ Rounds(b, q) >= 2
      BY <2>1
    <3>3. QED
      BY <1>2, <2>4, <3>1, <3>2
  <2>8. /\ FirstOf(b, q, k) \in Nat /\ FirstOf(b, q, k + 1) \in Nat
        /\ k = 0 => FirstOf(b, q, k) = 0 /\ FirstOf(b, q, k + 1) = 0
    BY <2>2, <2>5
  <2>9. k + 1 <= Rounds(b, q) =>
           /\ FirstOf(b, q, k) <= FirstOf(b, q, k + 1)
           /\ FirstOf(b, q, k + 1) <= TotalSteps(q)
           /\ k >= 1 => FirstOf(b, q, k) < FirstOf(b, q, k + 1)
    <3>1. k + 1 <= Rounds(b, q) => a <= e /\ e <= TotalSteps(q) /\ (k >= 1 => a < e)
      BY <1>2, <2>1, <2>6
    <3>2. QED
      BY <2>2, <3>1
  <2>10. QED
    BY <2>4, <2>7, <2>8, <2>9
<1>5. QED
  BY <1>3, <1>4

Command4 == [request : Nat, first : Nat, count : Nat, iteration : Nat]

Others(r) ==
    \A s \in Rank : s # r =>
        /\ events'[s] = events[s] /\ groups'[s] = groups[s] /\ arrived'[s] = arrived[s]
        /\ bank'[s] = bank[s] /\ memory'[s] = memory[s] /\ tokens'[s] = tokens[s]
        /\ stream'[s] = stream[s] /\ iteration'[s] = iteration[s]

\* The laws of rank r, in the state.
RankHolds(B, r) ==
    /\ StreamLaw(build, host.request, B, Issued(host.next, r), stream[r], iteration[r])
    /\ RankLaw(build, host.request, B, Done[r], stream[r] # <<>>, Places[r], events[r],
               groups[r], arrived[r], bank[r], memory[r], tokens[r])

LEMMA ServesForm ==
    ASSUME NEW B
    PROVE  Serves(B) <=> /\ \A r \in Rank : RankHolds(B, r)
                         /\ Apart(host.request, B, Places, packets, exchange)
BY DEF Serves, RankHolds, Apart

\* A step of rank r alone.
LEMMA Assemble ==
    ASSUME NEW B \in Nat, Serves(B), Serving, NEW r \in Rank,
           build' = build, host' = host, Others(r),
           \A s \in Rank : s # r => Places'[s] = Places[s],
           RankHolds(B, r)', NEW q, q = host.request,
           Apart(q, B, Places', packets', exchange'), DenseType'
    PROVE  DenseInv'
<1>1. ASSUME NEW s \in Rank, s # r PROVE RankHolds(B, s)'
  <2>1. RankHolds(B, s)
    BY ServesForm
  <2>2. Done'[s] = Done[s]
    BY <1>1 DEF Done, Others
  <2>3. /\ events'[s] = events[s] /\ groups'[s] = groups[s] /\ arrived'[s] = arrived[s]
        /\ bank'[s] = bank[s] /\ memory'[s] = memory[s] /\ tokens'[s] = tokens[s]
        /\ stream'[s] = stream[s] /\ iteration'[s] = iteration[s] /\ Places'[s] = Places[s]
    BY <1>1 DEF Others
  <2>4. QED
    BY <2>1, <2>2, <2>3 DEF RankHolds
<1>2. \A s \in Rank : RankHolds(B, s)'
  BY <1>1
<1>3. Apart(host.request, B, Places, packets, exchange)'
  OBVIOUS
<1>4. Serves(B)'
  BY <1>2, <1>3 DEF Serves, RankHolds, Apart
<1>5. Serving'
  BY DEF Serving
<1>6. QED
  BY <1>4, <1>5 DEF DenseInv

LEMMA BuildType ==
    ASSUME build \in Builds
    PROVE  build \in [embed : BOOLEAN, groups : BOOLEAN, loop : BOOLEAN]
BY DenseAssumption DEF DenseAssumption

\* What a stream holds, from what was issued.
LEMMA StreamFacts ==
    ASSUME DenseType, NEW B \in Nat, NEW r \in Rank, RankHolds(B, r), Serving
    PROVE  /\ Done[r] \in Nat /\ Done[r] + Len(stream[r]) = Issued(host.next, r)
           /\ Done[r] + Len(stream[r]) <= Rounds(build, host.request)
           /\ Issued(host.next, r) \in Nat /\ Len(stream[r]) \in Nat
           /\ \A j \in 1 .. Len(stream[r]) :
                 stream[r][j] = Command(build, host.request, B, Done[r] + j - 1)
           /\ stream[r] # <<>> =>
                 /\ Len(stream[r]) >= 1
                 /\ Kernel(r) = Command(build, host.request, B, Done[r])
                 /\ Done[r] + 1 <= Rounds(build, host.request)
<1>1. /\ host.request \in Nat /\ host.request >= 1 /\ host.next \in Nat /\ host.next >= 1
      /\ stream[r] \in Seq(Command4)
  BY DEF DenseType, Command4
<1>2. PICK s \in Seq(Command4) : s = stream[r]
  BY <1>1
<1>3. Len(s) \in Nat
  OBVIOUS
<1>4. Issued(host.next, r) \in Nat
  <2>1. World \in Nat /\ World >= 1 /\ host.next - 1 \in Nat
    BY <1>1, DenseConstants
  <2>2. (host.next - 1) \div World \in Nat
    BY <2>1
  <2>3. QED
    BY <2>2 DEF Issued
<1>5. PICK i \in Nat : i = Issued(host.next, r)
  BY <1>4
<1>6. PICK d : d = Done[r]
  OBVIOUS
<1>7. /\ i <= Rounds(build, host.request) /\ Len(s) <= i
      /\ \A j \in 1 .. Len(s) : s[j] = Command(build, host.request, B, i - Len(s) + j - 1)
  BY <1>2, <1>5 DEF RankHolds, StreamLaw
<1>8. d = i - Len(s)
  BY <1>2, <1>5, <1>6 DEF Done
<1>9. d \in Nat /\ d + Len(s) = i
  BY <1>3, <1>7, <1>8
<1>10. \A j \in 1 .. Len(s) : s[j] = Command(build, host.request, B, d + j - 1)
  BY <1>7, <1>8
<1>11. s # <<>> => /\ Len(s) >= 1 /\ Head(s) = Command(build, host.request, B, d)
                   /\ d + 1 <= Rounds(build, host.request)
  <2>1. SUFFICES ASSUME s # <<>>
                 PROVE  /\ Len(s) >= 1 /\ Head(s) = Command(build, host.request, B, d)
                        /\ d + 1 <= Rounds(build, host.request)
    OBVIOUS
  <2>2. Len(s) >= 1 /\ Head(s) = s[1]
    BY <2>1
  <2>3. d + 1 - 1 = d /\ 1 \in 1 .. Len(s)
    BY <1>3, <1>9, <2>2
  <2>4. s[1] = Command(build, host.request, B, d)
    BY <1>10, <2>3
  <2>5. Rounds(build, host.request) \in Nat
    BY <1>1, BuildType, FirstFacts DEF DenseType, Serving
  <2>6. QED
    BY <1>3, <1>7, <1>9, <2>2, <2>4, <2>5
<1>12. QED
  BY <1>2, <1>3, <1>5, <1>6, <1>7, <1>9, <1>10, <1>11 DEF Kernel

LEMMA PlacesTyped ==
    ASSUME DenseType, NEW B \in Nat, NEW r \in Rank, RankHolds(B, r), Serving
    PROVE  /\ Places[r] \in [Cta -> PlaceSet] /\ AllLocated(Places[r])
           /\ \A c \in Cta : cta[r][c].at \notin Idle => Places[r][c] = cta[r][c]
           /\ \A c \in Cta : Places[r][c] =
                 [cta[r][c] EXCEPT !.step = StepOf(build, host.request, Done[r], cta[r][c])]
           /\ \A c \in Cta : Places[r][c].at = cta[r][c].at
<1>1. ASSUME NEW c \in Cta
      PROVE  /\ Places[r][c] \in PlaceSet /\ Places[r][c].at = cta[r][c].at
             /\ cta[r][c].at \notin Idle => Places[r][c] = cta[r][c]
             /\ Places[r][c] =
                 [cta[r][c] EXCEPT !.step = StepOf(build, host.request, Done[r], cta[r][c])]
  <2>1. cta[r][c] \in PlaceSet
    BY DEF DenseType
  <2>2. PICK a \in Where, p \in Nat, g \in DenseStage, t \in Nat, v \in Sound :
           cta[r][c] = [at |-> a, step |-> p, stage |-> g, task |-> t, held |-> v]
    BY <2>1, PlaceFields DEF Located
  <2>3. PICK k : k = StepOf(build, host.request, Done[r], cta[r][c])
    OBVIOUS
  <2>4. k \in Nat /\ (a \notin Idle => k = p)
    <3>1. FirstOf(build, host.request, Done[r]) \in Nat
          /\ FirstOf(build, host.request, Done[r] + 1) \in Nat
      BY StreamFacts, FirstFacts, BuildType DEF DenseType, Serving
    <3>2. QED
      BY <2>2, <2>3, <3>1 DEF StepOf, Idle
  <2>5. Places[r][c] = [cta[r][c] EXCEPT !.step = k]
    BY <2>3 DEF Places
  <2>6. Places[r][c] = [at |-> a, step |-> k, stage |-> g, task |-> t, held |-> v]
    BY <2>2, <2>5
  <2>7. Places[r][c] \in PlaceSet
    BY <2>4, <2>6, PlaceIntro
  <2>8. QED
    BY <2>2, <2>3, <2>4, <2>5, <2>6, <2>7
<1>2. Places[r] \in [Cta -> PlaceSet]
  <2>1. DOMAIN Places[r] = Cta /\ Places[r] = [c \in Cta |-> Places[r][c]]
    BY DEF Places
  <2>2. QED
    BY <1>1, <2>1
<1>3. AllLocated(Places[r])
  BY <1>1, PlaceFields DEF AllLocated
<1>4. QED
  BY <1>1, <1>2, <1>3

-----------------------------------------------------------------------------
(* A CTA that runs: rigid names for what it stands in. *)
Runs(B, r, c, b, q, d, row, x) ==
    /\ Serves(B) /\ Serving /\ RankHolds(B, r)
    /\ b = build /\ q = host.request /\ d = Done[r] /\ row = Places[r] /\ x = row[c]
    /\ b \in [embed : BOOLEAN, groups : BOOLEAN, loop : BOOLEAN]
    /\ q \in Nat /\ q >= 1 /\ q <= Len(NewTokens) /\ d \in Nat /\ d >= 1
    /\ d + 1 <= Rounds(b, q)
    /\ AllLocated(row) /\ row \in [Cta -> PlaceSet] /\ x \in PlaceSet
    /\ x = cta[r][c]
    /\ stream[r] # <<>>
    /\ Kernel(r) = Command(b, q, B, d)
    /\ RankLaw(b, q, B, d, TRUE, row, events[r], groups[r], arrived[r], bank[r], memory[r],
               tokens[r])
    /\ \A s \in Rank : AllLocated(Places[s]) /\ BarrierLaw(b, Places[s])
    /\ Apart(q, B, Places, packets, exchange)
    /\ FirstOf(b, q, d) <= x.step /\ x.step < FirstOf(b, q, d + 1)
    /\ x.step < TotalSteps(q)
    /\ Now(r, c) = Value(q, x.step, x.stage)
    /\ Iteration(r, c) = B + x.step

LEMMA KernelTrue ==
    ASSUME NEW b, NEW q, NEW B, NEW d, NEW s \in BOOLEAN, s, NEW row, NEW ev, NEW gr, NEW n,
           NEW bk, NEW m, NEW tok
    PROVE  RankLaw(b, q, B, d, s, row, ev, gr, n, bk, m, tok)
              <=> RankLaw(b, q, B, d, TRUE, row, ev, gr, n, bk, m, tok)
BY DEF RankLaw, KernelLaw

LEMMA Context ==
    ASSUME DenseInv, NEW r \in Rank, NEW c \in Cta, cta[r][c].at \notin Idle
    PROVE  \E B \in Nat : \E b, q, d, row, x : Runs(B, r, c, b, q, d, row, x)
<1>1. Serving
  BY DEF DenseInv, Idle
<1>2. PICK B \in Nat : Serves(B)
  BY <1>1 DEF DenseInv
<1>3. DenseType /\ \A s \in Rank : RankHolds(B, s)
  BY <1>2, ServesForm DEF DenseInv
<1>4. PICK b, q, d, row, x : b = build /\ q = host.request /\ d = Done[r] /\ row = Places[r]
                             /\ x = row[c]
  OBVIOUS
<1>5. /\ b \in [embed : BOOLEAN, groups : BOOLEAN, loop : BOOLEAN]
      /\ q \in Nat /\ q >= 1 /\ q <= Len(NewTokens)
  BY <1>1, <1>3, <1>4, BuildType DEF DenseType, Serving
<1>6. /\ AllLocated(row) /\ row \in [Cta -> PlaceSet] /\ x = cta[r][c]
  BY <1>1, <1>3, <1>4, PlacesTyped
<1>7. x \in PlaceSet
  BY <1>4, <1>6
<1>8. PICK s \in BOOLEAN : s <=> stream[r] # <<>>
  OBVIOUS
<1>9. RankLaw(b, q, B, d, s, row, events[r], groups[r], arrived[r], bank[r], memory[r],
              tokens[r])
  BY <1>3, <1>4, <1>8 DEF RankHolds, RankLaw, KernelLaw
<1>10. s /\ d >= 1 /\ FirstOf(b, q, d) <= x.step /\ x.step < FirstOf(b, q, d + 1)
  BY <1>4, <1>6, <1>9 DEF RankLaw, KernelLaw, Idle
<1>11. RankLaw(b, q, B, d, TRUE, row, events[r], groups[r], arrived[r], bank[r], memory[r],
               tokens[r])
  BY <1>9, <1>10, KernelTrue
<1>12. /\ d \in Nat /\ d + 1 <= Rounds(b, q) /\ stream[r] # <<>>
       /\ Kernel(r) = Command(b, q, B, d)
  BY <1>1, <1>3, <1>4, <1>8, <1>10, StreamFacts
<1>13. \A e \in Rank : AllLocated(Places[e]) /\ BarrierLaw(b, Places[e])
  <2>1. TAKE e \in Rank
  <2>2. RankHolds(B, e)
    BY <1>3
  <2>3. AllLocated(Places[e])
    BY <1>1, <1>3, <2>2, PlacesTyped
  <2>4. BarrierLaw(b, Places[e])
    BY <1>4, <2>2 DEF RankHolds, RankLaw
  <2>5. QED
    BY <2>3, <2>4
<1>14. Apart(q, B, Places, packets, exchange)
  BY <1>2, <1>4, ServesForm
<1>15. /\ FirstOf(b, q, d) \in Nat /\ FirstOf(b, q, d + 1) <= TotalSteps(q)
       /\ FirstOf(b, q, d + 1) \in Nat /\ TotalSteps(q) \in Nat
  BY <1>5, <1>12, FirstFacts, RequestFacts
<1>16. x.step \in Nat
  BY <1>7, PlaceFields DEF Located
<1>17. x.step < TotalSteps(q)
  BY <1>10, <1>15, <1>16
<1>18. Now(r, c) = Value(q, x.step, x.stage)
  BY <1>6, <1>12 DEF Now, Command
<1>19. Iteration(r, c) = B + x.step
  <2>1. PICK f \in Nat : f = FirstOf(b, q, d)
    BY <1>15
  <2>2. Kernel(r).iteration = B + f /\ Kernel(r).first = f
    BY <1>12, <2>1 DEF Command
  <2>3. Iteration(r, c) = B + f + x.step - f
    BY <1>6, <2>2 DEF Iteration
  <2>4. QED
    BY <1>16, <2>3
<1>20. Runs(B, r, c, b, q, d, row, x)
  BY <1>1, <1>2, <1>3, <1>4, <1>5, <1>6, <1>7, <1>10, <1>11, <1>12, <1>13, <1>14, <1>17,
     <1>18, <1>19 DEF Runs
<1>21. QED
  BY <1>20

\* Only the CTA c of r goes on, to z.
GoesTo(r, c, z) ==
    /\ z \in PlaceSet
    /\ cta' \in [Rank -> [Cta -> PlaceSet]]
    /\ cta'[r][c] = z
    /\ \A e \in Cta : e # c => cta'[r][e] = cta[r][e]
    /\ \A s \in Rank : s # r => cta'[s] = cta[s]

LEMMA Goes ==
    ASSUME DenseType, NEW r \in Rank, NEW c \in Cta, NEW z \in PlaceSet,
           cta' = [cta EXCEPT ![r] = [cta[r] EXCEPT ![c] = z]]
    PROVE  GoesTo(r, c, z)
<1>1. cta \in [Rank -> [Cta -> PlaceSet]]
  BY DEF DenseType
<1>2. PICK K \in [Cta -> PlaceSet] : K = cta[r]
  BY <1>1
<1>3. PICK K2 \in [Cta -> PlaceSet] : K2 = [K EXCEPT ![c] = z]
  OBVIOUS
<1>4. cta' = [cta EXCEPT ![r] = K2]
  BY <1>2, <1>3
<1>5. K2[c] = z /\ \A e \in Cta : e # c => K2[e] = K[e]
  BY <1>3
<1>6. cta' \in [Rank -> [Cta -> PlaceSet]] /\ cta'[r] = K2
      /\ \A s \in Rank : s # r => cta'[s] = cta[s]
  BY <1>1, <1>4
<1>7. QED
  BY <1>2, <1>5, <1>6 DEF GoesTo

LEMMA Relocate ==
    ASSUME DenseType, NEW r \in Rank, NEW c \in Cta, NEW z, GoesTo(r, c, z),
           build' = build, host' = host, stream' = stream
    PROVE  /\ Done' = Done
           /\ \A s \in Rank : s # r => Places'[s] = Places[s]
           /\ Moves(Places[r], Places'[r], c)
           /\ z.at \notin Idle => Places'[r][c] = z
           /\ z.at = "done" =>
                 Places'[r][c] = [z EXCEPT !.step = FirstOf(build, host.request, Done[r] + 1)]
<1>1. Done' = Done
  BY DEF Done
<1>2. \A s \in Rank : s # r => Places'[s] = Places[s]
  BY <1>1 DEF Places, GoesTo
<1>3. \A e \in Cta : e # c => Places'[r][e] = Places[r][e]
  BY <1>1 DEF Places, GoesTo
<1>4. Places'[r][c] = [z EXCEPT !.step = StepOf(build, host.request, Done[r], z)]
  BY <1>1 DEF Places, GoesTo
<1>5. z \in PlaceSet
  BY DEF GoesTo
<1>6. z = [at |-> z.at, step |-> z.step, stage |-> z.stage, task |-> z.task, held |-> z.held]
  BY <1>5, PlaceFields
<1>7. z.at \notin Idle => StepOf(build, host.request, Done[r], z) = z.step
  BY DEF StepOf, Idle
<1>8. z.at \notin Idle => Places'[r][c] = z
  BY <1>4, <1>6, <1>7
<1>9. z.at = "done" =>
         Places'[r][c] = [z EXCEPT !.step = FirstOf(build, host.request, Done[r] + 1)]
  BY <1>4 DEF StepOf
<1>10. QED
  BY <1>1, <1>2, <1>3, <1>8, <1>9 DEF Moves

\* The step of a running CTA keeps the invariant when it keeps its rank's laws
\* and those between ranks.
LEMMA CtaFinish ==
    ASSUME NEW B \in Nat, NEW r \in Rank, NEW c \in Cta, NEW b, NEW q, NEW d, NEW row, NEW x,
           Runs(B, r, c, b, q, d, row, x),
           build' = build, host' = host, stream' = stream, iteration' = iteration,
           Done' = Done, Others(r), \A s \in Rank : s # r => Places'[s] = Places[s],
           NEW row2, row2 = Places'[r],
           RankLaw(b, q, B, d, TRUE, row2, events'[r], groups'[r], arrived'[r], bank'[r],
                   memory'[r], tokens'[r]),
           Apart(q, B, Places', packets', exchange'), DenseType'
    PROVE  DenseInv'
<1>1. /\ Serves(B) /\ Serving /\ RankHolds(B, r) /\ b = build /\ q = host.request
      /\ d = Done[r] /\ stream[r] # <<>>
  BY DEF Runs
<1>2. PICK s \in BOOLEAN : s <=> stream'[r] # <<>>
  OBVIOUS
<1>3. RankLaw(b, q, B, d, s, row2, events'[r], groups'[r], arrived'[r], bank'[r],
              memory'[r], tokens'[r])
  BY <1>1, <1>2, KernelTrue
<1>4. RankLaw(build', host'.request, B, Done'[r], stream'[r] # <<>>, Places'[r], events'[r],
              groups'[r], arrived'[r], bank'[r], memory'[r], tokens'[r])
  BY <1>1, <1>2, <1>3 DEF RankLaw, KernelLaw
<1>5. StreamLaw(build', host'.request, B, Issued(host'.next, r), stream'[r], iteration'[r])
  BY <1>1 DEF RankHolds
<1>6. RankHolds(B, r)'
  BY <1>4, <1>5 DEF RankHolds
<1>7. QED
  BY <1>1, <1>6, Assemble

LEMMA Placed ==
    ASSUME DenseInv, NEW B \in Nat, NEW r \in Rank, NEW c \in Cta, NEW b, NEW q, NEW d, NEW row,
           NEW x, Runs(B, r, c, b, q, d, row, x), NEW z, GoesTo(r, c, z), z.at \notin Idle,
           build' = build, host' = host, stream' = stream
    PROVE  \E row2 : /\ row2 = Places'[r] /\ Moves(row, row2, c) /\ row2[c] = z
                     /\ AllLocated(row2) /\ AllLocated(row) /\ row[c] = x
                     /\ Located(x) /\ Located(z) /\ x \in PlaceSet /\ z \in PlaceSet
                     /\ Done' = Done /\ \A s \in Rank : s # r => Places'[s] = Places[s]
<1>1. DenseType /\ row = Places[r] /\ x \in PlaceSet /\ AllLocated(row) /\ row[c] = x
  BY DEF Runs, DenseInv
<1>2. PICK row2 : row2 = Places'[r]
  OBVIOUS
<1>3. /\ Done' = Done /\ Moves(row, row2, c) /\ row2[c] = z
      /\ \A s \in Rank : s # r => Places'[s] = Places[s]
  BY <1>1, <1>2, Relocate
<1>4. z \in PlaceSet /\ Located(z) /\ Located(x)
  BY <1>1, PlaceFields DEF GoesTo
<1>5. AllLocated(row2)
  <2>1. SUFFICES ASSUME NEW e \in Cta PROVE Located(row2[e])
    BY DEF AllLocated
  <2>2. CASE e = c
    BY <1>3, <1>4, <2>2
  <2>3. CASE e # c
    BY <1>1, <1>3, <2>3 DEF Moves, AllLocated
  <2>4. QED
    BY <2>2, <2>3
<1>6. QED
  BY <1>1, <1>2, <1>3, <1>4, <1>5

\* A move within a stage keeps the invariant when it keeps what is left to show.
LEMMA InnerFinish ==
    ASSUME NEW B \in Nat, NEW r \in Rank, NEW c \in Cta, NEW b, NEW q, NEW d, NEW row, NEW x,
           Runs(B, r, c, b, q, d, row, x), NEW z, x.at \notin Idle, z.at \notin Idle,
           NEW row2, row2 = Places'[r], Moves(row, row2, c), row2[c] = z,
           AllLocated(row2), Done' = Done, \A s \in Rank : s # r => Places'[s] = Places[s],
           Inner(x, z), PlaceLaw(b, q, c, z),
           build' = build, host' = host, stream' = stream, iteration' = iteration,
           bank' = bank, events' = events, groups' = groups, Others(r),
           HeadLaw(B, row2, arrived'[r]), MemoryLaw(b, q, row2, memory'[r]),
           TokenLaw(q, d, row2, tokens'[r]),
           Apart(q, B, Places', packets', exchange'), DenseType'
    PROVE  DenseInv'
<1>1. /\ AllLocated(row) /\ row[c] = x
      /\ RankLaw(b, q, B, d, TRUE, row, events[r], groups[r], arrived[r], bank[r], memory[r],
                 tokens[r])
  BY DEF Runs
<1>2. PICK ev, gr, n, n2, bk, m, m2, tok, tok2 :
         /\ ev = events[r] /\ gr = groups[r] /\ n = arrived[r] /\ n2 = arrived'[r]
         /\ bk = bank[r] /\ m = memory[r] /\ m2 = memory'[r] /\ tok = tokens[r]
         /\ tok2 = tokens'[r]
  OBVIOUS
<1>3. RankLaw(b, q, B, d, TRUE, row, ev, gr, n, bk, m, tok)
  BY <1>1, <1>2
<1>4. /\ Inner(row[c], row2[c]) /\ row[c].at \notin Idle /\ row2[c].at \notin Idle
      /\ PlaceLaw(b, q, c, row2[c]) /\ HeadLaw(B, row2, n2) /\ MemoryLaw(b, q, row2, m2)
      /\ TokenLaw(q, d, row2, tok2)
  BY <1>1, <1>2
<1>5. RankLaw(b, q, B, d, TRUE, row2, ev, gr, n2, bk, m2, tok2)
  BY <1>1, <1>3, <1>4, RankInner
<1>6. RankLaw(b, q, B, d, TRUE, row2, events'[r], groups'[r], arrived'[r], bank'[r],
              memory'[r], tokens'[r])
  BY <1>2, <1>5
<1>7. QED
  BY <1>6, CtaFinish

\* A CTA of a layer or the head finds the operands of its stage.
LEMMA OperandsRead ==
    ASSUME DenseType, NEW B \in Nat, NEW r \in Rank, NEW c \in Cta, NEW b, NEW q, NEW d,
           NEW row, NEW x,
           Runs(B, r, c, b, q, d, row, x), x.at \notin Idle, x.at # "wait", x.stage >= 1
    PROVE  /\ Operands(r, c).stage = x.stage
           /\ x.stage >= 2 => Operands(r, c) = Record(x.stage, x.step, B + x.step + 1)
           /\ Output(r, c) = Value(q, x.step, x.stage)
<1>1. PICK k : k = bank[r][c]
  OBVIOUS
<1>2. BankLaw(b, B, x, k) /\ x = cta[r][c] /\ x \in PlaceSet /\ Now(r, c) = Value(q, x.step, x.stage)
  BY <1>1 DEF Runs, RankLaw
<1>3. Operands(r, c) = k[x.stage % 2]
  BY <1>1, <1>2 DEF Operands
<1>4. /\ Operands(r, c).stage = x.stage
      /\ x.stage >= 2 => Operands(r, c) = Record(x.stage, x.step, B + x.step + 1)
  BY <1>2, <1>3 DEF BankLaw
<1>5. Kind(x.stage) \in {"attention", "head"} => x.stage >= 2
  <2>1. x.stage \in DenseStage
    BY <1>2, PlaceFields DEF Located
  <2>2. Kind(x.stage) = "head" => x.stage = HeadStage
    BY <2>1, KindFacts
  <2>3. Kind(x.stage) = "attention" => x.stage >= 2
    BY <2>1, KindFacts
  <2>4. QED
    BY <2>2, <2>3, DenseConstants
<1>6. Output(r, c) = Value(q, x.step, x.stage)
  <2>1. CASE Kind(x.stage) \in {"attention", "head"}
    <3>1. Operands(r, c).past = x.step
      BY <1>4, <1>5, <2>1 DEF Record
    <3>2. Output(r, c) = Value(Now(r, c).request, Operands(r, c).past, Operands(r, c).stage)
      BY <1>2, <2>1 DEF Output, AtKind
    <3>3. QED
      BY <1>2, <1>4, <3>1, <3>2 DEF Value
  <2>2. CASE Kind(x.stage) \notin {"attention", "head"}
    <3>1. Output(r, c) = Value(Now(r, c).request, Now(r, c).past, Operands(r, c).stage)
      BY <1>2, <2>2 DEF Output, AtKind
    <3>2. QED
      BY <1>2, <1>4, <3>1 DEF Value
  <2>3. QED
    BY <2>1, <2>2
<1>7. QED
  BY <1>4, <1>6

\* A task finds the stage before, of this step, and so computes what it is for.
LEMMA ResultRead ==
    ASSUME DenseType, NEW B \in Nat, NEW r \in Rank, NEW c \in Cta, NEW b, NEW q, NEW d,
           NEW row, NEW x,
           Runs(B, r, c, b, q, d, row, x), x.at = "task", x.stage >= 1,
           x.task < Tasks(x.stage)
    PROVE  Result(r, c) = Value(q, x.step, x.stage)
<1>1. PICK m : m = memory[r]
  OBVIOUS
<1>2. m \in MemorySet
  BY <1>1 DEF DenseType
<1>3. /\ row[c] = x /\ AllLocated(row) /\ x = cta[r][c] /\ x \in PlaceSet
      /\ Now(r, c) = Value(q, x.step, x.stage)
      /\ RankLaw(b, q, B, d, TRUE, row, events[r], groups[r], arrived[r], bank[r], memory[r],
                 tokens[r])
  BY DEF Runs
<1>4. /\ BarrierLaw(b, row) /\ GroupFree(b, row) /\ AllPlaced(b, q, row)
      /\ MemoryLaw(b, q, row, m)
  BY <1>1, <1>3 DEF RankLaw, AllPlaced
<1>5. Reads(m, Kind(x.stage), x.task) = {Value(q, x.step, x.stage - 1)}
  <2>1. row[c].at = "task" /\ row[c].stage >= 1 /\ row[c].task < Tasks(row[c].stage)
    BY <1>3
  <2>2. QED
    BY <1>2, <1>3, <1>4, <2>1, ReadsCurrent
<1>6. Inputs(r, c) = Reads(m, Kind(x.stage), x.task)
  <2>1. Kind(x.stage) \in {"qkv", "attention", "o", "gate_up", "down", "head"}
    <3>1. x.stage \in DenseStage /\ x.stage # 0
      BY <1>3, PlaceFields DEF Located
    <3>2. QED
      BY <3>1, KindFacts DEF Kinds
  <2>2. CASE Kind(x.stage) \in {"qkv", "gate_up", "head"}
    BY <1>1, <1>3, <2>2 DEF Inputs, Reads, AtKind
  <2>3. CASE Kind(x.stage) = "attention"
    BY <1>1, <1>3, <2>3 DEF Inputs, Reads, AtKind
  <2>4. CASE Kind(x.stage) = "o"
    BY <1>1, <1>3, <2>4 DEF Inputs, Reads, AtKind
  <2>5. CASE Kind(x.stage) = "down"
    BY <1>1, <1>3, <2>5 DEF Inputs, Reads, AtKind
  <2>6. QED
    BY <2>1, <2>2, <2>3, <2>4, <2>5
<1>7. [Now(r, c) EXCEPT !.stage = @ - 1] = Value(q, x.step, x.stage - 1)
  BY <1>3 DEF Value
<1>8. Result(r, c) = Output(r, c)
  BY <1>5, <1>6, <1>7 DEF Result
<1>9. Output(r, c) = Value(q, x.step, x.stage)
  BY OperandsRead DEF Idle
<1>10. QED
  BY <1>8, <1>9

-----------------------------------------------------------------------------
(***************************************************************************)
(* The steps of a running CTA.                                             *)
(***************************************************************************)
SentStep(c, x, y) ==
    \/ Staying(x, y) /\ (y.at = "reduce" <=> x.at = "reduce")
    \/ Advancing(x, y) /\ ~Reduces(x.stage) /\ y.at # "reduce" /\ x.at # "reduce"
    \/ Advancing(x, y) /\ x.at = "reduce" /\ y.at # "reduce"
    \/ Resting(c, x, y)
    \/ Entering(c, x, y) /\ y.at # "reduce"
    \/ Bypassing(c, x, y)

LEMMA SentKept ==
    ASSUME NEW b, NEW q, NEW row, NEW row2, NEW c \in Cta, Moves(row, row2, c),
           Located(row[c]), Located(row2[c]), PlaceLaw(b, q, c, row[c]),
           SentStep(c, row[c], row2[c])
    PROVE  SameSent(row, row2)
<1>1. PICK x, y : x = row[c] /\ y = row2[c]
  OBVIOUS
<1>2. x.at = "reduce" => Reduces(x.stage) /\ x.task % Grid = c
  BY <1>1 DEF PlaceLaw, Idle
<1>3. \/ Staying(x, y) /\ (y.at = "reduce" <=> x.at = "reduce")
      \/ Advancing(x, y) /\ ~Reduces(x.stage) /\ y.at # "reduce" /\ x.at # "reduce"
      \/ Advancing(x, y) /\ x.at = "reduce" /\ y.at # "reduce"
      \/ Resting(c, x, y)
      \/ Entering(c, x, y) /\ y.at # "reduce"
      \/ Bypassing(c, x, y)
  BY <1>1 DEF SentStep
<1>4. \A g \in DenseStage : Reduces(g) => \A t \in 0 .. (XTiles - 1) : t % Grid = c =>
          Sent(y, g, t) = Sent(x, g, t)
  BY <1>1, <1>2, <1>3, SentMove
<1>5. QED
  BY <1>1, <1>4, SentMoves

LEMMA QuietMemory ==
    ASSUME NEW b, NEW q, NEW row, NEW row2, AllLocated(row), AllLocated(row2),
           b.embed => SamePast(row, row2), NEW m, MemoryLaw(b, q, row, m),
           NEW c \in Cta, Moves(row, row2, c),
           QuietMove(b, row, c, row[c], row2[c]), PartialStays(row[c], row2[c])
    PROVE  MemoryLaw(b, q, row2, m) /\ SameEmbeds(b, row, row2)
<1>1. \A e \in Cta : QuietMove(b, row, e, row[e], row2[e])
  <2>1. TAKE e \in Cta
  <2>2. CASE e = c
    BY <2>2
  <2>3. CASE e # c
    BY <2>3 DEF Moves, QuietMove, Staying
  <2>4. QED
    BY <2>2, <2>3
<1>2. \A e \in Cta : PartialStays(row[e], row2[e])
  BY DEF Moves, PartialStays
<1>3. QED
  BY <1>1, <1>2, MemoryQuiet

LEMMA SameTokens ==
    ASSUME NEW q, NEW d, NEW row, NEW row2, NEW tok, TokenLaw(q, d, row, tok),
           SamePast(row, row2)
    PROVE  TokenLaw(q, d, row2, tok)
<1>1. \A n \in Nat : Chosen(row2, n) => Chosen(row, n)
  BY DEF SamePast
<1>2. QED
  BY <1>1, TokenKept

\* A value computed for a request is in use.
LEMMA SoundValue ==
    ASSUME NEW q \in Nat, q >= 1, NEW p \in Nat, NEW g \in Nat
    PROVE  /\ Value(q, p, g) \in Sound /\ Value(q, p, g) \in Val
           /\ Nothing \in Sound /\ Nothing \in Val /\ Value(q, p, g) # Nothing
           /\ Garbled \notin Sound
BY DEF Value, Sound, Val, Nothing, Garbled

LEMMA MemoryGoes ==
    ASSUME DenseType, NEW r \in Rank, NEW m2 \in MemorySet,
           memory' = [memory EXCEPT ![r] = m2]
    PROVE  /\ memory' \in [Rank -> MemorySet] /\ memory'[r] = m2
           /\ \A s \in Rank : s # r => memory'[s] = memory[s]
<1>1. memory \in [Rank -> MemorySet]
  BY DEF DenseType
<1>2. QED
  BY <1>1

\* The laws a running CTA can count on.
Stands(B, r, c, b, q, d, row, x) ==
    /\ AllPlaced(b, q, row) /\ PlaceLaw(b, q, c, x)
    /\ Barriers(b, B, row, events[r], groups[r]) /\ BarrierLaw(b, row)
    /\ HeadLaw(B, row, arrived[r]) /\ AllBanked(b, B, row, bank[r])
    /\ KernelLaw(b, q, d, TRUE, row)
    /\ MemoryLaw(b, q, row, memory[r]) /\ TokenLaw(q, d, row, tokens[r])
    /\ Apart(q, B, Places, packets, exchange) /\ row = Places[r]
    /\ x = cta[r][c] /\ x = row[c] /\ x \in PlaceSet /\ AllLocated(row) /\ Located(x)
    /\ q \in Nat /\ q >= 1 /\ q <= Len(NewTokens) /\ B \in Nat

LEMMA RankParts ==
    ASSUME NEW r \in Rank, NEW c \in Cta, cta[r][c].at \notin Idle, DenseInv
    PROVE  \E B, b, q, d, row, x :
              B \in Nat /\ Runs(B, r, c, b, q, d, row, x) /\ Stands(B, r, c, b, q, d, row, x)
<1>0. PICK B \in Nat : \E b, q, d, row, x : Runs(B, r, c, b, q, d, row, x)
  BY Context
<1>1. PICK b, q, d, row, x : Runs(B, r, c, b, q, d, row, x)
  BY <1>0
<1>2. /\ RankLaw(b, q, B, d, TRUE, row, events[r], groups[r], arrived[r], bank[r], memory[r],
                 tokens[r])
      /\ Apart(q, B, Places, packets, exchange) /\ row = Places[r]
      /\ x = cta[r][c] /\ x = row[c] /\ x \in PlaceSet /\ AllLocated(row)
      /\ q \in Nat /\ q >= 1 /\ q <= Len(NewTokens)
  BY <1>1 DEF Runs
<1>3. /\ AllPlaced(b, q, row) /\ Barriers(b, B, row, events[r], groups[r])
      /\ HeadLaw(B, row, arrived[r]) /\ AllBanked(b, B, row, bank[r])
      /\ KernelLaw(b, q, d, TRUE, row)
      /\ MemoryLaw(b, q, row, memory[r]) /\ TokenLaw(q, d, row, tokens[r])
  BY <1>2, RankForm
<1>4. PlaceLaw(b, q, c, x) /\ BarrierLaw(b, row) /\ Located(x)
  BY <1>2, <1>3 DEF AllPlaced, Barriers, AllLocated
<1>5. Stands(B, r, c, b, q, d, row, x)
  BY <1>0, <1>2, <1>3, <1>4 DEF Stands
<1>6. QED
  BY <1>0, <1>1, <1>5

LEMMA NextOwn ==
    ASSUME NEW t \in Nat, NEW c \in Cta, t % Grid = c, t >= c
    PROVE  (t + Grid) % Grid = c /\ t + Grid > c /\ t + Grid >= c /\ t + Grid \in Nat
<1>1. (t + Grid) % Grid = t % Grid
  BY SameOwner
<1>2. Grid \in Nat /\ Grid >= 1
  BY DenseConstants
<1>3. QED
  BY <1>1, <1>2 DEF Cta

LEMMA TaskPlace ==
    ASSUME NEW b, NEW q, NEW c, NEW z, z.at = "task", z.task % Grid = c, z.task >= c,
           z.held = IF z.stage = HeadStage /\ z.task > c
                    THEN Value(q, z.step, HeadStage) ELSE Nothing
    PROVE  PlaceLaw(b, q, c, z)
<1>1. z.at \notin {"reduce", "wait", "offer", "join", "flag", "await", "choose"} \cup Idle \cup Deciding
  BY DEF Idle, Deciding
<1>2. QED
  BY <1>1 DEF PlaceLaw

Place(a, p, g, t, h) == [at |-> a, step |-> p, stage |-> g, task |-> t, held |-> h]

\* The place of c of r is set, or a field of it.
SetTo(C, r, c, z) == [C EXCEPT ![r] = [C[r] EXCEPT ![c] = z]]
SetAt(C, r, c, u) == [C EXCEPT ![r][c].at = u]
SetTask(C, r, c, u) == [C EXCEPT ![r][c].task = u]
SetStage(C, r, c, u) == [C EXCEPT ![r][c].stage = u]
SetHeld(C, r, c, u) == [C EXCEPT ![r][c].held = u]
At(C, r, c) == C[r][c]
Placing(C) == C \in [Rank -> [Cta -> PlaceSet]]

LEMMA PlaceOne ==
    ASSUME NEW C, NEW r, NEW c, NEW a, NEW p, NEW g, NEW t, NEW h,
           At(C, r, c) = Place(a, p, g, t, h), NEW u
    PROVE  /\ SetAt(C, r, c, u) = SetTo(C, r, c, Place(u, p, g, t, h))
           /\ SetTask(C, r, c, u) = SetTo(C, r, c, Place(a, p, g, u, h))
           /\ SetStage(C, r, c, u) = SetTo(C, r, c, Place(a, p, u, t, h))
           /\ SetHeld(C, r, c, u) = SetTo(C, r, c, Place(a, p, g, t, u))
<1>1. PICK x : x = C[r][c] /\ x = [at |-> a, step |-> p, stage |-> g, task |-> t, held |-> h]
  BY DEF Place, At
<1>2. /\ [x EXCEPT !.at = u] = Place(u, p, g, t, h)
      /\ [x EXCEPT !.task = u] = Place(a, p, g, u, h)
      /\ [x EXCEPT !.stage = u] = Place(a, p, u, t, h)
      /\ [x EXCEPT !.held = u] = Place(a, p, g, t, u)
  BY <1>1 DEF Place
<1>3. /\ SetAt(C, r, c, u) = SetTo(C, r, c, [C[r][c] EXCEPT !.at = u])
      /\ SetTask(C, r, c, u) = SetTo(C, r, c, [C[r][c] EXCEPT !.task = u])
      /\ SetStage(C, r, c, u) = SetTo(C, r, c, [C[r][c] EXCEPT !.stage = u])
      /\ SetHeld(C, r, c, u) = SetTo(C, r, c, [C[r][c] EXCEPT !.held = u])
  BY DEF SetTo, SetAt, SetTask, SetStage, SetHeld
<1>4. QED
  BY <1>1, <1>2, <1>3

\* An update of a place that was just set.
LEMMA PlaceAgain ==
    ASSUME NEW C, Placing(C), NEW r \in Rank, NEW c \in Cta, NEW z, NEW w
    PROVE  /\ SetTo(SetTo(C, r, c, z), r, c, w) = SetTo(C, r, c, w)
           /\ At(SetTo(C, r, c, z), r, c) = z
<1>1. PICK K, K1 : K = C[r] /\ K1 = [K EXCEPT ![c] = z] /\ K \in [Cta -> PlaceSet]
  BY DEF Placing
<1>2. PICK C1 : C1 = SetTo(C, r, c, z)
  OBVIOUS
<1>3. C1 = [C EXCEPT ![r] = K1] /\ C1[r] = K1 /\ K1[c] = z
  BY <1>1, <1>2 DEF SetTo, Placing
<1>4. [K1 EXCEPT ![c] = w] = [K EXCEPT ![c] = w]
  BY <1>1
<1>5. SetTo(C1, r, c, w) = SetTo(C, r, c, w) /\ At(C1, r, c) = z
  BY <1>1, <1>3, <1>4 DEF SetTo, Placing, At
<1>6. QED
  BY <1>2, <1>5

\* Two fields, one after the other.
LEMMA PlaceTwo ==
    ASSUME NEW C, Placing(C), NEW r \in Rank, NEW c \in Cta,
           NEW a, NEW p, NEW g, NEW t, NEW h, NEW u, NEW D, D = SetTo(C, r, c, Place(a, p, g, t, h))
    PROVE  /\ SetAt(D, r, c, u) = SetTo(C, r, c, Place(u, p, g, t, h))
           /\ SetTask(D, r, c, u) = SetTo(C, r, c, Place(a, p, g, u, h))
           /\ SetStage(D, r, c, u) = SetTo(C, r, c, Place(a, p, u, t, h))
           /\ SetHeld(D, r, c, u) = SetTo(C, r, c, Place(a, p, g, t, u))
<1>1. At(D, r, c) = Place(a, p, g, t, h)
  BY PlaceAgain
<1>2. \A w : SetTo(D, r, c, w) = SetTo(C, r, c, w)
  BY PlaceAgain
<1>3. QED
  BY <1>1, <1>2, PlaceOne

\* What the steps do to their CTA's place.
LEMMA PlaceHere ==
    ASSUME NEW C, Placing(C), NEW r \in Rank, NEW c \in Cta, NEW x, x = C[r][c]
    PROVE  At(C, r, c) = Place(x.at, x.step, x.stage, x.task, x.held)
<1>1. x \in PlaceSet
  BY DEF Placing
<1>2. QED
  BY <1>1, PlaceFields DEF Place, At

LEMMA TaskSet ==
    ASSUME NEW C, Placing(C), NEW r \in Rank, NEW c \in Cta, NEW x, x = C[r][c], NEW u
    PROVE  SetTask(C, r, c, u) = SetTo(C, r, c, Place(x.at, x.step, x.stage, u, x.held))
BY PlaceHere, PlaceOne

LEMMA AtSet ==
    ASSUME NEW C, Placing(C), NEW r \in Rank, NEW c \in Cta, NEW x, x = C[r][c], NEW u
    PROVE  SetAt(C, r, c, u) = SetTo(C, r, c, Place(u, x.step, x.stage, x.task, x.held))
BY PlaceHere, PlaceOne

LEMMA HeldSet ==
    ASSUME NEW C, Placing(C), NEW r \in Rank, NEW c \in Cta, NEW x, x = C[r][c], NEW u
    PROVE  SetHeld(C, r, c, u) = SetTo(C, r, c, Place(x.at, x.step, x.stage, x.task, u))
BY PlaceHere, PlaceOne

LEMMA StageSet ==
    ASSUME NEW C, Placing(C), NEW r \in Rank, NEW c \in Cta, NEW x, x = C[r][c], NEW u
    PROVE  SetStage(C, r, c, u) = SetTo(C, r, c, Place(x.at, x.step, u, x.task, x.held))
BY PlaceHere, PlaceOne

LEMMA TaskHeldSet ==
    ASSUME NEW C, Placing(C), NEW r \in Rank, NEW c \in Cta, NEW x, x = C[r][c], NEW u, NEW v
    PROVE  SetHeld(SetTask(C, r, c, u), r, c, v) =
               SetTo(C, r, c, Place(x.at, x.step, x.stage, u, v))
BY TaskSet, PlaceTwo

LEMMA AtHeldSet ==
    ASSUME NEW C, Placing(C), NEW r \in Rank, NEW c \in Cta, NEW x, x = C[r][c], NEW u, NEW v
    PROVE  SetHeld(SetAt(C, r, c, u), r, c, v) =
               SetTo(C, r, c, Place(u, x.step, x.stage, x.task, v))
BY AtSet, PlaceTwo

LEMMA HeldAtSet ==
    ASSUME NEW C, Placing(C), NEW r \in Rank, NEW c \in Cta, NEW x, x = C[r][c], NEW u, NEW v
    PROVE  SetAt(SetHeld(C, r, c, v), r, c, u) =
               SetTo(C, r, c, Place(u, x.step, x.stage, x.task, v))
BY HeldSet, PlaceTwo

LEMMA StageTaskSet ==
    ASSUME NEW C, Placing(C), NEW r \in Rank, NEW c \in Cta, NEW x, x = C[r][c], NEW u, NEW v
    PROVE  SetTask(SetStage(C, r, c, u), r, c, v) =
               SetTo(C, r, c, Place(x.at, x.step, u, v, x.held))
BY StageSet, PlaceTwo

LEMMA AtTaskSet ==
    ASSUME NEW C, Placing(C), NEW r \in Rank, NEW c \in Cta, NEW x, x = C[r][c], NEW u, NEW w
    PROVE  SetTask(SetAt(C, r, c, u), r, c, w) =
               SetTo(C, r, c, Place(u, x.step, x.stage, w, x.held))
BY AtSet, PlaceTwo

LEMMA AtTaskHeldSet ==
    ASSUME NEW C, Placing(C), NEW r \in Rank, NEW c \in Cta, NEW x, x = C[r][c], NEW u, NEW v, NEW w
    PROVE  SetHeld(SetTask(SetAt(C, r, c, u), r, c, w), r, c, v) =
               SetTo(C, r, c, Place(u, x.step, x.stage, w, v))
BY AtTaskSet, PlaceTwo

LEMMA PlaceForm ==
    ASSUME NEW x \in PlaceSet
    PROVE  x = Place(x.at, x.step, x.stage, x.task, x.held)
BY PlaceFields DEF Place

LEMMA ScoreKeeps ==
    ASSUME DenseInv, NEW r \in Rank, NEW c \in Cta, Score(r, c)
    PROVE  DenseInv'
<1>1. /\ cta[r][c].at = "task" /\ cta[r][c].task < Tasks(cta[r][c].stage)
      /\ Kind(cta[r][c].stage) = "head" /\ DenseType
  BY DEF Score, TaskLeft, Standing, AtKind, DenseInv
<1>2. PICK B, b, q, d, row, x :
         B \in Nat /\ Runs(B, r, c, b, q, d, row, x) /\ Stands(B, r, c, b, q, d, row, x)
  BY <1>1, RankParts DEF Idle, DenseInv
<1>3. /\ AllPlaced(b, q, row) /\ PlaceLaw(b, q, c, x) /\ BarrierLaw(b, row)
      /\ HeadLaw(B, row, arrived[r]) /\ MemoryLaw(b, q, row, memory[r])
      /\ TokenLaw(q, d, row, tokens[r]) /\ Apart(q, B, Places, packets, exchange)
      /\ row = Places[r] /\ x = cta[r][c] /\ x = row[c] /\ x \in PlaceSet
      /\ q \in Nat /\ q >= 1
  BY <1>2 DEF Stands
<1>4. /\ Located(x) /\ x.stage = HeadStage /\ x.at = "task" /\ x.task < Tasks(x.stage)
      /\ HeadStage \in Nat /\ HeadStage >= 11 /\ Grid \in Nat /\ Grid >= 1
      /\ Kind(x.stage) = "head"
  <2>1. Located(x) /\ x.stage \in DenseStage
    BY <1>3, PlaceFields DEF Located
  <2>2. QED
    BY <1>1, <1>3, <2>1, KindFacts, DenseConstants
<1>5. PICK v : v = Value(q, x.step, HeadStage)
  OBVIOUS
<1>6. Result(r, c) = v
  BY <1>1, <1>2, <1>4, <1>5, ResultRead
<1>7. x.held \in {Nothing, v} /\ x.task % Grid = c /\ x.task >= c
  BY <1>3, <1>4, <1>5 DEF PlaceLaw, Idle
<1>8. v \in Sound
  BY <1>3, <1>4, <1>5, SoundValue DEF Located
<1>9. PICK z : z = [at |-> "task", step |-> x.step, stage |-> x.stage, task |-> x.task + Grid,
                    held |-> v]
  OBVIOUS
<1>10. z \in PlaceSet
  BY <1>4, <1>8, <1>9, PlaceIntro DEF Located, Where
<1>11. cta' = [cta EXCEPT ![r] = [cta[r] EXCEPT ![c] = z]]
  <2>0. PICK u : u = x.task + Grid
    OBVIOUS
  <2>1. PICK C : C = cta /\ Placing(C)
    BY <1>1 DEF DenseType, Placing
  <2>2. cta' = SetHeld(SetTask(C, r, c, u), r, c, v)
    <3>1. PICK C1 : C1 = SetTask(C, r, c, u)
      OBVIOUS
    <3>2. C1 = [C EXCEPT ![r][c].task = @ + Grid]
      BY <1>3, <2>0, <2>1, <3>1 DEF SetTask
    <3>3. C1[r][c].held = x.held
      BY <1>3, <2>1, <3>2 DEF Placing, PlaceSet
    <3>4. cta' = [C1 EXCEPT ![r][c].held = IF @ \in {Nothing, v} THEN v ELSE Garbled]
      BY <1>6, <2>1, <3>2 DEF Score
    <3>5. cta' = [C1 EXCEPT ![r][c].held = v]
      BY <1>7, <3>3, <3>4
    <3>6. QED
      BY <3>1, <3>5 DEF SetHeld
  <2>3. SetHeld(SetTask(C, r, c, u), r, c, v) =
            SetTo(C, r, c, Place(x.at, x.step, x.stage, u, v))
    <3>1. x = C[r][c]
      BY <1>3, <2>1
    <3>2. QED
      BY <2>1, <3>1, TaskHeldSet
  <2>4. QED
    BY <1>4, <1>9, <2>0, <2>1, <2>2, <2>3 DEF SetTo, Place
<1>12. GoesTo(r, c, z)
  BY <1>1, <1>10, <1>11, Goes
<1>13. UNCHANGED <<build, host, iteration, stream, bank, memory, tokens, events, groups, arrived,
                   packets, exchange>>
  BY DEF Score, hostVars, counterVars, linkVars
<1>14. PICK row2 : /\ row2 = Places'[r] /\ Moves(row, row2, c) /\ row2[c] = z
                   /\ AllLocated(row2) /\ AllLocated(row) /\ row[c] = x
                   /\ Located(x) /\ Located(z) /\ x \in PlaceSet /\ z \in PlaceSet
                   /\ Done' = Done /\ \A s \in Rank : s # r => Places'[s] = Places[s]
  BY <1>2, <1>9, <1>12, <1>13, Placed DEF Idle
<1>15. /\ z.at = "task" /\ z.step = x.step /\ z.stage = x.stage /\ z.task = x.task + Grid
       /\ z.held = v
  BY <1>9
<1>16. Inner(x, z) /\ Advancing(x, z)
  BY <1>4, <1>15 DEF Inner, Advancing
<1>17. PlaceLaw(b, q, c, z)
  <2>1. (x.task + Grid) % Grid = c /\ x.task + Grid > c /\ x.task + Grid >= c
    BY <1>4, <1>7, NextOwn DEF Located
  <2>2. QED
    BY <1>4, <1>5, <1>15, <2>1, TaskPlace
<1>18. SameHeadAt(x, z)
  BY <1>4, <1>15 DEF SameHeadAt, Scored, Deciding
<1>19. SamePast(row, row2) /\ HeadLaw(B, row2, arrived[r])
  BY <1>3, <1>14, <1>18, HeadsSame
<1>20. MemoryLaw(b, q, row2, memory[r])
  <2>1. QuietMove(b, row, c, x, z)
    BY <1>4, <1>16 DEF QuietMove
  <2>2. PartialStays(x, z)
    BY <1>4, <1>15 DEF PartialStays, Scored, Deciding
  <2>3. QED
    BY <1>3, <1>14, <1>19, <2>1, <2>2, QuietMemory
<1>21. TokenLaw(q, d, row2, tokens[r])
  BY <1>3, <1>19, SameTokens
<1>22. SameSent(row, row2)
  <2>1. SentStep(c, x, z)
    BY <1>4, <1>15, <1>16 DEF SentStep, Reduces
  <2>2. QED
    BY <1>3, <1>14, <2>1, SentKept
<1>23. Apart(q, B, Places', packets, exchange)
  BY <1>3, <1>14, <1>19, <1>22, ApartQuiet
<1>24. DenseType'
  BY <1>1, <1>12, <1>13 DEF DenseType, GoesTo
<1>25. Others(r)
  BY <1>13 DEF Others
<1>26. x.at \notin Idle /\ z.at \notin Idle
  BY <1>4, <1>15 DEF Idle
<1>27. HeadLaw(B, row2, arrived'[r]) /\ MemoryLaw(b, q, row2, memory'[r])
       /\ TokenLaw(q, d, row2, tokens'[r]) /\ Apart(q, B, Places', packets', exchange')
  BY <1>13, <1>19, <1>20, <1>21, <1>23
<1>28. QED
  BY <1>2, <1>13, <1>14, <1>16, <1>17, <1>24, <1>25, <1>26, <1>27, InnerFinish

\* c of r has gone from x to z, and the rows are row and row2.
Stepped(r, c, row, row2, x, z) ==
    /\ row2 = Places'[r] /\ Moves(row, row2, c) /\ row2[c] = z
    /\ AllLocated(row2) /\ AllLocated(row) /\ row[c] = x
    /\ Located(x) /\ Located(z) /\ x \in PlaceSet /\ z \in PlaceSet
    /\ Done' = Done /\ \A s \in Rank : s # r => Places'[s] = Places[s]

LEMMA StepTo ==
    ASSUME DenseInv, NEW B \in Nat, NEW r \in Rank, NEW c \in Cta, NEW b, NEW q, NEW d, NEW row,
           NEW x, Runs(B, r, c, b, q, d, row, x), NEW z \in PlaceSet,
           cta' = SetTo(cta, r, c, z), z.at \notin Idle,
           build' = build, host' = host, stream' = stream
    PROVE  GoesTo(r, c, z) /\ \E row2 : Stepped(r, c, row, row2, x, z)
<1>1. DenseType
  BY DEF DenseInv
<1>2. GoesTo(r, c, z)
  BY <1>1, Goes DEF SetTo
<1>3. PICK row2 : /\ row2 = Places'[r] /\ Moves(row, row2, c) /\ row2[c] = z
                  /\ AllLocated(row2) /\ AllLocated(row) /\ row[c] = x
                  /\ Located(x) /\ Located(z) /\ x \in PlaceSet /\ z \in PlaceSet
                  /\ Done' = Done /\ \A s \in Rank : s # r => Places'[s] = Places[s]
  BY <1>2, Placed
<1>4. QED
  BY <1>2, <1>3 DEF Stepped

\* A move that the head and the packets do not see.
LEMMA QuietApart ==
    ASSUME NEW q, NEW B, NEW P, NEW P2, NEW r \in Rank, NEW pk, NEW pk2, NEW ex,
           \A s \in Rank : s # r => P2[s] = P[s], SamePast(P[r], P2[r]),
           Apart(q, B, P, pk, ex), PacketLaw(q, B, P2, pk2)
    PROVE  Apart(q, B, P2, pk2, ex)
<1>1. \A s \in Rank : SamePast(P[s], P2[s])
  <2>1. TAKE s \in Rank
  <2>2. CASE s = r
    BY <2>2
  <2>3. CASE s # r
    BY <2>3, SameTrivial
  <2>4. QED
    BY <2>2, <2>3
<1>2. SkewLaw(P) /\ ExchangeLaw(q, B, P, ex)
  BY DEF Apart
<1>3. SkewLaw(P2) /\ ExchangeLaw(q, B, P2, ex)
  BY <1>1, <1>2, SkewSame, ExchangeSame
<1>4. QED
  BY <1>3 DEF Apart

LEMMA SlotsTyped ==
    ASSUME NEW r \in Rank, NEW i \in 0 .. (2 * Layers - 1), NEW t \in 0 .. (XTiles - 1),
           NEW w \in PacketSet, NEW pk \in Slots, NEW pk2,
           pk2 = [s \in Rank |-> IF s = r THEN pk[s] ELSE [pk[s] EXCEPT ![i][r][t] = w]]
    PROVE  pk2 \in Slots
<1>1. PICK A, T : A = 0 .. (2 * Layers - 1) /\ T = 0 .. (XTiles - 1)
  OBVIOUS
<1>2. i \in A /\ t \in T /\ pk \in [Rank -> [A -> [Rank -> [T -> PacketSet]]]]
  BY <1>1 DEF Slots
<1>3. ASSUME NEW s \in Rank PROVE pk2[s] \in [A -> [Rank -> [T -> PacketSet]]]
  <2>1. PICK K : K = pk[s] /\ K \in [A -> [Rank -> [T -> PacketSet]]]
    BY <1>2
  <2>2. PICK L : L = K[i] /\ L \in [Rank -> [T -> PacketSet]]
    BY <1>2, <2>1
  <2>3. PICK M : M = L[r] /\ M \in [T -> PacketSet]
    BY <2>2
  <2>40. PICK M2, L2, K2 : /\ M2 = [M EXCEPT ![t] = w] /\ L2 = [L EXCEPT ![r] = M2]
                          /\ K2 = [K EXCEPT ![i] = L2]
    OBVIOUS
  <2>4. M2 \in [T -> PacketSet]
    BY <1>2, <2>3, <2>40
  <2>5. L2 \in [Rank -> [T -> PacketSet]]
    BY <2>2, <2>4, <2>40
  <2>6. K2 \in [A -> [Rank -> [T -> PacketSet]]]
    BY <1>2, <2>1, <2>5, <2>40
  <2>7. pk2[s] = IF s = r THEN K ELSE [K EXCEPT ![i][r][t] = w]
    BY <2>1
  <2>8. [K EXCEPT ![i][r][t] = w] = K2
    BY <2>2, <2>3, <2>40
  <2>9. QED
    BY <2>1, <2>6, <2>7, <2>8
<1>4. pk2 \in [Rank -> [A -> [Rank -> [T -> PacketSet]]]]
  BY <1>3
<1>5. QED
  BY <1>1, <1>4 DEF Slots

LEMMA SendKeeps ==
    ASSUME DenseInv, NEW r \in Rank, NEW c \in Cta, SendTile(r, c)
    PROVE  DenseInv'
<1>1. /\ cta[r][c].at = "task" /\ cta[r][c].task < Tasks(cta[r][c].stage)
      /\ Reduces(cta[r][c].stage) /\ DenseType
  BY DEF SendTile, TaskLeft, Standing, DenseInv
<1>2. PICK B, b, q, d, row, x :
         B \in Nat /\ Runs(B, r, c, b, q, d, row, x) /\ Stands(B, r, c, b, q, d, row, x)
  BY <1>1, RankParts DEF Idle, DenseInv
<1>3. /\ PlaceLaw(b, q, c, x) /\ HeadLaw(B, row, arrived[r])
      /\ MemoryLaw(b, q, row, memory[r]) /\ TokenLaw(q, d, row, tokens[r])
      /\ Apart(q, B, Places, packets, exchange)
      /\ row = Places[r] /\ x = cta[r][c] /\ x = row[c] /\ x \in PlaceSet /\ Located(x)
      /\ q \in Nat /\ q >= 1
  BY <1>2 DEF Stands
<1>4. PICK g, p, t : g = x.stage /\ p = x.step /\ t = x.task
  OBVIOUS
<1>5. /\ g \in DenseStage /\ p \in Nat /\ t \in Nat /\ g \in Nat /\ g >= 3 /\ g < HeadStage
      /\ Reduces(g) /\ x.at = "task" /\ t < Tasks(g) /\ Tasks(g) = XTiles
      /\ HeadStage \in Nat /\ Kind(g) \in {"o", "down"}
  <2>1. g \in DenseStage /\ p \in Nat /\ t \in Nat
    BY <1>3, <1>4 DEF Located
  <2>2. Kind(g) \in {"o", "down"}
    BY <1>1, <1>3, <1>4 DEF Reduces
  <2>3. QED
    BY <1>1, <1>3, <1>4, <2>1, <2>2, KindFacts, TaskFacts, DenseConstants
<1>6. PICK v : v = Value(q, p, g)
  OBVIOUS
<1>7. Result(r, c) = v
  BY <1>1, <1>2, <1>3, <1>4, <1>5, <1>6, ResultRead
<1>8. v \in Sound /\ v \in Val
  BY <1>3, <1>5, <1>6, SoundValue
<1>9. Operands(r, c) = Record(g, p, B + p + 1)
  BY <1>1, <1>2, <1>3, <1>4, <1>5, OperandsRead DEF Idle
<1>10. PICK z : z = Place("reduce", p, g, t, v)
  OBVIOUS
<1>11. z \in PlaceSet
  BY <1>5, <1>8, <1>10, PlaceIntro DEF Where, Place
<1>12. cta' = SetTo(cta, r, c, z)
  <2>1. cta' = [cta EXCEPT ![r][c].at = "reduce", ![r][c].held = v]
    BY <1>7 DEF SendTile
  <2>2. PICK C : C = cta /\ Placing(C)
    BY <1>1 DEF DenseType, Placing
  <2>3. cta' = SetHeld(SetAt(C, r, c, "reduce"), r, c, v)
    BY <2>1, <2>2 DEF SetHeld, SetAt
  <2>4. x = C[r][c]
    BY <1>3, <2>2
  <2>5. QED
    BY <1>4, <1>10, <2>2, <2>3, <2>4, AtHeldSet
<1>13. UNCHANGED <<build, host, iteration, stream, bank, memory, tokens, events, groups, arrived,
                   exchange>>
  BY DEF SendTile, hostVars, counterVars
<1>14. /\ z.at = "reduce" /\ z.step = p /\ z.stage = g /\ z.task = t /\ z.held = v
  BY <1>10 DEF Place
<1>15. GoesTo(r, c, z) /\ \E row2 : Stepped(r, c, row, row2, x, z)
  BY <1>2, <1>11, <1>12, <1>13, <1>14, StepTo DEF Idle
<1>16. PICK row2 : Stepped(r, c, row, row2, x, z)
  BY <1>15
<1>17. /\ row2 = Places'[r] /\ Moves(row, row2, c) /\ row2[c] = z
       /\ AllLocated(row2) /\ AllLocated(row) /\ row[c] = x
       /\ Located(x) /\ Located(z) /\ x \in PlaceSet /\ z \in PlaceSet
       /\ Done' = Done /\ \A s \in Rank : s # r => Places'[s] = Places[s]
  BY <1>16 DEF Stepped
<1>18. Inner(x, z) /\ Staying(x, z)
  BY <1>4, <1>5, <1>14 DEF Inner, Staying
<1>19. PlaceLaw(b, q, c, z)
  <2>1. t % Grid = c /\ t >= c
    BY <1>3, <1>4, <1>5 DEF PlaceLaw, Idle
  <2>2. QED
    BY <1>5, <1>6, <1>14, <2>1 DEF PlaceLaw, Idle, Deciding
<1>20. SamePast(row, row2) /\ HeadLaw(B, row2, arrived[r])
  <2>1. SameHeadAt(x, z)
    BY <1>4, <1>5, <1>14 DEF SameHeadAt, Scored, Deciding
  <2>2. QED
    BY <1>3, <1>17, <2>1, HeadsSame
<1>21. MemoryLaw(b, q, row2, memory[r])
  <2>1. QuietMove(b, row, c, x, z)
    BY <1>18 DEF QuietMove
  <2>2. PartialStays(x, z)
    BY <1>5, <1>14 DEF PartialStays
  <2>3. QED
    BY <1>3, <1>17, <1>20, <2>1, <2>2, QuietMemory
<1>22. TokenLaw(q, d, row2, tokens[r])
  BY <1>3, <1>20, SameTokens
<1>23. PICK w : w = [epoch |-> (B + p + 1) % PacketEpochs, value |-> v]
  OBVIOUS
<1>24. w \in PacketSet
  <2>1. (B + p + 1) % PacketEpochs \in Nat
    BY <1>2, <1>5, DenseConstants
  <2>2. QED
    BY <1>8, <1>23, <2>1 DEF PacketSet
<1>25. PICK pk, pk2, P, P2 : pk = packets /\ pk2 = packets' /\ P = Places /\ P2 = Places'
  OBVIOUS
<1>26. pk \in Slots
  BY <1>1, <1>25 DEF DenseType, Slots
<1>27. Region(g) \in 0 .. (2 * Layers - 1) /\ t \in 0 .. (XTiles - 1)
  BY <1>5, RegionFacts, DenseConstants
<1>28. pk2 = [s \in Rank |-> IF s = r THEN pk[s] ELSE [pk[s] EXCEPT ![Region(g)][r][t] = w]]
  <2>1. Operands(r, c).stage = g /\ Operands(r, c).epoch = B + p + 1
    BY <1>9 DEF Record
  <2>2. QED
    BY <1>3, <1>4, <1>7, <1>23, <1>25, <2>1 DEF SendTile
<1>29. SentBy(r, Region(g), t, w, pk, pk2) /\ pk2 \in Slots
  BY <1>24, <1>26, <1>27, <1>28, SendStores, SlotsTyped
<1>30. PacketLaw(q, B, P2, pk2)
  <2>1. \A s \in Rank : s # r => P2[s] = P[s]
    BY <1>17, <1>25
  <2>2. PacketLaw(q, B, P, pk) /\ P[r] = row /\ P2[r] = row2
    BY <1>3, <1>17, <1>25 DEF Apart
  <2>3. P[r][c].at = "task" /\ P2[r][c].at = "reduce" /\ Staying(P[r][c], P2[r][c])
        /\ Moves(P[r], P2[r], c) /\ Located(P[r][c]) /\ g = P[r][c].stage /\ t = P[r][c].task
        /\ p = P[r][c].step
    BY <1>3, <1>4, <1>5, <1>14, <1>17, <1>18, <2>2
  <2>4. t % Grid = c
    BY <1>3, <1>4, <1>5 DEF PlaceLaw, Idle
  <2>5. w.epoch = (B + P[r][c].step + 1) % PacketEpochs /\ w.value = Value(q, P[r][c].step, g)
    BY <1>6, <1>23, <2>3
  <2>6. QED
    BY <1>2, <1>5, <1>27, <1>29, <2>1, <2>2, <2>3, <2>4, <2>5, PacketsSent
<1>31. Apart(q, B, P2, pk2, exchange)
  <2>1. Apart(q, B, P, pk, exchange) /\ P[r] = row /\ P2[r] = row2
        /\ \A s \in Rank : s # r => P2[s] = P[s]
    BY <1>3, <1>17, <1>25
  <2>2. QED
    BY <1>20, <1>30, <2>1, QuietApart
<1>32. DenseType'
  BY <1>1, <1>13, <1>15, <1>25, <1>29 DEF DenseType, GoesTo, Slots
<1>33. Others(r)
  BY <1>13 DEF Others
<1>34. x.at \notin Idle /\ z.at \notin Idle
  BY <1>5, <1>14 DEF Idle
<1>35. HeadLaw(B, row2, arrived'[r]) /\ MemoryLaw(b, q, row2, memory'[r])
       /\ TokenLaw(q, d, row2, tokens'[r]) /\ Apart(q, B, Places', packets', exchange')
  BY <1>13, <1>20, <1>21, <1>22, <1>25, <1>31
<1>36. QED
  BY <1>2, <1>13, <1>17, <1>18, <1>19, <1>32, <1>33, <1>34, <1>35, InnerFinish

-----------------------------------------------------------------------------
(* The exchange of candidates. *)

ExchangeType(ex) == ex \in [Rank -> ExchangeSet]

LEMMA DecidingPlace ==
    ASSUME NEW b, NEW q, NEW c, NEW x, NEW z, PlaceLaw(b, q, c, x), x.at \in Deciding,
           z.step = x.step, z.stage = x.stage, z.task = x.task,
           \/ /\ z.at \in {"flag", "await", "choose"}
              /\ z.held = Value(q, x.step, HeadStage)
           \/ z.at = "join" /\ z.held = Nothing
    PROVE  PlaceLaw(b, q, c, z) /\ x.stage = HeadStage /\ z.at \notin Idle /\ x.at \notin Idle
<1>1. x.at \notin Idle /\ z.at \notin Idle \cup {"reduce", "wait", "task"}
  BY DEF Deciding, Idle
<1>2. x.task % Grid = c /\ x.task >= c /\ x.stage = HeadStage /\ x.task >= Tasks(x.stage)
  BY <1>1 DEF PlaceLaw
<1>3. QED
  BY <1>1, <1>2 DEF PlaceLaw

LEMMA DecideMemory ==
    ASSUME NEW b, NEW q, NEW row, NEW row2, AllLocated(row), AllLocated(row2),
           NEW c \in Cta, Decides(row, row2, c), Staying(row[c], row2[c]),
           \A n \in Nat : Chosen(row2, n) <=> Chosen(row, n),
           NEW m, MemoryLaw(b, q, row, m)
    PROVE  MemoryLaw(b, q, row2, m)
<1>1. Moves(row, row2, c) /\ row[c].at \in Deciding /\ row[c].stage = HeadStage
  BY DEF Decides
<1>2. \A e \in Cta : Staying(row[e], row2[e])
  BY <1>1 DEF Moves, Staying
<1>3. SameEmbeds(b, row, row2)
  <2>1. SUFFICES ASSUME NEW n \in Nat PROVE Embeds(b, row2, n) <=> Embeds(b, row, n)
    BY DEF SameEmbeds
  <2>2. 0 \in Cta
    BY DenseConstants
  <2>3. Ran(row2[0], 0, 0) = Ran(row[0], 0, 0)
    BY <1>2, <2>2 DEF Staying, Ran
  <2>4. n # 0 => (Chosen(row2, n - 1) <=> Chosen(row, n - 1))
    OBVIOUS
  <2>5. QED
    BY <2>3, <2>4 DEF Embeds
<1>4. ResidualLaw(b, q, row, m.x) /\ PartialLaw(q, row, m.partial)
  BY DEF MemoryLaw
<1>5. ResidualLaw(b, q, row2, m.x)
  BY <1>2, <1>3, <1>4, ResidualKept
<1>6. PartialLaw(q, row2, m.partial)
  <2>1. \A e \in Cta :
           row2[e].stage = HeadStage /\ Scored(row2[e]) = row2[e].step + 1 =>
               /\ row[e].stage = HeadStage /\ row2[e].step = row[e].step
               /\ Scored(row[e]) = row[e].step + 1
    <3>1. TAKE e \in Cta
    <3>2. CASE e # c
      BY <1>1, <3>2 DEF Moves
    <3>3. CASE e = c
      BY <1>1, <1>2, <3>3 DEF Scored, Staying
    <3>4. QED
      BY <3>2, <3>3
  <2>2. QED
    BY <1>4, <2>1, PartialKept
<1>7. Kind(row[c].stage) \notin {"qkv", "attention", "gate_up"}
  BY <1>1, EdgeKinds
<1>8. QED
  BY <1>1, <1>2, <1>5, <1>6, <1>7, MemoryStream

\* The deciding CTA goes on, and none but the exchange block may change.
LEMMA DecideFinish ==
    ASSUME DenseInv, NEW B \in Nat, NEW r \in Rank, NEW c \in Cta, NEW b, NEW q, NEW d, NEW row,
           NEW x, Runs(B, r, c, b, q, d, row, x), Stands(B, r, c, b, q, d, row, x),
           NEW z, NEW row2, Stepped(r, c, row, row2, x, z), GoesTo(r, c, z),
           x.at \in Deciding, z.step = x.step, z.stage = x.stage, z.task = x.task,
           z.at \in {"flag", "await", "choose"}, z.held = Value(q, x.step, HeadStage),
           UNCHANGED <<build, host, iteration, stream, bank, memory, tokens, events, groups,
                       arrived, packets>>,
           \A n \in Nat : Chosen(row2, n) <=> Chosen(row, n),
           Apart(q, B, Places', packets, exchange'), ExchangeType(exchange')
    PROVE  DenseInv'
<1>1. /\ PlaceLaw(b, q, c, x) /\ HeadLaw(B, row, arrived[r])
      /\ MemoryLaw(b, q, row, memory[r]) /\ TokenLaw(q, d, row, tokens[r])
      /\ row = Places[r] /\ x = row[c]
  BY DEF Stands
<1>2. /\ row2 = Places'[r] /\ Moves(row, row2, c) /\ row2[c] = z
      /\ AllLocated(row2) /\ AllLocated(row)
      /\ Done' = Done /\ \A s \in Rank : s # r => Places'[s] = Places[s]
  BY DEF Stepped
<1>3. PlaceLaw(b, q, c, z) /\ x.stage = HeadStage /\ z.at \notin Idle /\ x.at \notin Idle
  BY <1>1, DecidingPlace
<1>4. Inner(x, z) /\ Staying(x, z)
  BY DEF Inner, Staying, Deciding
<1>5. Decides(row, row2, c) /\ z.at \in Deciding
  BY <1>1, <1>2, <1>3 DEF Decides, Deciding
<1>6. arrived[r] \in Nat
  BY DEF DenseInv, DenseType
<1>7. HeadLaw(B, row2, arrived[r])
  <2>1. PICK n \in Nat : n = arrived[r]
    BY <1>6
  <2>2. HeadLaw(B, row, n) /\ row2[c].at \in Deciding \cup {"join"}
    BY <1>1, <1>2, <1>5, <2>1
  <2>3. /\ row[c].at \in Deciding /\ row[c].stage = HeadStage
        /\ row2[c].step = row[c].step /\ row2[c].stage = HeadStage
    BY <1>5 DEF Decides
  <2>4. QED
    BY <1>2, <2>1, <2>2, <2>3, HeadDecide
<1>8. MemoryLaw(b, q, row2, memory[r])
  BY <1>1, <1>2, <1>4, <1>5, DecideMemory
<1>9. TokenLaw(q, d, row2, tokens[r])
  BY <1>1, TokenKept
<1>10. DenseType'
  BY DEF DenseInv, DenseType, GoesTo, ExchangeType
<1>11. Others(r)
  BY DEF Others
<1>12. HeadLaw(B, row2, arrived'[r]) /\ MemoryLaw(b, q, row2, memory'[r])
       /\ TokenLaw(q, d, row2, tokens'[r]) /\ Apart(q, B, Places', packets', exchange')
  BY <1>7, <1>8, <1>9
<1>13. QED
  BY <1>2, <1>3, <1>4, <1>10, <1>11, <1>12, InnerFinish

\* What the deciding CTA works with.
LEMMA DecidingFacts ==
    ASSUME DenseInv, NEW B \in Nat, NEW r \in Rank, NEW c \in Cta, NEW b, NEW q, NEW d, NEW row,
           NEW x, Runs(B, r, c, b, q, d, row, x), Stands(B, r, c, b, q, d, row, x),
           x.at \in Deciding
    PROVE  /\ x.stage = HeadStage /\ x.step \in Nat
           /\ Operands(r, c).epoch = B + x.step + 1 /\ Operands(r, c).past = x.step
           /\ Parity(r, c) = (B + x.step) % 2 /\ Parity(r, c) \in 0 .. 1
           /\ Output(r, c) = Value(q, x.step, HeadStage)
           /\ Value(q, x.step, HeadStage) \in Sound /\ Value(q, x.step, HeadStage) \in Val
           /\ x.at \in {"flag", "await", "choose"} => x.held = Value(q, x.step, HeadStage)
<1>1. /\ PlaceLaw(b, q, c, x) /\ x.step \in Nat /\ DenseType /\ q \in Nat /\ q >= 1
  BY DEF Stands, Located, DenseInv
<1>2. x.stage = HeadStage /\ x.at \notin Idle /\ x.at # "wait" /\ HeadStage \in Nat
      /\ HeadStage >= 11
  BY <1>1, DenseConstants DEF PlaceLaw, Deciding, Idle
<1>3. Operands(r, c) = Record(x.stage, x.step, B + x.step + 1)
      /\ Output(r, c) = Value(q, x.step, x.stage)
  BY <1>1, <1>2, OperandsRead
<1>4. Operands(r, c).epoch = B + x.step + 1 /\ Operands(r, c).past = x.step
  BY <1>3 DEF Record
<1>5. PICK k \in Nat : k = B + x.step
  BY <1>1
<1>6. Parity(r, c) = k % 2
  <2>1. Operands(r, c).epoch - 1 = k
    BY <1>4, <1>5
  <2>2. QED
    BY <2>1 DEF Parity
<1>7. x.at \in {"flag", "await", "choose"} => x.held = Value(q, x.step, HeadStage)
  BY <1>1 DEF PlaceLaw
<1>8. QED
  BY <1>1, <1>2, <1>3, <1>4, <1>5, <1>6, <1>7, ParityType, SoundValue

LEMMA DataTyped ==
    ASSUME NEW r \in Rank, NEW y \in 0 .. 1, NEW ex, ExchangeType(ex), NEW v, v \in Val, NEW ex2,
           ex2 = [s \in Rank |-> IF s = r THEN ex[s] ELSE [ex[s] EXCEPT !.data[y][r] = v]]
    PROVE  ExchangeType(ex2)
<1>1. PICK A : A = 0 .. 1
  OBVIOUS
<1>2. ASSUME NEW s \in Rank PROVE ex2[s] \in ExchangeSet
  <2>1. PICK e : e = ex[s] /\ e \in ExchangeSet
    BY DEF ExchangeType
  <2>2. PICK D, F : /\ e = [data |-> D, flag |-> F]
                    /\ D \in [A -> [Rank -> Val]] /\ F \in [A -> [Rank -> Nat]]
    BY <1>1, <2>1 DEF ExchangeSet
  <2>3. PICK D1 : D1 = D[y] /\ D1 \in [Rank -> Val]
    BY <1>1, <2>2
  <2>4. PICK D2, D3 : D2 = [D1 EXCEPT ![r] = v] /\ D3 = [D EXCEPT ![y] = D2]
    OBVIOUS
  <2>5. D2 \in [Rank -> Val]
    BY <2>3, <2>4
  <2>6. D3 \in [A -> [Rank -> Val]]
    BY <1>1, <2>2, <2>4, <2>5
  <2>7. [e EXCEPT !.data[y][r] = v] =
            [e EXCEPT !.data = [e.data EXCEPT ![y] = [e.data[y] EXCEPT ![r] = v]]]
    OBVIOUS
  <2>8. e.data = D /\ e.data[y] = D1
    BY <2>2, <2>3
  <2>9. [e.data EXCEPT ![y] = [e.data[y] EXCEPT ![r] = v]] = D3
    BY <2>4, <2>8
  <2>10. [e EXCEPT !.data = D3] = [data |-> D3, flag |-> F]
    BY <2>2
  <2>11. [e EXCEPT !.data[y][r] = v] = [data |-> D3, flag |-> F]
    BY <2>7, <2>9, <2>10
  <2>12. [data |-> D3, flag |-> F] \in ExchangeSet
    BY <1>1, <2>2, <2>6 DEF ExchangeSet
  <2>13. ex2[s] = IF s = r THEN e ELSE [e EXCEPT !.data[y][r] = v]
    BY <2>1
  <2>14. QED
    BY <2>1, <2>11, <2>12, <2>13
<1>3. DOMAIN ex2 = Rank /\ ex2 = [s \in Rank |-> ex2[s]]
  OBVIOUS
<1>4. QED
  BY <1>2, <1>3 DEF ExchangeType

Flagged(ex, r, y, v) ==
    [s \in Rank |-> IF s = r THEN ex[s] ELSE [ex[s] EXCEPT !.flag[y][r] = v]]

LEMMA FlagTyped ==
    ASSUME NEW r \in Rank, NEW y \in 0 .. 1, NEW ex, ExchangeType(ex), NEW v, v \in Nat, NEW ex2,
           ex2 = Flagged(ex, r, y, v)
    PROVE  ExchangeType(ex2)
<1>1. PICK A : A = 0 .. 1
  OBVIOUS
<1>2. ASSUME NEW s \in Rank PROVE ex2[s] \in ExchangeSet
  <2>1. PICK e : e = ex[s] /\ e \in ExchangeSet
    BY DEF ExchangeType
  <2>2. PICK D, F : /\ e = [data |-> D, flag |-> F]
                    /\ D \in [A -> [Rank -> Val]] /\ F \in [A -> [Rank -> Nat]]
    BY <1>1, <2>1 DEF ExchangeSet
  <2>3. PICK F1 : F1 = F[y] /\ F1 \in [Rank -> Nat]
    BY <1>1, <2>2
  <2>4. PICK F2, F3 : F2 = [F1 EXCEPT ![r] = v] /\ F3 = [F EXCEPT ![y] = F2]
    OBVIOUS
  <2>5. F2 \in [Rank -> Nat]
    BY <2>3, <2>4
  <2>6. F3 \in [A -> [Rank -> Nat]]
    BY <1>1, <2>2, <2>4, <2>5
  <2>7. [e EXCEPT !.flag[y][r] = v] =
            [e EXCEPT !.flag = [e.flag EXCEPT ![y] = [e.flag[y] EXCEPT ![r] = v]]]
    OBVIOUS
  <2>8. e.flag = F /\ e.flag[y] = F1
    BY <2>2, <2>3
  <2>9. [e.flag EXCEPT ![y] = [e.flag[y] EXCEPT ![r] = v]] = F3
    BY <2>4, <2>8
  <2>10. [e EXCEPT !.flag = F3] = [data |-> D, flag |-> F3]
    BY <2>2
  <2>11. [e EXCEPT !.flag[y][r] = v] = [data |-> D, flag |-> F3]
    BY <2>7, <2>9, <2>10
  <2>12. [data |-> D, flag |-> F3] \in ExchangeSet
    BY <1>1, <2>2, <2>6 DEF ExchangeSet
  <2>13. ex2[s] = IF s = r THEN e ELSE [e EXCEPT !.flag[y][r] = v]
    BY <2>1 DEF Flagged
  <2>14. QED
    BY <2>1, <2>11, <2>12, <2>13
<1>3. DOMAIN ex2 = Rank /\ ex2 = [s \in Rank |-> ex2[s]]
  BY DEF Flagged
<1>4. QED
  BY <1>2, <1>3 DEF ExchangeType

LEMMA OfferKeeps ==
    ASSUME DenseInv, NEW r \in Rank, NEW c \in Cta, OfferCandidate(r, c)
    PROVE  DenseInv'
<1>1. cta[r][c].at = "offer" /\ DenseType
  BY DEF OfferCandidate, Standing, DenseInv
<1>2. PICK B, b, q, d, row, x :
         B \in Nat /\ Runs(B, r, c, b, q, d, row, x) /\ Stands(B, r, c, b, q, d, row, x)
  BY <1>1, RankParts DEF Idle, DenseInv
<1>3. /\ PlaceLaw(b, q, c, x) /\ HeadLaw(B, row, arrived[r])
      /\ MemoryLaw(b, q, row, memory[r]) /\ Apart(q, B, Places, packets, exchange)
      /\ BarrierLaw(b, row)
      /\ row = Places[r] /\ x = cta[r][c] /\ x = row[c] /\ x \in PlaceSet /\ Located(x)
      /\ q \in Nat /\ q >= 1 /\ x.at = "offer" /\ x.at \in Deciding
  BY <1>1, <1>2 DEF Stands, Deciding
<1>4. /\ x.stage = HeadStage /\ x.step \in Nat
      /\ Operands(r, c).epoch = B + x.step + 1
      /\ Parity(r, c) = (B + x.step) % 2 /\ Parity(r, c) \in 0 .. 1
      /\ Output(r, c) = Value(q, x.step, HeadStage)
      /\ Value(q, x.step, HeadStage) \in Sound /\ Value(q, x.step, HeadStage) \in Val
      /\ x.at \in {"flag", "await", "choose"} => x.held = Value(q, x.step, HeadStage)
  BY <1>2, <1>3, DecidingFacts
<1>5. PICK p \in Nat, v \in Val, y \in 0 .. 1 :
         p = x.step /\ v = Value(q, p, HeadStage) /\ y = Parity(r, c)
  BY <1>4
<1>6. PICK z : z = Place("flag", x.step, x.stage, x.task, v)
  OBVIOUS
<1>7. z \in PlaceSet
  BY <1>3, <1>4, <1>5, <1>6, PlaceIntro DEF Where, Place, Located
<1>8. /\ z.at = "flag" /\ z.step = x.step /\ z.stage = x.stage /\ z.task = x.task
      /\ z.held = Value(q, x.step, HeadStage)
  BY <1>5, <1>6 DEF Place
<1>9. UNCHANGED <<build, host, iteration, stream, bank, memory, tokens, events, groups, arrived,
                  packets>>
  BY DEF OfferCandidate, hostVars, counterVars, linkVars
<1>10. PICK C : C = cta /\ Placing(C) /\ x = C[r][c]
  BY <1>1, <1>3 DEF DenseType, Placing
<1>11. \A e \in Cta : memory[r].partial[e] = v
  <2>1. arrived[r] \in Nat /\ AllLocated(row)
    BY <1>1, <1>2 DEF DenseType, Stands
  <2>2. ASSUME NEW e \in Cta PROVE memory[r].partial[e] = v
    <3>1. row[e].step = x.step /\ row[e].stage = HeadStage /\ Scored(row[e]) = row[e].step + 1
      <4>1. row[c].at \in Deciding /\ row[c].stage = HeadStage /\ row[c].step = x.step
        BY <1>3, <1>4
      <4>2. BarrierLaw(b, row) /\ HeadLaw(B, row, arrived[r]) /\ AllLocated(row)
        BY <1>3, <2>1
      <4>3. row[e].step = row[c].step /\ row[e].stage = HeadStage /\ Scored(row[e]) = row[e].step + 1
        BY <4>1, <4>2, AroundDeciding
      <4>4. QED
        BY <4>1, <4>3
    <3>2. PartialLaw(q, row, memory[r].partial)
      BY <1>3 DEF MemoryLaw
    <3>3. QED
      BY <1>5, <3>1, <3>2 DEF PartialLaw
  <2>3. QED
    BY <2>2
<1>12. /\ cta' = [cta EXCEPT ![r][c].at = "flag", ![r][c].held = v]
       /\ exchange' = [s \in Rank |-> IF s = r THEN exchange[s]
                           ELSE [exchange[s] EXCEPT !.data[Parity(r, c)][r] = v]]
  <2>1. PICK partials : partials = memory[r].partial /\ \A e \in Cta : partials[e] = v
    BY <1>11
  <2>2. Output(r, c) = v
    BY <1>4, <1>5
  <2>3. (IF \A e \in Cta : partials[e] = v THEN v ELSE Garbled) = v
    BY <2>1
  <2>4. QED
    BY <2>1, <2>2, <2>3 DEF OfferCandidate
<1>13. cta' = SetTo(cta, r, c, z)
  <2>1. cta' = SetHeld(SetAt(C, r, c, "flag"), r, c, v)
    BY <1>10, <1>12 DEF SetHeld, SetAt
  <2>2. QED
    BY <1>6, <1>10, <2>1, AtHeldSet
<1>14. GoesTo(r, c, z) /\ \E row2 : Stepped(r, c, row, row2, x, z)
  BY <1>2, <1>7, <1>8, <1>9, <1>13, StepTo DEF Idle
<1>15. PICK row2 : Stepped(r, c, row, row2, x, z)
  BY <1>14
<1>16. /\ row2 = Places'[r] /\ Moves(row, row2, c) /\ row2[c] = z
       /\ AllLocated(row2) /\ AllLocated(row) /\ \A s \in Rank : s # r => Places'[s] = Places[s]
  BY <1>15 DEF Stepped
<1>17. Decides(row, row2, c)
  BY <1>3, <1>4, <1>8, <1>16 DEF Decides
<1>18. PICK n \in Nat : n = arrived[r]
  BY <1>1 DEF DenseType
<1>19. row[c].at = "offer" /\ row2[c].at = "flag" /\ p = row[c].step /\ HeadLaw(B, row, n)
  BY <1>3, <1>5, <1>8, <1>16, <1>18
<1>20. \A k \in Nat : Chosen(row2, k) <=> Chosen(row, k)
  BY <1>2, <1>16, <1>17, <1>19, DecideSteps
<1>21. SameSent(row, row2)
  <2>1. SentStep(c, x, z)
    BY <1>3, <1>8 DEF SentStep, Staying
  <2>2. QED
    BY <1>3, <1>16, <2>1, SentKept DEF AllLocated
<1>22. PICK P, P2, pk, ex, ex2 : /\ P = Places /\ P2 = Places' /\ pk = packets
                                 /\ ex = exchange /\ ex2 = exchange'
  OBVIOUS
<1>23. /\ \A s \in Rank : s # r => P2[s] = P[s]
       /\ P[r] = row /\ P2[r] = row2 /\ Apart(q, B, P, pk, ex)
       /\ AllLocated(P[r]) /\ AllLocated(P2[r]) /\ HeadLaw(B, P[r], n)
       /\ Decides(P[r], P2[r], c) /\ SameSent(P[r], P2[r])
       /\ P[r][c].at = "offer" /\ P2[r][c].at = "flag" /\ p = P[r][c].step
  BY <1>3, <1>16, <1>17, <1>19, <1>21, <1>22
<1>230. ex \in [Rank -> ExchangeSet] /\ ExchangeType(ex)
  BY <1>1, <1>22 DEF DenseType, ExchangeType
<1>24. ex2 = [s \in Rank |-> IF s = r THEN ex[s] ELSE [ex[s] EXCEPT !.data[y][r] = v]]
  BY <1>5, <1>12, <1>22
<1>25. CandidateBy(q, B, r, p, ex, ex2)
  <2>1. DataBy(r, y, v, ex, ex2)
    BY <1>230, <1>24, OfferStores
  <2>2. y = (B + p) % 2
    BY <1>4, <1>5
  <2>3. QED
    BY <1>5, <2>1, <2>2 DEF CandidateBy
<1>26. Apart(q, B, P2, pk, ex2)
  BY <1>2, <1>23, <1>25, ApartOffer
<1>27. ExchangeType(ex2)
  BY <1>230, <1>24, DataTyped
<1>28. Apart(q, B, Places', packets, exchange') /\ ExchangeType(exchange')
  BY <1>22, <1>26, <1>27
<1>29. z.at \in {"flag", "await", "choose"}
  BY <1>8
<1>30. QED
  BY <1>2, <1>3, <1>8, <1>9, <1>14, <1>15, <1>20, <1>28, <1>29, DecideFinish

LEMMA RaiseKeeps ==
    ASSUME DenseInv, NEW r \in Rank, NEW c \in Cta, RaiseFlags(r, c)
    PROVE  DenseInv'
<1>1. cta[r][c].at = "flag" /\ DenseType
  BY DEF RaiseFlags, Standing, DenseInv
<1>2. PICK B, b, q, d, row, x :
         B \in Nat /\ Runs(B, r, c, b, q, d, row, x) /\ Stands(B, r, c, b, q, d, row, x)
  BY <1>1, RankParts DEF Idle, DenseInv
<1>3. /\ PlaceLaw(b, q, c, x) /\ HeadLaw(B, row, arrived[r])
      /\ MemoryLaw(b, q, row, memory[r]) /\ Apart(q, B, Places, packets, exchange)
      /\ BarrierLaw(b, row)
      /\ row = Places[r] /\ x = cta[r][c] /\ x = row[c] /\ x \in PlaceSet /\ Located(x)
      /\ q \in Nat /\ q >= 1 /\ x.at = "flag" /\ x.at \in Deciding
  BY <1>1, <1>2 DEF Stands, Deciding
<1>4. /\ x.stage = HeadStage /\ x.step \in Nat
      /\ Operands(r, c).epoch = B + x.step + 1
      /\ Parity(r, c) = (B + x.step) % 2 /\ Parity(r, c) \in 0 .. 1
      /\ Output(r, c) = Value(q, x.step, HeadStage)
      /\ Value(q, x.step, HeadStage) \in Sound /\ Value(q, x.step, HeadStage) \in Val
      /\ x.at \in {"flag", "await", "choose"} => x.held = Value(q, x.step, HeadStage)
  BY <1>2, <1>3, DecidingFacts
<1>5. PICK p \in Nat, v \in Val, y \in 0 .. 1 :
         p = x.step /\ v = Value(q, p, HeadStage) /\ y = Parity(r, c)
  BY <1>4
<1>6. PICK z : z = Place("await", x.step, x.stage, x.task, v)
  OBVIOUS
<1>7. z \in PlaceSet
  BY <1>3, <1>4, <1>5, <1>6, PlaceIntro DEF Where, Place, Located
<1>8. /\ z.at = "await" /\ z.step = x.step /\ z.stage = x.stage /\ z.task = x.task
      /\ z.held = Value(q, x.step, HeadStage)
  BY <1>5, <1>6 DEF Place
<1>9. UNCHANGED <<build, host, iteration, stream, bank, memory, tokens, events, groups, arrived,
                  packets>>
  BY DEF RaiseFlags, hostVars, counterVars, linkVars
<1>10. PICK C : C = cta /\ Placing(C) /\ x = C[r][c]
  BY <1>1, <1>3 DEF DenseType, Placing
<1>11. cta' = [cta EXCEPT ![r][c].at = "await"]
  BY DEF RaiseFlags
<1>12. v = x.held
  BY <1>3, <1>4, <1>5
<1>13. cta' = SetTo(cta, r, c, z)
  <2>1. cta' = SetAt(C, r, c, "await")
    BY <1>10, <1>11 DEF SetAt
  <2>2. QED
    BY <1>6, <1>10, <1>12, <2>1, AtSet
<1>14. GoesTo(r, c, z) /\ \E row2 : Stepped(r, c, row, row2, x, z)
  BY <1>2, <1>7, <1>8, <1>9, <1>13, StepTo DEF Idle
<1>15. PICK row2 : Stepped(r, c, row, row2, x, z)
  BY <1>14
<1>16. /\ row2 = Places'[r] /\ Moves(row, row2, c) /\ row2[c] = z
       /\ AllLocated(row2) /\ AllLocated(row) /\ \A s \in Rank : s # r => Places'[s] = Places[s]
  BY <1>15 DEF Stepped
<1>17. Decides(row, row2, c)
  BY <1>3, <1>4, <1>8, <1>16 DEF Decides
<1>18. PICK n \in Nat : n = arrived[r]
  BY <1>1 DEF DenseType
<1>19. row[c].at = "flag" /\ row2[c].at = "await" /\ p = row[c].step /\ HeadLaw(B, row, n)
  BY <1>3, <1>5, <1>8, <1>16, <1>18
<1>20. \A k \in Nat : Chosen(row2, k) <=> Chosen(row, k)
  BY <1>2, <1>16, <1>17, <1>19, DecideSteps
<1>21. SameSent(row, row2)
  <2>1. SentStep(c, x, z)
    BY <1>3, <1>8 DEF SentStep, Staying
  <2>2. QED
    BY <1>3, <1>16, <2>1, SentKept DEF AllLocated
<1>22. PICK P, P2, pk, ex, ex2 : /\ P = Places /\ P2 = Places' /\ pk = packets
                                 /\ ex = exchange /\ ex2 = exchange'
  OBVIOUS
<1>23. /\ \A s \in Rank : s # r => P2[s] = P[s]
       /\ P[r] = row /\ P2[r] = row2 /\ Apart(q, B, P, pk, ex)
       /\ AllLocated(P[r]) /\ AllLocated(P2[r]) /\ HeadLaw(B, P[r], n)
       /\ Decides(P[r], P2[r], c) /\ SameSent(P[r], P2[r])
       /\ P[r][c].at = "flag" /\ P2[r][c].at = "await" /\ p = P[r][c].step
  BY <1>3, <1>16, <1>17, <1>19, <1>21, <1>22
<1>230. ex \in [Rank -> ExchangeSet] /\ ExchangeType(ex)
  BY <1>1, <1>22 DEF DenseType, ExchangeType
<1>24. ex2 = [s \in Rank |-> IF s = r THEN ex[s]
                               ELSE [ex[s] EXCEPT !.flag[y][r] = B + p + 1]]
  <2>1. Operands(r, c).epoch = B + p + 1
    BY <1>4, <1>5
  <2>2. QED
    BY <1>5, <1>22, <2>1 DEF RaiseFlags
<1>25. RaisedBy(B, r, p, ex, ex2)
  <2>1. FlagBy(r, y, B + p + 1, ex, ex2)
    BY <1>230, <1>24, FlagStores
  <2>2. y = (B + p) % 2
    BY <1>4, <1>5
  <2>3. QED
    BY <2>1, <2>2 DEF RaisedBy
<1>26. Apart(q, B, P2, pk, ex2)
  BY <1>2, <1>23, <1>25, ApartRaise
<1>27. ExchangeType(ex2)
  <2>1. PICK w \in Nat : w = B + p + 1
    BY <1>2, <1>5
  <2>2. ex2 = Flagged(ex, r, y, w)
    BY <1>24, <2>1 DEF Flagged
  <2>3. QED
    BY <1>230, <2>1, <2>2, FlagTyped
<1>28. Apart(q, B, Places', packets, exchange') /\ ExchangeType(exchange')
  BY <1>22, <1>26, <1>27
<1>29. z.at \in {"flag", "await", "choose"}
  BY <1>8
<1>30. QED
  BY <1>2, <1>3, <1>8, <1>9, <1>14, <1>15, <1>20, <1>28, <1>29, DecideFinish

LEMMA AwaitKeeps ==
    ASSUME DenseInv, NEW r \in Rank, NEW c \in Cta, AwaitFlags(r, c)
    PROVE  DenseInv'
<1>1. cta[r][c].at = "await" /\ DenseType
  BY DEF AwaitFlags, Standing, DenseInv
<1>2. PICK B, b, q, d, row, x :
         B \in Nat /\ Runs(B, r, c, b, q, d, row, x) /\ Stands(B, r, c, b, q, d, row, x)
  BY <1>1, RankParts DEF Idle, DenseInv
<1>3. /\ PlaceLaw(b, q, c, x) /\ HeadLaw(B, row, arrived[r])
      /\ MemoryLaw(b, q, row, memory[r]) /\ Apart(q, B, Places, packets, exchange)
      /\ BarrierLaw(b, row)
      /\ row = Places[r] /\ x = cta[r][c] /\ x = row[c] /\ x \in PlaceSet /\ Located(x)
      /\ q \in Nat /\ q >= 1 /\ x.at = "await" /\ x.at \in Deciding
  BY <1>1, <1>2 DEF Stands, Deciding
<1>4. /\ x.stage = HeadStage /\ x.step \in Nat
      /\ Operands(r, c).epoch = B + x.step + 1
      /\ Parity(r, c) = (B + x.step) % 2 /\ Parity(r, c) \in 0 .. 1
      /\ Output(r, c) = Value(q, x.step, HeadStage)
      /\ Value(q, x.step, HeadStage) \in Sound /\ Value(q, x.step, HeadStage) \in Val
      /\ x.at \in {"flag", "await", "choose"} => x.held = Value(q, x.step, HeadStage)
  BY <1>2, <1>3, DecidingFacts
<1>5. PICK p \in Nat, v \in Val, y \in 0 .. 1 :
         p = x.step /\ v = Value(q, p, HeadStage) /\ y = Parity(r, c)
  BY <1>4
<1>6. PICK z : z = Place("choose", x.step, x.stage, x.task, v)
  OBVIOUS
<1>7. z \in PlaceSet
  BY <1>3, <1>4, <1>5, <1>6, PlaceIntro DEF Where, Place, Located
<1>8. /\ z.at = "choose" /\ z.step = x.step /\ z.stage = x.stage /\ z.task = x.task
      /\ z.held = Value(q, x.step, HeadStage)
  BY <1>5, <1>6 DEF Place
<1>9. UNCHANGED <<build, host, iteration, stream, bank, memory, tokens, events, groups, arrived,
                  packets>>
  BY DEF AwaitFlags, hostVars, counterVars, linkVars
<1>10. PICK C : C = cta /\ Placing(C) /\ x = C[r][c]
  BY <1>1, <1>3 DEF DenseType, Placing
<1>11. cta' = [cta EXCEPT ![r][c].at = "choose"]
  BY DEF AwaitFlags
<1>12. v = x.held
  BY <1>3, <1>4, <1>5
<1>13. cta' = SetTo(cta, r, c, z)
  <2>1. cta' = SetAt(C, r, c, "choose")
    BY <1>10, <1>11 DEF SetAt
  <2>2. QED
    BY <1>6, <1>10, <1>12, <2>1, AtSet
<1>14. GoesTo(r, c, z) /\ \E row2 : Stepped(r, c, row, row2, x, z)
  BY <1>2, <1>7, <1>8, <1>9, <1>13, StepTo DEF Idle
<1>15. PICK row2 : Stepped(r, c, row, row2, x, z)
  BY <1>14
<1>16. /\ row2 = Places'[r] /\ Moves(row, row2, c) /\ row2[c] = z
       /\ AllLocated(row2) /\ AllLocated(row) /\ \A s \in Rank : s # r => Places'[s] = Places[s]
  BY <1>15 DEF Stepped
<1>17. Decides(row, row2, c)
  BY <1>3, <1>4, <1>8, <1>16 DEF Decides
<1>18. PICK n \in Nat : n = arrived[r]
  BY <1>1 DEF DenseType
<1>19. row[c].at = "await" /\ row2[c].at = "choose" /\ p = row[c].step /\ HeadLaw(B, row, n)
  BY <1>3, <1>5, <1>8, <1>16, <1>18
<1>20. \A k \in Nat : Chosen(row2, k) <=> Chosen(row, k)
  BY <1>2, <1>16, <1>17, <1>19, DecideSteps
<1>21. SameSent(row, row2)
  <2>1. SentStep(c, x, z)
    BY <1>3, <1>8 DEF SentStep, Staying
  <2>2. QED
    BY <1>3, <1>16, <2>1, SentKept DEF AllLocated
<1>22. PICK P, P2, pk, ex, ex2 : /\ P = Places /\ P2 = Places' /\ pk = packets
                                 /\ ex = exchange /\ ex2 = exchange'
  OBVIOUS
<1>23. /\ \A s \in Rank : s # r => P2[s] = P[s]
       /\ P[r] = row /\ P2[r] = row2 /\ Apart(q, B, P, pk, ex)
       /\ AllLocated(P[r]) /\ AllLocated(P2[r]) /\ HeadLaw(B, P[r], n)
       /\ Decides(P[r], P2[r], c) /\ SameSent(P[r], P2[r])
       /\ P[r][c].at = "await" /\ P2[r][c].at = "choose" /\ p = P[r][c].step
  BY <1>3, <1>16, <1>17, <1>19, <1>21, <1>22
<1>230. ex \in [Rank -> ExchangeSet] /\ ExchangeType(ex)
  BY <1>1, <1>22 DEF DenseType, ExchangeType
<1>24. ex2 = ex
  BY <1>22 DEF AwaitFlags, linkVars
<1>25. \A s \in Rank : s # r => ex[r].flag[y][s] = B + p + 1
  <2>1. Operands(r, c).epoch = B + p + 1
    BY <1>4, <1>5
  <2>2. QED
    BY <1>5, <1>22, <2>1 DEF AwaitFlags, Peers
<1>26. Apart(q, B, P2, pk, ex2)
  <2>1. Apart(q, B, P2, pk, ex)
    <3>1. OthersStand(P, P2, r) /\ FlagsSeen(B, ex, r, y, p)
      BY <1>23, <1>25 DEF OthersStand, FlagsSeen
    <3>2. AllLocated(P[r]) /\ AllLocated(P2[r]) /\ HeadLaw(B, P[r], n)
      BY <1>23
    <3>3. Decides(P[r], P2[r], c) /\ SameSent(P[r], P2[r])
      BY <1>23
    <3>4. P[r][c].at = "await" /\ P2[r][c].at = "choose" /\ p = P[r][c].step
      BY <1>23
    <3>5. Apart(q, B, P, pk, ex) /\ B \in Nat
      BY <1>2, <1>23
    <3>6. QED
      BY <3>1, <3>2, <3>3, <3>4, <3>5, ApartAwait
  <2>2. QED
    BY <1>24, <2>1
<1>27. ExchangeType(ex2)
  BY <1>230, <1>24
<1>28. Apart(q, B, Places', packets, exchange') /\ ExchangeType(exchange')
  BY <1>22, <1>26, <1>27
<1>29. z.at \in {"flag", "await", "choose"}
  BY <1>8
<1>30. QED
  BY <1>2, <1>3, <1>8, <1>9, <1>14, <1>15, <1>20, <1>28, <1>29, DecideFinish
=============================================================================
