--------------------------- MODULE CountedExperts ---------------------------
(***************************************************************************)
(* A routed layer on top of the dynamic claims of DynamicClaim.  Its       *)
(* dependencies are data: the dispatch task sorts the (token, rank)        *)
(* assignments of this step by expert and cuts them into blocks; an expert *)
(* task computes the rows of one block, if there is one; and a combine     *)
(* task, which reads all ranks of its tokens, waits on a counter of its    *)
(* own, to which each expert task adds the number of rows it wrote there   *)
(* (PublishMoeCountedRows, CountedDependency).  The counters are never     *)
(* cleared, and how many rows make one iteration is known before routing.  *)
(***************************************************************************)
EXTENDS DynamicClaim

CONSTANTS
    Tokens, TopK, Experts,
    Routings,        \* [Assignment -> expert] maps the router may produce
    ChunkTokens,     \* tokens of one histogram of the dispatch
    BlockRows,       \* rows of one block
    TileM,           \* rows of one expert task
    TilesN,          \* column tiles
    TokenGroup,      \* tokens of one combine task
    Dispatch, Down, Combine

Assignment == 0 .. (Tokens * TopK - 1)
ExpertId == 0 .. (Experts - 1)
TokenOf(a) == a \div TopK

CeilDiv(a, b) == (a + b - 1) \div b
Least(a, b) == IF a < b THEN a ELSE b

\* MoeVirtualCapacity: whatever the routing, so many blocks are enough.
Capacity == CeilDiv(Tokens * TopK, BlockRows) + Least(Tokens * TopK, Experts)
Block == 0 .. (Capacity - 1)
SubTiles == CeilDiv(BlockRows, TileM)

\* Combine tasks, each with a counter.
Target == 0 .. (Count[Combine] - 1)

ASSUME RoutedAssumption ==
    /\ {Tokens, TopK, Experts, ChunkTokens, BlockRows, TileM, TilesN, TokenGroup}
          \subseteq Nat \ {0}
    /\ Routings \subseteq [Assignment -> ExpertId]
    /\ {Dispatch, Down, Combine} \subseteq Stage
    /\ Cardinality({Dispatch, Down, Combine}) = 3
    /\ Count[Dispatch] = 1
    /\ Count[Down] = Capacity * SubTiles * TilesN
    /\ Count[Combine] = CeilDiv(Tokens, TokenGroup) * TilesN
    /\ Down \in Expert /\ Combine \notin Expert
    \* An expert stage reads the tables of the dispatch, itself or through its
    \* producers: the dispatch is an ancestor of every expert task.
    /\ \A S \in SUBSET Task :
          (\A x \in S : Predecessors(x) \subseteq S) /\ TasksOf(Down) \cap S # {}
              => TasksOf(Dispatch) \subseteq S

VARIABLES
    blocks,      \* the binding: per block, first row, number of rows, valid
    rows,        \* the row table: per row, the assignment it holds
    partials,    \* per assignment and column tile, the last iteration that wrote it
    counted,     \* counted_dependencies, one counter per combine task
    sent         \* per worker: counters its current task has added to

routedVars == <<blocks, rows, partials, counted, sent>>

RoutedInit ==
    /\ Init
    /\ blocks = [v \in Block |-> [begin |-> 0, count |-> 0, valid |-> FALSE]]
    /\ rows = [a \in Assignment |-> 0]
    /\ partials = [a \in Assignment |-> [n \in 0 .. (TilesN - 1) |-> -1]]
    /\ counted = [t \in Target |-> 0]
    /\ sent = [w \in Worker |-> {}]

-----------------------------------------------------------------------------
(***************************************************************************)
(* MoEDispatchTaskBody: a stable counting sort in chunks.                  *)
(***************************************************************************)
ChunkOf(a) == TokenOf(a) \div ChunkTokens

RowsOf(idx, e) == {a \in Assignment : idx[a] = e}
BlocksOf(idx, e) == CeilDiv(Cardinality(RowsOf(idx, e)), BlockRows)

ExpertOffset(idx, e) == Cardinality({a \in Assignment : idx[a] < e})
BlockOffset(idx, e) ==
    Cardinality({p \in ExpertId \X Block : p[1] < e /\ p[2] < BlocksOf(idx, p[1])})

\* Histogram and Prefix: rows of the same expert in earlier chunks.
ChunkPrefix(idx, a) ==
    Cardinality({b \in RowsOf(idx, idx[a]) : ChunkOf(b) < ChunkOf(a)})

\* Scatter: the rank among the rows of the same expert in this chunk.
RankInChunk(idx, a) ==
    Cardinality({b \in RowsOf(idx, idx[a]) : ChunkOf(b) = ChunkOf(a) /\ b < a})

RowOf(idx, a) == ExpertOffset(idx, idx[a]) + ChunkPrefix(idx, a) + RankInChunk(idx, a)

ScatteredRows(idx) ==
    [r \in Assignment |-> CHOOSE a \in Assignment : RowOf(idx, a) = r]

\* Prefix traps when the blocks do not fit; the tail keeps its old fields.
Fits(idx) == BlockOffset(idx, Experts) <= Capacity

BoundBlocks(idx) ==
    [v \in Block |->
        IF v >= BlockOffset(idx, Experts) THEN [blocks[v] EXCEPT !.valid = FALSE]
        ELSE LET e == CHOOSE f \in ExpertId :
                         BlockOffset(idx, f) <= v /\ v < BlockOffset(idx, f + 1)
                 first == (v - BlockOffset(idx, e)) * BlockRows
             IN  [begin |-> ExpertOffset(idx, e) + first,
                  count |-> Least(BlockRows, Cardinality(RowsOf(idx, e)) - first),
                  valid |-> TRUE]]

-----------------------------------------------------------------------------
(***************************************************************************)
(* The rows an expert task computes, and what it adds to which counter.    *)
(***************************************************************************)
TileRow(x) == x.logical \div TilesN
TileColumn(x) == x.logical % TilesN

LiveRows(x) ==
    LET block == blocks[TileRow(x) \div SubTiles]
        begin == (TileRow(x) % SubTiles) * TileM
    IN  IF ~block.valid THEN {}
        ELSE {block.begin + r :
                 r \in {i \in begin .. (begin + TileM - 1) : i < block.count}}

TargetOf(a, column) == (TokenOf(a) \div TokenGroup) * TilesN + column

\* Mutant: padding rows of the last tile of a block count as rows.
ContributionPadded(x, t) ==
    IF \E r \in LiveRows(x) : TargetOf(rows[r], TileColumn(x)) = t THEN TileM ELSE 0

Contribution(x, t) ==
    Cardinality({r \in LiveRows(x) : TargetOf(rows[r], TileColumn(x)) = t})

\* Empty blocks and empty rows contribute no arrival.
Targets(x) ==
    IF x.stage # Down THEN {} ELSE {t \in Target : Contribution(x, t) > 0}

\* Mutant: one threshold for all groups, the shorter last one included.
ThresholdUniform(t) == TokenGroup * TopK

\* BindCountedTaskDependency: the assignments a combine task reads.
Threshold(t) ==
    TopK * Least(TokenGroup, Tokens - (t \div TilesN) * TokenGroup)

\* Mutant: the counter is compared with one iteration's rows.
CountedReadyOnce(w) ==
    cur[w].stage = Combine => counted[cur[w].logical] >= Threshold(cur[w].logical)

CountedReady(w) ==
    cur[w].stage = Combine =>
        counted[cur[w].logical] >= (iteration + 1) * Threshold(cur[w].logical)

-----------------------------------------------------------------------------
\* What DynamicClaim does to the cursors changes nothing of the layer.
Advance(w) ==
    /\ \/ NextStatic(w) \/ RangeDone(w) \/ Observe(w) \/ Exhausted(w)
       \/ Claim(w) \/ Lost(w) \/ Leave(w)
    /\ UNCHANGED routedVars

WaitRouted(w) ==
    /\ CountedReady(w)
    /\ WaitTaskDependencies(w)
    /\ UNCHANGED routedVars

RunDispatch(w) ==
    /\ cur[w].stage = Dispatch
    /\ RunTask(w)
    /\ \E idx \in Routings :
          /\ Fits(idx)
          /\ rows' = ScatteredRows(idx)
          /\ blocks' = BoundBlocks(idx)
    /\ UNCHANGED <<partials, counted, sent>>

RunDown(w) ==
    /\ cur[w].stage = Down
    /\ RunTask(w)
    /\ LET written == {rows[r] : r \in LiveRows(cur[w])}
       IN  partials' = [a \in Assignment |->
               IF a \in written
               THEN [partials[a] EXCEPT ![TileColumn(cur[w])] = iteration]
               ELSE partials[a]]
    /\ UNCHANGED <<blocks, rows, counted, sent>>

RunOther(w) ==
    /\ cur[w].stage \notin {Dispatch, Down}
    /\ RunTask(w)
    /\ UNCHANGED routedVars

\* PublishMoeCountedRows: one addition per counter, in any order.
PublishRows(w) ==
    /\ pc[w] = "notify"
    /\ \E t \in Targets(cur[w]) \ sent[w] :
          /\ counted' = [counted EXCEPT ![t] = @ + Contribution(cur[w], t)]
          /\ sent' = [sent EXCEPT ![w] = @ \cup {t}]
    /\ UNCHANGED <<vars, blocks, rows, partials>>

NotifyRouted(w) ==
    /\ Targets(cur[w]) \subseteq sent[w]
    /\ NotifyTask(w)
    /\ sent' = [sent EXCEPT ![w] = {}]
    /\ UNCHANGED <<blocks, rows, partials, counted>>

RoutedStep(w) ==
    \/ Advance(w) \/ WaitRouted(w)
    \/ RunDispatch(w) \/ RunDown(w) \/ RunOther(w)
    \/ PublishRows(w) \/ NotifyRouted(w)

RoutedNext ==
    \/ (Launch \/ EndLaunch) /\ UNCHANGED routedVars
    \/ \E w \in Worker : RoutedStep(w)

RoutedSpec == RoutedInit /\ [][RoutedNext]_<<vars, routedVars>>

RoutedFairSpec ==
    /\ RoutedSpec
    /\ \A w \in Worker : WF_<<vars, routedVars>>(RoutedStep(w))
    /\ WF_<<vars, routedVars>>(EndLaunch /\ UNCHANGED routedVars)

-----------------------------------------------------------------------------
\* A combine task runs on the rows of this iteration, all of them, however
\* the router spread them over experts, blocks and workers: no count left by
\* an earlier iteration and no other task's rows let it start early.
CombineReadsThisStep ==
    \A w \in Worker : pc[w] = "run" /\ cur[w].stage = Combine =>
        \A a \in Assignment, n \in 0 .. (TilesN - 1) :
            TargetOf(a, n) = cur[w].logical => partials[a][n] = iteration

\* Between launches every counter stands at the threshold times the number of
\* iterations: the arrivals that routing scattered over the blocks add up to
\* what was fixed without looking at the routing.
CountsMeetThresholds ==
    status = "idle" => \A t \in Target : counted[t] = iteration * Threshold(t)
=============================================================================
