----------------------- MODULE CountedExperts_proofs -----------------------
(***************************************************************************)
(* First the claims: they hand out each task once per launch, for any      *)
(* number of workers and launches, and the kernel implements the task      *)
(* graph.  The routed layer adds data, counters and one more wait to that  *)
(* kernel and takes nothing away: whatever is proved of the claims holds   *)
(* under every routing.                                                    *)
(*                                                                         *)
(* Then the routed layer itself: the dispatch sorts and cuts the rows so   *)
(* that each row has one task per column (TableCover), the rows that count *)
(* toward a combine task are as many as its threshold whatever the routing *)
(* (ExpectedCount), and a counter stands at the thresholds of the launches *)
(* before plus the rows delivered in this one (CountInv).  Last, the       *)
(* capacity of the block table.                                            *)
(***************************************************************************)
EXTENDS CountedExperts, RuntimeGraph_proofs

Busy == {"wait", "run", "notify"}

\* Where a worker can be in its queue.
Cursors ==
    \A w \in Worker :
        /\ stage[w] \in Stage /\ ~Dynamic(stage[w]) =>
              local[w] <= Len(Ranges[w][stage[w]])
        /\ pc[w] = "claim" =>
              /\ stage[w] \in Stage
              /\ Dynamic(stage[w])
              /\ observed[w] <= claims[stage[w]]
        /\ status = "idle" => pc[w] = "done"
        /\ status = "launched" /\ pc[w] = "done" => stage[w] = StageCount

\* Worker w has taken static task x from its range.
Passed(w, x) ==
    \E i \in DOMAIN Ranges[w][x.stage] :
        /\ Ranges[w][x.stage][i] = x
        /\ \/ x.stage < stage[w]
           \/ x.stage = stage[w] /\ i <= local[w]

\* What has been handed out is what the counters and the cursors say.
Tickets ==
    status = "launched" =>
        /\ \A s \in Stage : Dynamic(s) => ClaimBegin(s) <= claims[s] /\ claims[s] <= ClaimEnd(s)
        /\ \A w \in Worker, s \in Stage :
              Dynamic(s) /\ s < stage[w] => claims[s] = ClaimEnd(s)
        /\ \A x \in Task : Dynamic(x.stage) =>
              (x \in handed <=> x.logical < claims[x.stage] - ClaimBegin(x.stage))
        /\ \A x \in Task : ~Dynamic(x.stage) =>
              (x \in handed <=> \E w \in Worker : Passed(w, x))

Between ==
    status = "idle" =>
        /\ handed = {} \/ handed = Task
        /\ \A s \in Stage : Dynamic(s) => claims[s] = ClaimBegin(s)

\* A handed task is held by at most one worker until it has been notified.
Holding ==
    /\ \A w \in Worker : pc[w] \in Busy => cur[w] \in handed
    /\ \A w, v \in Worker :
          w # v /\ pc[w] \in Busy /\ pc[v] \in Busy => cur[w] # cur[v]
    /\ \A x \in handed :
          x \in finished <=> ~\E w \in Worker : pc[w] \in {"wait", "run"} /\ cur[w] = x
    /\ \A x \in handed :
          x \in notified <=> ~\E w \in Worker : pc[w] \in Busy /\ cur[w] = x

IInv == TypeOK /\ Cursors /\ Tickets /\ Between /\ Holding

\* Busy is a handful of program points; the fields of a claimed task.
LEMMA ClaimedTask ==
    ASSUME NEW s \in Stage, NEW i \in Nat, i < Count[s]
    PROVE  [stage |-> s, logical |-> i] \in Task
BY GraphAssumption, TaskMembership

LEMMA OriginIsNat ==
    ASSUME TypeOK, NEW s \in Stage
    PROVE  ClaimBegin(s) \in Nat /\ ClaimEnd(s) \in Nat /\ Count[s] \in Nat
<1>1. iteration \in Nat /\ Count[s] \in Nat
  BY GraphAssumption DEF TypeOK
<1> QED
  BY <1>1 DEF ClaimBegin, ClaimEnd

LEMMA NextMultiple ==
    ASSUME NEW i \in Nat, NEW c \in Nat
    PROVE  (i + 1) * c = i * c + c
OBVIOUS

LEMMA NextOrigin ==
    ASSUME TypeOK, iteration' = iteration + 1, NEW s \in Stage
    PROVE  ClaimBegin(s)' = ClaimEnd(s)
<1>1. iteration \in Nat /\ Count[s] \in Nat
  BY GraphAssumption DEF TypeOK
<1>2. (iteration + 1) * Count[s] = iteration * Count[s] + Count[s]
  BY <1>1, NextMultiple
<1> QED
  BY <1>2 DEF ClaimBegin, ClaimEnd

LEMMA SlotTask ==
    ASSUME NEW w \in Worker, NEW s \in Stage, NEW i \in DOMAIN Ranges[w][s]
    PROVE  /\ Ranges[w][s][i] \in Task
           /\ Ranges[w][s][i].stage = s
           /\ DOMAIN Ranges[w][s] = 1 .. Len(Ranges[w][s])
BY RangeAssumption

LEMMA RangeLength ==
    ASSUME NEW w \in Worker, NEW s \in Stage
    PROVE  Len(Ranges[w][s]) \in Nat /\ DOMAIN Ranges[w][s] = 1 .. Len(Ranges[w][s])
BY RangeAssumption

-----------------------------------------------------------------------------
LEMMA Init_IInv == ASSUME Init PROVE IInv
<1> USE DEF Init
<1>1. TypeOK
  BY GraphAssumption DEF TypeOK
<1>2. Cursors
  BY GraphAssumption, RangeLength DEF Cursors
<1>3. Tickets
  BY DEF Tickets
<1>4. Between
  BY GraphAssumption DEF Between, ClaimBegin
<1>5. Holding
  BY DEF Holding, Busy
<1> QED
  BY <1>1, <1>2, <1>3, <1>4, <1>5 DEF IInv

LEMMA Launch_IInv == ASSUME IInv, Launch PROVE IInv'
<1> USE DEF Launch, IInv
<1>1. TypeOK'
  BY GraphAssumption DEF TypeOK
<1>2. Cursors'
  BY RangeLength, GraphAssumption DEF Cursors
<1>3. Tickets'
  <2>1. \A s \in Stage : Dynamic(s) => claims[s] = ClaimBegin(s)
    BY DEF Between
  <2>2. \A s \in Stage : (Dynamic(s)' <=> Dynamic(s)) /\ ClaimBegin(s)' = ClaimBegin(s) /\ ClaimEnd(s)' = ClaimEnd(s)
    BY DEF Dynamic, ClaimBegin, ClaimEnd
  <2>3. \A s \in Stage : ClaimBegin(s) \in Nat /\ ClaimEnd(s) = ClaimBegin(s) + Count[s] /\ Count[s] \in Nat
    BY OriginIsNat DEF ClaimEnd
  <2>4. \A s \in Stage : Dynamic(s) =>
            /\ ClaimBegin(s)' <= claims'[s] /\ claims'[s] <= ClaimEnd(s)'
    BY <2>1, <2>2, <2>3
  <2>5. \A w \in Worker, s \in Stage : ~(s < stage'[w])
    BY DEF Stage
  <2>6. \A x \in Task : Dynamic(x.stage) => ~(x.logical < claims'[x.stage] - ClaimBegin(x.stage)')
    BY <2>1, <2>2, <2>3, TaskFields
  <2>7. \A x \in Task, w \in Worker : ~Passed(w, x)'
    <3> SUFFICES ASSUME NEW x \in Task, NEW w \in Worker, Passed(w, x)'
                 PROVE  FALSE
      OBVIOUS
    <3>1. PICK i \in DOMAIN Ranges[w][x.stage] :
            \/ x.stage < stage'[w]
            \/ x.stage = stage'[w] /\ i <= local'[w]
      BY DEF Passed
    <3>2. x.stage \in Stage /\ i \in 1 .. Len(Ranges[w][x.stage])
      BY TaskFields, SlotTask
    <3> QED
      BY <3>1, <3>2, RangeLength DEF Stage
  <2> QED
    BY <2>2, <2>4, <2>5, <2>6, <2>7 DEF Tickets
<1>4. Between'
  BY DEF Between
<1>5. Holding'
  BY DEF Holding, Busy
<1> QED
  BY <1>1, <1>2, <1>3, <1>4, <1>5

\* A launch that has ended has taken every ticket and handed out every task.
LEMMA EndLaunch_Handed ==
    ASSUME IInv, EndLaunch
    PROVE  /\ \A s \in Stage : Dynamic(s) => claims[s] = ClaimEnd(s)
           /\ handed = Task
<1> USE DEF EndLaunch, IInv, cursorVars, historyVars
<1>1. \A w \in Worker : stage[w] = StageCount
  BY DEF Cursors
<1>2. \A s \in Stage : Dynamic(s) => claims[s] = ClaimEnd(s)
  <2> SUFFICES ASSUME NEW s \in Stage, Dynamic(s)
               PROVE  claims[s] = ClaimEnd(s)
    OBVIOUS
  <2>1. Count[s] \in Nat /\ Count[s] > 0
    BY GraphAssumption DEF Dynamic
  <2>2. [stage |-> s, logical |-> 0] \in Task
    BY <2>1, ClaimedTask
  <2>3. PICK w \in Worker : TRUE
    BY <2>2, RangeAssumption
  <2>4. s < stage[w]
    BY <1>1, GraphAssumption DEF Stage
  <2> QED
    BY <2>4 DEF Tickets
<1>3. Task \subseteq handed
  <2> SUFFICES ASSUME NEW x \in Task
               PROVE  x \in handed
    OBVIOUS
  <2>1. x.stage \in Stage /\ x.logical \in Nat /\ x.logical < Count[x.stage]
        /\ Count[x.stage] \in Nat
    BY TaskFields
  <2>2. CASE Dynamic(x.stage)
    <3>1. claims[x.stage] - ClaimBegin(x.stage) = Count[x.stage]
      BY <1>2, <2>1, <2>2, OriginIsNat DEF ClaimEnd
    <3> QED
      BY <2>1, <2>2, <3>1 DEF Tickets
  <2>3. CASE ~Dynamic(x.stage)
    <3>1. PICK w \in Worker : \E i \in DOMAIN Ranges[w][x.stage] : Ranges[w][x.stage][i] = x
      BY RangeAssumption
    <3>2. x.stage < stage[w]
      BY <1>1, <2>1, GraphAssumption DEF Stage
    <3>3. Passed(w, x)
      BY <3>1, <3>2 DEF Passed
    <3> QED
      BY <2>3, <3>3 DEF Tickets
  <2> QED
    BY <2>2, <2>3
<1> QED
  BY <1>2, <1>3 DEF TypeOK

LEMMA EndLaunch_IInv == ASSUME IInv, EndLaunch PROVE IInv'
<1> USE DEF EndLaunch, IInv, cursorVars, historyVars
<1>1. TypeOK'
  BY DEF TypeOK
<1>2. Cursors'
  BY DEF Cursors, Dynamic
<1>3. Between'
  <2>1. handed' = Task
    BY EndLaunch_Handed
  <2>2. \A s \in Stage : Dynamic(s)' => claims'[s] = ClaimBegin(s)'
    BY EndLaunch_Handed, NextOrigin DEF Dynamic
  <2> QED
    BY <2>1, <2>2 DEF Between
<1>4. Tickets' /\ Holding'
  BY DEF Tickets, Holding, Busy
<1> QED
  BY <1>1, <1>2, <1>3, <1>4

-----------------------------------------------------------------------------
(***************************************************************************)
(* Steps that hand out nothing.                                            *)
(***************************************************************************)
LEMMA SameHolding ==
    ASSUME Holding, TypeOK, NEW w \in Worker,
           pc[w] \notin Busy, pc'[w] \notin Busy,
           \A v \in Worker : v # w => pc'[v] = pc[v],
           cur' = cur, UNCHANGED historyVars
    PROVE  Holding'
<1>1. \A v \in Worker : (pc'[v] \in Busy <=> pc[v] \in Busy)
      /\ (pc'[v] \in {"wait", "run"} <=> pc[v] \in {"wait", "run"})
  BY DEF Busy
<1> QED
  BY <1>1 DEF Holding, historyVars

LEMMA SameTickets ==
    ASSUME Tickets, UNCHANGED <<status, iteration, claims, stage, local, handed>>
    PROVE  Tickets'
<1>1. \A w, x : Passed(w, x)' <=> Passed(w, x)
  BY DEF Passed
<1>2. \A s : (Dynamic(s)' <=> Dynamic(s)) /\ ClaimBegin(s)' = ClaimBegin(s)
             /\ ClaimEnd(s)' = ClaimEnd(s)
  BY DEF Dynamic, ClaimBegin, ClaimEnd
<1> QED
  BY <1>1, <1>2 DEF Tickets

\* A running worker belongs to a launch.
LEMMA InLaunch ==
    ASSUME IInv, NEW w \in Worker, pc[w] # "done"
    PROVE  status = "launched"
BY DEF IInv, TypeOK, Cursors

\* A worker goes to its next stage, which it leaves with nothing to claim.
LEMMA NextStage_Tickets ==
    ASSUME IInv, NEW w \in Worker, pc[w] # "done", stage[w] \in Stage, NextStage(w),
           UNCHANGED <<status, iteration, claims, handed>>,
           Dynamic(stage[w]) => claims[stage[w]] = ClaimEnd(stage[w]),
           ~Dynamic(stage[w]) => local[w] = Len(Ranges[w][stage[w]])
    PROVE  Tickets'
<1> USE DEF IInv
<1>1. status = "launched" /\ status' = "launched"
  BY InLaunch
<1>2. /\ stage'[w] = stage[w] + 1 /\ local'[w] = 0
      /\ \A v \in Worker : v # w => stage'[v] = stage[v] /\ local'[v] = local[v]
      /\ stage[w] \in Int
  BY DEF NextStage, TypeOK, Stage
<1>3. \A s : (Dynamic(s)' <=> Dynamic(s)) /\ ClaimBegin(s)' = ClaimBegin(s)
             /\ ClaimEnd(s)' = ClaimEnd(s)
  BY DEF Dynamic, ClaimBegin, ClaimEnd
<1>4. \A v \in Worker, s \in Stage : Dynamic(s) /\ s < stage'[v] => claims[s] = ClaimEnd(s)
  <2> SUFFICES ASSUME NEW v \in Worker, NEW s \in Stage, Dynamic(s), s < stage'[v]
               PROVE  claims[s] = ClaimEnd(s)
    OBVIOUS
  <2>1. CASE v # w \/ s # stage[w]
    <3>1. s < stage[v]
      BY <1>2, <2>1 DEF Stage
    <3> QED
      BY <1>1, <3>1 DEF Tickets
  <2>2. CASE v = w /\ s = stage[w]
    BY <2>2
  <2> QED
    BY <2>1, <2>2
<1>5. \A v \in Worker, x \in Task : ~Dynamic(x.stage) => (Passed(v, x)' <=> Passed(v, x))
  <2> SUFFICES ASSUME NEW v \in Worker, NEW x \in Task, ~Dynamic(x.stage)
               PROVE  Passed(v, x)' <=> Passed(v, x)
    OBVIOUS
  <2>1. CASE v # w
    BY <1>2, <2>1 DEF Passed
  <2>2. CASE v = w
    <3>1. x.stage \in Stage /\ x.stage \in Int
      BY TaskFields DEF Stage
    <3>2. \A i \in DOMAIN Ranges[w][x.stage] :
             (x.stage < stage'[w] \/ (x.stage = stage'[w] /\ i <= local'[w]))
               <=> (x.stage < stage[w] \/ (x.stage = stage[w] /\ i <= local[w]))
      <4> TAKE i \in DOMAIN Ranges[w][x.stage]
      <4>1. i \in Nat /\ 1 <= i /\ i <= Len(Ranges[w][x.stage])
            /\ Len(Ranges[w][x.stage]) \in Nat
        BY <3>1, RangeLength
      <4> QED
        BY <1>2, <3>1, <4>1
    <3> QED
      BY <2>2, <3>2 DEF Passed
  <2> QED
    BY <2>1, <2>2
<1> QED
  BY <1>1, <1>3, <1>4, <1>5 DEF Tickets

LEMMA RangeDone_IInv == ASSUME IInv, NEW w \in Worker, RangeDone(w) PROVE IInv'
<1> USE DEF RangeDone, IInv
<1>1. /\ \A v \in Worker : v # w => stage'[v] = stage[v] /\ local'[v] = local[v]
      /\ stage'[w] = stage[w] + 1 /\ local'[w] = 0
      /\ stage' \in [Worker -> 0 .. StageCount] /\ local' \in [Worker -> Nat]
  BY GraphAssumption DEF NextStage, TypeOK, Stage
<1>2. TypeOK'
  BY <1>1 DEF TypeOK, historyVars
<1>3. Tickets'
  BY NextStage_Tickets DEF historyVars
<1>4. Cursors'
  <2>1. \A s \in Stage : 0 <= Len(Ranges[w][s])
    BY RangeLength
  <2> QED
    BY <1>1, <2>1 DEF Cursors, Dynamic
<1>5. Between'
  BY InLaunch DEF Between
<1>6. Holding'
  BY SameHolding DEF Busy, historyVars
<1> QED
  BY <1>2, <1>3, <1>4, <1>5, <1>6

LEMMA Exhausted_IInv == ASSUME IInv, NEW w \in Worker, Exhausted(w) PROVE IInv'
<1> USE DEF Exhausted, IInv
<1>0. stage[w] \in Stage /\ Dynamic(stage[w]) /\ observed[w] <= claims[stage[w]]
  BY DEF Cursors
<1>1. /\ \A v \in Worker : v # w => stage'[v] = stage[v] /\ local'[v] = local[v]
      /\ stage'[w] = stage[w] + 1 /\ local'[w] = 0
      /\ stage' \in [Worker -> 0 .. StageCount] /\ local' \in [Worker -> Nat]
  BY <1>0, GraphAssumption DEF NextStage, TypeOK, Stage
<1>2. \A v \in Worker : v # w => pc'[v] = pc[v]
  BY DEF TypeOK
<1>3. pc'[w] = "next" /\ pc' \in [Worker -> {"next", "claim", "wait", "run", "notify", "done"}]
  BY DEF TypeOK
<1>4. TypeOK'
  BY <1>1, <1>3 DEF TypeOK, historyVars
<1>5. claims[stage[w]] = ClaimEnd(stage[w])
  <2>1. status = "launched"
    BY InLaunch
  <2>2. claims[stage[w]] <= ClaimEnd(stage[w])
    BY <1>0, <2>1 DEF Tickets
  <2>3. claims[stage[w]] \in Nat /\ observed[w] \in Nat /\ ClaimEnd(stage[w]) \in Nat
    BY <1>0, OriginIsNat DEF TypeOK
  <2> QED
    BY <1>0, <2>2, <2>3
<1>6. Tickets'
  BY <1>0, <1>5, NextStage_Tickets DEF historyVars
<1>7. Cursors'
  <2>1. \A s \in Stage : 0 <= Len(Ranges[w][s])
    BY RangeLength
  <2> QED
    BY <1>1, <1>2, <1>3, <2>1 DEF Cursors, Dynamic
<1>8. Between'
  BY InLaunch DEF Between
<1>9. Holding'
  BY <1>2, <1>3, SameHolding DEF Busy
<1> QED
  BY <1>4, <1>6, <1>7, <1>8, <1>9

\* A change of program point that leaves cursors, counters and history alone.
LEMMA SameCursors ==
    ASSUME Cursors, NEW w \in Worker,
           UNCHANGED <<status, claims, stage, local>>,
           \A v \in Worker : v # w => pc'[v] = pc[v] /\ observed'[v] = observed[v],
           pc'[w] # "done", pc[w] # "done",
           pc'[w] = "claim" =>
              /\ stage[w] \in Stage
              /\ Dynamic(stage[w])
              /\ observed'[w] <= claims[stage[w]]
    PROVE  Cursors'
BY DEF Cursors, Dynamic

LEMMA Observe_IInv == ASSUME IInv, NEW w \in Worker, Observe(w) PROVE IInv'
<1> USE DEF Observe, IInv, historyVars
<1>1. /\ \A v \in Worker : v # w => pc'[v] = pc[v] /\ observed'[v] = observed[v]
      /\ pc'[w] = "claim" /\ observed'[w] = claims[stage[w]]
      /\ claims[stage[w]] \in Nat
  BY DEF TypeOK
<1>2. TypeOK'
  BY <1>1 DEF TypeOK
<1>3. Cursors'
  BY <1>1, SameCursors
<1>4. Tickets' /\ Between'
  BY InLaunch, SameTickets DEF Between
<1>5. Holding'
  BY <1>1, SameHolding DEF Busy
<1> QED
  BY <1>2, <1>3, <1>4, <1>5

LEMMA Lost_IInv == ASSUME IInv, NEW w \in Worker, Lost(w) PROVE IInv'
<1> USE DEF Lost, IInv, historyVars
<1>0. stage[w] \in Stage /\ Dynamic(stage[w])
  BY DEF Cursors
<1>1. /\ \A v \in Worker : v # w => pc'[v] = pc[v] /\ observed'[v] = observed[v]
      /\ pc'[w] = "claim" /\ observed'[w] = claims[stage[w]]
      /\ claims[stage[w]] \in Nat
  BY <1>0 DEF TypeOK
<1>2. TypeOK'
  BY <1>1 DEF TypeOK
<1>3. Cursors'
  BY <1>0, <1>1, SameCursors
<1>4. Tickets' /\ Between'
  BY InLaunch, SameTickets DEF Between
<1>5. Holding'
  BY <1>1, SameHolding DEF Busy
<1> QED
  BY <1>2, <1>3, <1>4, <1>5

LEMMA Leave_IInv == ASSUME IInv, NEW w \in Worker, Leave(w) PROVE IInv'
<1> USE DEF Leave, IInv, historyVars, cursorVars
<1>1. pc'[w] = "done" /\ \A v \in Worker : v # w => pc'[v] = pc[v]
  BY DEF TypeOK
<1>2. TypeOK'
  BY DEF TypeOK
<1>3. Cursors'
  BY <1>1 DEF Cursors, Dynamic
<1>4. Tickets' /\ Between'
  BY InLaunch, SameTickets DEF Between
<1>5. Holding'
  BY <1>1, SameHolding DEF Busy
<1> QED
  BY <1>2, <1>3, <1>4, <1>5

-----------------------------------------------------------------------------
(***************************************************************************)
(* Steps that hand out a task.                                             *)
(***************************************************************************)
LEMMA Hand_Holding ==
    ASSUME Holding, TypeOK, NEW w \in Worker, NEW x \in Task, x \notin handed,
           pc[w] \notin Busy, Hand(w, x)
    PROVE  Holding'
<1>1. /\ cur'[w] = x /\ pc'[w] = "wait"
      /\ \A v \in Worker : v # w => pc'[v] = pc[v] /\ cur'[v] = cur[v]
      /\ handed' = handed \cup {x} /\ finished' = finished /\ notified' = notified
      /\ finished \subseteq handed /\ notified \subseteq handed
  BY DEF Hand, TypeOK
<1>2. \A v \in Worker : pc'[v] \in Busy => cur'[v] \in handed'
  BY <1>1 DEF Holding
<1>3. \A v, u \in Worker :
         v # u /\ pc'[v] \in Busy /\ pc'[u] \in Busy => cur'[v] # cur'[u]
  BY <1>1 DEF Holding
<1>4. \A y \in handed' :
         y \in finished' <=> ~\E v \in Worker : pc'[v] \in {"wait", "run"} /\ cur'[v] = y
  <2> TAKE y \in handed'
  <2>1. CASE y = x
    BY <1>1, <2>1
  <2>2. CASE y # x
    <3>1. y \in handed
      BY <1>1, <2>2
    <3>2. \A v \in Worker : (pc'[v] \in {"wait", "run"} /\ cur'[v] = y)
                              <=> (pc[v] \in {"wait", "run"} /\ cur[v] = y)
      BY <1>1, <2>2 DEF Busy
    <3> QED
      BY <1>1, <3>1, <3>2 DEF Holding
  <2> QED
    BY <2>1, <2>2
<1>5. \A y \in handed' :
         y \in notified' <=> ~\E v \in Worker : pc'[v] \in Busy /\ cur'[v] = y
  <2> TAKE y \in handed'
  <2>1. CASE y = x
    BY <1>1, <2>1 DEF Busy
  <2>2. CASE y # x
    <3>1. y \in handed
      BY <1>1, <2>2
    <3>2. \A v \in Worker : (pc'[v] \in Busy /\ cur'[v] = y)
                              <=> (pc[v] \in Busy /\ cur[v] = y)
      BY <1>1, <2>2 DEF Busy
    <3> QED
      BY <1>1, <3>1, <3>2 DEF Holding
  <2> QED
    BY <2>1, <2>2
<1> QED
  BY <1>2, <1>3, <1>4, <1>5 DEF Holding

\* The slot a cursor comes to next has not been handed out by anybody.
LEMMA NextStatic_Fresh ==
    ASSUME IInv, NEW w \in Worker, NextStatic(w)
    PROVE  /\ local[w] + 1 \in DOMAIN Ranges[w][stage[w]]
           /\ Ranges[w][stage[w]][local[w] + 1] \in Task
           /\ Ranges[w][stage[w]][local[w] + 1].stage = stage[w]
           /\ Ranges[w][stage[w]][local[w] + 1] \notin handed
<1> USE DEF NextStatic, IInv
<1> DEFINE x == Ranges[w][stage[w]][local[w] + 1]
<1>1. local[w] \in Nat /\ stage[w] \in Stage
  BY DEF TypeOK
<1>2. local[w] + 1 \in DOMAIN Ranges[w][stage[w]]
  BY <1>1, RangeLength
<1>3. x \in Task /\ x.stage = stage[w]
  BY <1>1, <1>2, SlotTask
<1>4. ASSUME NEW v \in Worker, Passed(v, x)
      PROVE  FALSE
  <2>1. PICK i \in DOMAIN Ranges[v][stage[w]] :
          /\ Ranges[v][stage[w]][i] = x
          /\ stage[w] < stage[v] \/ (stage[w] = stage[v] /\ i <= local[v])
    BY <1>3, <1>4 DEF Passed
  <2>2. v = w /\ i = local[w] + 1
    BY <1>1, <1>2, <2>1, RangeAssumption
  <2> QED
    BY <1>1, <2>1, <2>2 DEF Stage
<1> QED
  BY <1>2, <1>3, <1>4, InLaunch DEF Tickets

LEMMA NextStatic_IInv == ASSUME IInv, NEW w \in Worker, NextStatic(w) PROVE IInv'
<1> USE DEF NextStatic, IInv
<1> DEFINE x == Ranges[w][stage[w]][local[w] + 1]
<1>1. /\ local[w] + 1 \in DOMAIN Ranges[w][stage[w]]
      /\ x \in Task /\ x.stage = stage[w] /\ x \notin handed
  BY NextStatic_Fresh
<1>2. /\ local'[w] = local[w] + 1 /\ pc'[w] = "wait" /\ handed' = handed \cup {x}
      /\ \A v \in Worker : v # w => local'[v] = local[v] /\ pc'[v] = pc[v]
      /\ local[w] \in Nat /\ stage[w] \in Stage
  BY DEF Hand, TypeOK
<1>3. TypeOK'
  BY <1>1 DEF TypeOK, Hand
<1>4. Cursors'
  BY <1>2, RangeLength DEF Cursors, Dynamic, Hand
<1>5. Tickets'
  <2>1. status = "launched" /\ UNCHANGED <<status, iteration, claims, stage>>
    BY InLaunch DEF Hand
  <2>2. \A s : (Dynamic(s)' <=> Dynamic(s)) /\ ClaimBegin(s)' = ClaimBegin(s)
             /\ ClaimEnd(s)' = ClaimEnd(s)
    BY <2>1 DEF Dynamic, ClaimBegin, ClaimEnd
  <2>3. \A y \in Task : Dynamic(y.stage) => (y \in handed' <=> y \in handed)
    BY <1>1, <1>2
  <2>4. \A y \in Task, v \in Worker : ~Dynamic(y.stage) =>
            (Passed(v, y)' <=> Passed(v, y) \/ (v = w /\ y = x))
    <3> SUFFICES ASSUME NEW y \in Task, NEW v \in Worker, ~Dynamic(y.stage)
                 PROVE  Passed(v, y)' <=> Passed(v, y) \/ (v = w /\ y = x)
      OBVIOUS
    <3>1. CASE v # w
      BY <1>2, <2>1, <3>1 DEF Passed
    <3>2. CASE v = w /\ y.stage # stage[w]
      BY <1>1, <2>1, <3>2 DEF Passed
    <3>3. CASE v = w /\ y.stage = stage[w]
      <4>1. \A i \in DOMAIN Ranges[w][stage[w]] :
               i <= local'[w] <=> i <= local[w] \/ i = local[w] + 1
        BY <1>2, RangeLength
      <4>2. Passed(w, y) <=> \E i \in DOMAIN Ranges[w][stage[w]] :
               Ranges[w][stage[w]][i] = y /\ i <= local[w]
        BY <1>2, <3>3 DEF Passed, Stage
      <4>3. Passed(w, y)' <=> \E i \in DOMAIN Ranges[w][stage[w]] :
               Ranges[w][stage[w]][i] = y /\ i <= local'[w]
        BY <1>2, <2>1, <3>3 DEF Passed, Stage
      <4> QED
        BY <1>1, <3>3, <4>1, <4>2, <4>3
    <3> QED
      BY <3>1, <3>2, <3>3
  <2>5. \A y \in Task : ~Dynamic(y.stage) =>
            (y \in handed' <=> \E v \in Worker : Passed(v, y)')
    BY <1>2, <2>1, <2>4 DEF Tickets
  <2> QED
    BY <2>1, <2>2, <2>3, <2>5 DEF Tickets
<1>6. Between'
  BY InLaunch DEF Between, Hand
<1>7. Holding'
  BY <1>1, Hand_Holding DEF Busy
<1> QED
  BY <1>3, <1>4, <1>5, <1>6, <1>7

\* The counter a claimer compares with is inside this launch's tickets, so a
\* successful claim takes the next one and never has to raise the origin.
LEMMA Claim_Fresh ==
    ASSUME IInv, NEW w \in Worker, Claim(w)
    PROVE  LET s == stage[w]
               x == [stage |-> s, logical |-> observed[w] - ClaimBegin(s)]
           IN  /\ s \in Stage /\ Dynamic(s) /\ status = "launched"
               /\ claims[s] = observed[w] /\ claims[s] \in Nat
               /\ ClaimBegin(s) <= claims[s] /\ claims[s] < ClaimEnd(s)
               /\ claims' = [claims EXCEPT ![s] = observed[w] + 1]
               /\ Hand(w, x) /\ UNCHANGED <<observed, stage, local>>
               /\ x \in Task /\ x \notin handed
<1> USE DEF Claim, IInv
<1> DEFINE s == stage[w]
           x == [stage |-> s, logical |-> observed[w] - ClaimBegin(s)]
<1>1. s \in Stage /\ Dynamic(s) /\ status = "launched"
  BY InLaunch DEF Cursors
<1>2. ClaimBegin(s) <= claims[s] /\ claims[s] = observed[w] /\ observed[w] < ClaimEnd(s)
  BY <1>1 DEF Tickets
<1>3. ClaimBegin(s) \in Nat /\ ClaimEnd(s) = ClaimBegin(s) + Count[s]
      /\ Count[s] \in Nat /\ claims[s] \in Nat
  BY <1>1, OriginIsNat DEF TypeOK, ClaimEnd
<1>4. ~(observed[w] < ClaimBegin(s))
  BY <1>2, <1>3
<1>5. x \in Task
  <2>1. observed[w] - ClaimBegin(s) \in Nat /\ observed[w] - ClaimBegin(s) < Count[s]
    BY <1>2, <1>3
  <2> QED
    BY <1>1, <2>1, ClaimedTask
<1>6. x \notin handed
  <2>1. x.stage = s /\ x.logical = claims[s] - ClaimBegin(s) /\ x.logical \in Int
    BY <1>2, <1>3
  <2>2. x \in handed => x.logical < claims[s] - ClaimBegin(s)
    BY <1>1, <1>5, <2>1 DEF Tickets
  <2> QED
    BY <2>1, <2>2
<1> QED
  BY <1>1, <1>2, <1>3, <1>4, <1>5, <1>6

LEMMA Claim_IInv == ASSUME IInv, NEW w \in Worker, Claim(w) PROVE IInv'
<1> USE DEF IInv
<1> DEFINE s == stage[w]
           x == [stage |-> s, logical |-> observed[w] - ClaimBegin(s)]
<1>1. /\ s \in Stage /\ Dynamic(s) /\ status = "launched"
      /\ claims[s] = observed[w] /\ claims[s] \in Nat
      /\ ClaimBegin(s) <= claims[s] /\ claims[s] < ClaimEnd(s)
      /\ claims' = [claims EXCEPT ![s] = observed[w] + 1]
      /\ Hand(w, x) /\ UNCHANGED <<observed, stage, local>>
      /\ x \in Task /\ x \notin handed
  BY Claim_Fresh
<1>2. /\ pc[w] = "claim" /\ pc'[w] = "wait" /\ handed' = handed \cup {x}
      /\ \A v \in Worker : v # w => pc'[v] = pc[v]
      /\ claims'[s] = claims[s] + 1
      /\ \A t \in Stage : t # s => claims'[t] = claims[t]
  BY <1>1 DEF Claim, Hand, TypeOK
<1>3. UNCHANGED <<status, iteration, finished, notified>>
  BY <1>1 DEF Hand
<1>4. \A t \in Stage : ClaimBegin(t) \in Nat /\ ClaimEnd(t) \in Nat /\ claims[t] \in Nat
  BY OriginIsNat DEF TypeOK
<1>5. TypeOK'
  BY <1>1, <1>2 DEF TypeOK, Hand
<1>6. Cursors'
  <2>1. \A t \in Stage : claims[t] <= claims'[t]
    BY <1>2, <1>4
  <2>2. ASSUME NEW v \in Worker, pc'[v] = "claim"
        PROVE  stage[v] \in Stage /\ Dynamic(stage[v]) /\ observed[v] <= claims'[stage[v]]
    <3>1. stage[v] \in Stage /\ Dynamic(stage[v]) /\ observed[v] <= claims[stage[v]]
      BY <1>2, <2>2 DEF Cursors
    <3> QED
      BY <1>2, <1>4, <2>1, <3>1 DEF TypeOK
  <2> QED
    BY <1>1, <1>2, <1>3, <2>2 DEF Cursors, Dynamic
<1>7. Tickets'
  <2>1. \A t : (Dynamic(t)' <=> Dynamic(t)) /\ ClaimBegin(t)' = ClaimBegin(t)
             /\ ClaimEnd(t)' = ClaimEnd(t)
    BY <1>3 DEF Dynamic, ClaimBegin, ClaimEnd
  <2>2. \A t \in Stage : Dynamic(t) =>
            ClaimBegin(t) <= claims'[t] /\ claims'[t] <= ClaimEnd(t)
    BY <1>1, <1>2, <1>4 DEF Tickets
  <2>3. \A v \in Worker, t \in Stage :
            Dynamic(t) /\ t < stage[v] => claims'[t] = ClaimEnd(t)
    BY <1>1, <1>2, <1>4 DEF Tickets
  <2>4. \A y \in Task : Dynamic(y.stage) =>
            (y \in handed' <=> y.logical < claims'[y.stage] - ClaimBegin(y.stage))
    <3> SUFFICES ASSUME NEW y \in Task, Dynamic(y.stage)
                 PROVE  y \in handed' <=> y.logical < claims'[y.stage] - ClaimBegin(y.stage)
      OBVIOUS
    <3>0. y.stage \in Stage /\ y.logical \in Nat
          /\ y = [stage |-> y.stage, logical |-> y.logical]
      BY TaskFields
    <3>1. y \in handed <=> y.logical < claims[y.stage] - ClaimBegin(y.stage)
      BY <1>1 DEF Tickets
    <3>2. CASE y.stage # s
      BY <1>1, <1>2, <3>0, <3>1, <3>2
    <3>3. CASE y.stage = s
      <4>1. y = x <=> y.logical = claims[s] - ClaimBegin(s)
        BY <1>1, <3>0, <3>3
      <4> QED
        BY <1>1, <1>2, <1>4, <3>0, <3>1, <3>3, <4>1
    <3> QED
      BY <3>2, <3>3
  <2>5. \A v, y : Passed(v, y)' <=> Passed(v, y)
    BY <1>1 DEF Passed
  <2>6. \A y \in Task : ~Dynamic(y.stage) => (y \in handed' <=> y \in handed)
    BY <1>1, <1>2
  <2> QED
    BY <1>1, <1>3, <2>1, <2>2, <2>3, <2>4, <2>5, <2>6 DEF Tickets
<1>8. Between'
  BY <1>1, <1>3 DEF Between
<1>9. Holding'
  BY <1>1, <1>2, Hand_Holding DEF Busy
<1> QED
  BY <1>5, <1>6, <1>7, <1>8, <1>9

-----------------------------------------------------------------------------
(***************************************************************************)
(* Wait, run, notify.                                                      *)
(***************************************************************************)
LEMMA Wait_IInv == ASSUME IInv, NEW w \in Worker, WaitTaskDependencies(w) PROVE IInv'
<1> USE DEF WaitTaskDependencies, IInv, historyVars, cursorVars
<1>1. pc'[w] = "run" /\ \A v \in Worker : v # w => pc'[v] = pc[v]
  BY DEF TypeOK
<1>2. TypeOK'
  BY DEF TypeOK
<1>3. Cursors'
  BY <1>1, SameCursors
<1>4. Tickets' /\ Between'
  BY InLaunch, SameTickets DEF Between
<1>5. Holding'
  <2>1. \A v \in Worker : (pc'[v] \in Busy <=> pc[v] \in Busy)
          /\ (pc'[v] \in {"wait", "run"} <=> pc[v] \in {"wait", "run"})
    BY <1>1 DEF Busy
  <2> QED
    BY <2>1 DEF Holding
<1> QED
  BY <1>2, <1>3, <1>4, <1>5

LEMMA RunTask_IInv == ASSUME IInv, NEW w \in Worker, RunTask(w) PROVE IInv'
<1> USE DEF RunTask, IInv, historyVars, cursorVars
<1>1. pc'[w] = "notify" /\ \A v \in Worker : v # w => pc'[v] = pc[v]
  BY DEF TypeOK
<1>2. cur[w] \in handed
  BY DEF Holding, Busy
<1>3. TypeOK'
  BY <1>2 DEF TypeOK
<1>4. Cursors'
  BY <1>1, SameCursors
<1>5. Tickets' /\ Between'
  BY InLaunch, SameTickets DEF Between
<1>6. Holding'
  <2>1. \A v \in Worker : pc'[v] \in Busy <=> pc[v] \in Busy
    BY <1>1 DEF Busy
  <2>2. \A y \in handed : y \in finished' <=>
            ~\E v \in Worker : pc'[v] \in {"wait", "run"} /\ cur[v] = y
    <3> TAKE y \in handed
    <3>1. CASE y = cur[w]
      BY <1>1, <3>1 DEF Holding, Busy
    <3>2. CASE y # cur[w]
      BY <1>1, <3>2 DEF Holding
    <3> QED
      BY <3>1, <3>2
  <2> QED
    BY <2>1, <2>2 DEF Holding
<1> QED
  BY <1>3, <1>4, <1>5, <1>6

LEMMA NotifyTask_IInv == ASSUME IInv, NEW w \in Worker, NotifyTask(w) PROVE IInv'
<1> USE DEF NotifyTask, IInv, historyVars, cursorVars
<1>1. pc'[w] = "next" /\ \A v \in Worker : v # w => pc'[v] = pc[v]
  BY DEF TypeOK
<1>2. cur[w] \in handed /\ \A v \in Worker : pc[v] \in {"wait", "run"} => cur[v] # cur[w]
  BY DEF Holding, Busy
<1>3. cur[w] \in finished
  BY <1>2 DEF Holding
<1>4. TypeOK'
  BY <1>3 DEF TypeOK
<1>5. Cursors'
  BY <1>1, SameCursors
<1>6. Tickets' /\ Between'
  BY InLaunch, SameTickets DEF Between
<1>7. Holding'
  <2>1. \A v \in Worker : pc'[v] \in {"wait", "run"} <=> pc[v] \in {"wait", "run"}
    BY <1>1
  <2>2. \A v \in Worker : pc'[v] \in Busy <=> pc[v] \in Busy /\ v # w
    BY <1>1 DEF Busy
  <2>3. \A y \in handed : y \in notified' <=>
            ~\E v \in Worker : pc'[v] \in Busy /\ cur[v] = y
    <3> TAKE y \in handed
    <3>1. CASE y = cur[w]
      BY <2>2, <3>1 DEF Holding, Busy
    <3>2. CASE y # cur[w]
      BY <2>2, <3>2 DEF Holding
    <3> QED
      BY <3>1, <3>2
  <2> QED
    BY <2>1, <2>2, <2>3 DEF Holding
<1> QED
  BY <1>4, <1>5, <1>6, <1>7

LEMMA Next_IInv == ASSUME IInv, [Next]_vars PROVE IInv'
<1>1. ASSUME NEW w \in Worker, WorkerStep(w)
      PROVE  IInv'
  BY <1>1, NextStatic_IInv, RangeDone_IInv, Observe_IInv, Exhausted_IInv, Claim_IInv,
     Lost_IInv, Leave_IInv, Wait_IInv, RunTask_IInv, NotifyTask_IInv DEF WorkerStep
<1>2. CASE UNCHANGED vars
  <2>1. TypeOK' /\ Cursors' /\ Between' /\ Holding'
    BY <1>2 DEF IInv, vars, cursorVars, historyVars, TypeOK, Cursors, Between, Holding,
                Dynamic, ClaimBegin
  <2>2. Tickets'
    BY <1>2, SameTickets DEF IInv, vars, cursorVars, historyVars
  <2> QED
    BY <2>1, <2>2 DEF IInv
<1> QED
  BY <1>1, <1>2, Launch_IInv, EndLaunch_IInv DEF Next

\* The counters, the cursors and the tasks in flight agree in every state.
THEOREM ClaimInductive == Spec => []IInv
<1> QED
  BY Init_IInv, Next_IInv, PTL DEF Spec

\* Type correctness; in particular a claimed index is a task of its stage.
THEOREM ClaimTypeCorrect == Spec => []TypeOK
<1>1. IInv => TypeOK
  BY DEF IInv
<1> QED
  BY <1>1, ClaimInductive, PTL

\* Exactly this iteration's tickets are handed out, in order, and the counter
\* stands at the next origin between launches, with any number of workers.
THEOREM Exactness == Spec => []ClaimsAreExact
<1>1. ASSUME IInv
      PROVE  ClaimsAreExact
  <2> SUFFICES ASSUME NEW s \in Stage, Dynamic(s)
               PROVE  IF status = "idle" THEN claims[s] = ClaimBegin(s)
                      ELSE /\ claims[s] \in ClaimBegin(s) .. ClaimEnd(s)
                           /\ handed \cap TasksOf(s) =
                                {x \in TasksOf(s) : x.logical < claims[s] - ClaimBegin(s)}
    BY DEF ClaimsAreExact
  <2>1. CASE status = "idle"
    BY <1>1, <2>1 DEF IInv, Between
  <2>2. CASE status = "launched"
    <3>1. claims[s] \in Nat /\ ClaimBegin(s) \in Nat /\ ClaimEnd(s) \in Nat
      BY <1>1, OriginIsNat DEF IInv, TypeOK
    <3>2. claims[s] \in ClaimBegin(s) .. ClaimEnd(s)
      BY <1>1, <2>2, <3>1 DEF IInv, Tickets
    <3>3. \A x \in TasksOf(s) : x \in handed <=> x.logical < claims[s] - ClaimBegin(s)
      BY <1>1, <2>2 DEF IInv, Tickets, TasksOf
    <3> QED
      BY <2>2, <3>2, <3>3
  <2> QED
    BY <1>1, <2>1, <2>2 DEF IInv, TypeOK
<1> QED
  BY <1>1, ClaimInductive, PTL

-----------------------------------------------------------------------------
(***************************************************************************)
(* Every step is a step of the task graph, or a stutter.                   *)
(***************************************************************************)
RunningNow == {cur[w] : w \in {v \in Worker : pc[v] = "run"}}

LEMMA SameGraph ==
    /\ Graph!Task = Task
    /\ \A x : Graph!Predecessors(x) = Predecessors(x)
<1>1. Graph!Task = Task
  BY DEF Graph!Task, Task, Graph!Stage, Stage
<1>2. ASSUME NEW x
      PROVE  Graph!Predecessors(x) = Predecessors(x)
  BY <1>1 DEF Graph!Predecessors, Predecessors, Graph!Incoming, Incoming,
              Graph!RuntimeDependencyBounds, RuntimeDependencyBounds
<1> QED
  BY <1>1, <1>2

\* The rows a task polls have all its producers among their members.
LEMMA PolledRowsCover ==
    ASSUME NEW x \in Task, NEW p \in Predecessors(x)
    PROVE  \E r \in Desired(x) : p \in Members(r)
<1>1. PICK d \in Incoming(x.stage) :
        p.stage = d.producer /\ p.logical \in RuntimeDependencyBounds(d, x.logical)
  BY DEF Predecessors
<1>2. p \in Task /\ d.producer \in Stage /\ d.all \in BOOLEAN
  BY <1>1, GraphAssumption DEF Predecessors, Incoming
<1>3. CASE d.all
  <2> DEFINE r == [producer |-> d.producer, group |-> WholeStage]
  <2>1. r \in Row
    BY <1>2, <1>3 DEF Row, NeedsAggregateEvent, Incoming
  <2>2. p \in Members(r)
    BY <1>1, <1>2, <2>1 DEF Members, NotifyRows
  <2>3. r \in Desired(x)
    BY <1>3, <2>1 DEF Desired
  <2> QED
    BY <2>2, <2>3
<1>4. CASE ~d.all
  <2> DEFINE r == [producer |-> d.producer, group |-> Group(p)]
  <2>1. r \in Row
    <3>1. NeedsFineEvents(p.stage)
      BY <1>1, <1>4 DEF NeedsFineEvents, Incoming
    <3> QED
      BY <1>1, <1>2, <3>1 DEF Row
  <2>2. p \in Members(r)
    BY <1>1, <1>2, <2>1 DEF Members, NotifyRows
  <2>3. r.group = p.logical \div Kappa[d.producer]
    BY <1>1 DEF Group
  <2>4. r \in Desired(x)
    BY <1>1, <1>4, <2>1, <2>3 DEF Desired
  <2> QED
    BY <2>2, <2>4
<1> QED
  BY <1>3, <1>4

LEMMA Wait_Start ==
    ASSUME IInv, NEW w \in Worker, WaitTaskDependencies(w), NEW x \in Task, x = cur[w]
    PROVE  Graph!Start(x)
<1> USE DEF WaitTaskDependencies, IInv
<1>1. /\ pc'[w] = "run" /\ \A v \in Worker : v # w => pc'[v] = pc[v]
      /\ cur' = cur /\ finished' = finished
  BY DEF TypeOK, historyVars
<1>2. cur[w] \in handed /\ cur[w] \in Task
  BY DEF Holding, Busy, TypeOK
<1>3. cur[w] \notin finished
  BY <1>2 DEF Holding
<1>4. \A v \in Worker : pc[v] = "run" => cur[v] # cur[w]
  BY DEF Holding, Busy
<1>5. Predecessors(cur[w]) \subseteq finished
  BY <1>2, PolledRowsCover DEF Ready, RowComplete, TypeOK
<1>6. RunningNow' = RunningNow \cup {cur[w]} /\ cur[w] \notin RunningNow
  BY <1>1, <1>4 DEF RunningNow
<1> QED
  BY <1>1, <1>3, <1>5, <1>6, SameGraph DEF Graph!Start, RunningNow

LEMMA RunTask_Finish ==
    ASSUME IInv, NEW w \in Worker, RunTask(w), NEW x \in Task, x = cur[w]
    PROVE  Graph!Finish(x)
<1> USE DEF RunTask, IInv
<1>1. /\ pc'[w] = "notify" /\ \A v \in Worker : v # w => pc'[v] = pc[v]
      /\ cur' = cur
  BY DEF TypeOK
<1>2. \A v \in Worker : v # w /\ pc[v] = "run" => cur[v] # cur[w]
  BY DEF Holding, Busy
<1>3. RunningNow' = RunningNow \ {cur[w]} /\ cur[w] \in RunningNow
  BY <1>1, <1>2 DEF RunningNow
<1> QED
  BY <1>3 DEF Graph!Finish, RunningNow

LEMMA SameRunning ==
    ASSUME NEW w \in Worker, TypeOK, pc[w] # "run", pc'[w] # "run",
           \A v \in Worker : v # w => pc'[v] = pc[v] /\ cur'[v] = cur[v],
           finished' = finished
    PROVE  UNCHANGED Graph!graphVars
<1>1. RunningNow' = RunningNow
  BY DEF RunningNow
<1> QED
  BY <1>1 DEF Graph!graphVars, RunningNow

LEMMA WorkerStep_Refines ==
    ASSUME IInv, NEW w \in Worker, WorkerStep(w)
    PROVE  [Graph!Next]_(Graph!graphVars)
<1>0. TypeOK /\ pc \in [Worker -> {"next", "claim", "wait", "run", "notify", "done"}]
      /\ cur \in [Worker -> Task \cup {NoTask}]
  BY DEF IInv, TypeOK
<1>1. CASE WaitTaskDependencies(w)
  <2>1. PICK x \in Task : x = cur[w]
    BY <1>1 DEF IInv, Holding, Busy, TypeOK, WaitTaskDependencies
  <2>2. Graph!Start(x)
    BY <1>1, <2>1, Wait_Start
  <2>3. Graph!Next
    BY <2>2, SameGraph DEF Graph!Next
  <2> QED
    BY <2>3
<1>2. CASE RunTask(w)
  <2>1. PICK x \in Task : x = cur[w]
    BY <1>2 DEF IInv, Holding, Busy, TypeOK, RunTask
  <2>2. Graph!Finish(x)
    BY <1>2, <2>1, RunTask_Finish
  <2>3. Graph!Next
    BY <2>2, SameGraph DEF Graph!Next
  <2> QED
    BY <2>3
<1>3. CASE NextStatic(w)
  BY <1>0, <1>3, SameRunning DEF NextStatic, Hand
<1>4. CASE Claim(w)
  <2>1. PICK x : Hand(w, x) /\ pc[w] = "claim"
    BY <1>4, Claim_Fresh DEF Claim
  <2> QED
    BY <1>0, <2>1, SameRunning DEF Hand
<1>5. CASE Observe(w) \/ Leave(w)
  BY <1>0, <1>5, SameRunning DEF Observe, Leave, historyVars
<1>6. CASE RangeDone(w) \/ Lost(w)
  BY <1>0, <1>6, SameRunning DEF RangeDone, Lost, historyVars
<1>7. CASE Exhausted(w)
  BY <1>0, <1>7, SameRunning DEF Exhausted, historyVars
<1>8. CASE NotifyTask(w)
  BY <1>0, <1>8, SameRunning DEF NotifyTask
<1> QED
  BY <1>1, <1>2, <1>3, <1>4, <1>5, <1>6, <1>7, <1>8 DEF WorkerStep

LEMMA Launch_NextIteration ==
    ASSUME IInv, Launch
    PROVE  [Graph!Next]_(Graph!graphVars)
<1>1. /\ \A w \in Worker : pc[w] = "done" /\ pc'[w] = "next"
      /\ finished = handed /\ finished' = {} /\ handed \in {{}, Task}
  BY DEF IInv, Launch, Cursors, Between, Holding, TypeOK
<1>2. RunningNow = {} /\ RunningNow' = {}
  BY <1>1 DEF RunningNow
<1>3. CASE finished = {}
  BY <1>1, <1>2, <1>3 DEF Graph!graphVars, RunningNow
<1>4. CASE finished = Task
  BY <1>1, <1>2, <1>4, SameGraph DEF Graph!Next, Graph!NextIteration, RunningNow
<1> QED
  BY <1>1, <1>3, <1>4

LEMMA Step_Refines ==
    ASSUME IInv, [Next]_vars
    PROVE  [Graph!Next]_(Graph!graphVars)
<1>1. CASE EndLaunch
  BY <1>1 DEF EndLaunch, historyVars, cursorVars, Graph!graphVars
<1>2. CASE UNCHANGED vars
  BY <1>2 DEF vars, historyVars, Graph!graphVars
<1> QED
  BY <1>1, <1>2, Launch_NextIteration, WorkerStep_Refines DEF Next

\* Claimed or owned, every task runs once per launch and after its producers.
THEOREM ClaimRefinement == Spec => ImplementsTaskGraph
<1>1. Init => Graph!Init
  BY DEF Init, Graph!Init
<1>2. IInv /\ [Next]_vars => [Graph!Next]_(Graph!graphVars)
  BY Step_Refines
<1> QED
  BY <1>1, <1>2, ClaimInductive, PTL DEF Spec, ImplementsTaskGraph, Graph!Spec

-----------------------------------------------------------------------------
(***************************************************************************)
(* The routed layer.                                                       *)
(***************************************************************************)
\* A step of the routed kernel is a step of the kernel, or adds to a counter
\* between the body of a task and its notification.
LEMMA RoutedStepIsClaimStep ==
    ASSUME RoutedNext
    PROVE  [Next]_vars
<1>1. CASE (Launch \/ EndLaunch) /\ UNCHANGED routedVars
  BY <1>1 DEF Next
<1>2. ASSUME NEW w \in Worker, RoutedStep(w)
      PROVE  [Next]_vars
  <2>1. CASE PublishRows(w)
    BY <2>1 DEF PublishRows
  <2>2. CASE Advance(w)
    BY <2>2 DEF Advance, Next, WorkerStep
  <2>3. CASE WaitRouted(w)
    BY <2>3 DEF WaitRouted, Next, WorkerStep
  <2>4. CASE RunDispatch(w) \/ RunDown(w) \/ RunOther(w)
    BY <2>4 DEF RunDispatch, RunDown, RunOther, Next, WorkerStep
  <2>5. CASE NotifyRouted(w)
    BY <2>5 DEF NotifyRouted, Next, WorkerStep
  <2>6. QED
    BY <1>2, <2>1, <2>2, <2>3, <2>4, <2>5 DEF RoutedStep
<1>3. QED
  BY <1>1, <1>2 DEF RoutedNext

\* The kernel with data-dependent waits implements the kernel without them
\* (WaitTaskDependencies with WaitDmCountedDependency in front).
THEOREM RoutedImplementsClaim == RoutedSpec => Spec
<1>1. RoutedInit => Init
  BY DEF RoutedInit
<1>2. [RoutedNext]_<<vars, routedVars>> => [Next]_vars
  BY RoutedStepIsClaimStep
<1>3. QED
  BY <1>1, <1>2, PTL DEF RoutedSpec, Spec

\* However the router spreads the tokens, no ticket is lost or handed out
\* twice, empty expert tasks included (ClaimDynamicTask).
THEOREM RoutedExactness == RoutedSpec => []ClaimsAreExact
BY RoutedImplementsClaim, Exactness, PTL

\* However the router spreads the tokens, each task runs once per launch and
\* after the producers the static edges name.
THEOREM RoutedRefinement == RoutedSpec => ImplementsTaskGraph
BY RoutedImplementsClaim, ClaimRefinement, PTL

-----------------------------------------------------------------------------
(***************************************************************************)
(* The dispatch: a stable counting sort in chunks is a permutation.        *)
(***************************************************************************)
LEMMA DisjointUnion ==
    ASSUME NEW S, NEW T, IsFiniteSet(S), IsFiniteSet(T), S \cap T = {}
    PROVE  /\ IsFiniteSet(S \cup T)
           /\ Cardinality(S) \in Nat /\ Cardinality(T) \in Nat
           /\ Cardinality(S \cup T) = Cardinality(S) + Cardinality(T)
<1>1. Cardinality(S) \in Nat /\ Cardinality(T) \in Nat /\ Cardinality({}) = 0
  BY FS_CardinalityType, FS_EmptySet
<1>2. /\ IsFiniteSet(S \cup T)
      /\ Cardinality(S \cup T) = Cardinality(S) + Cardinality(T) - Cardinality(S \cap T)
  BY FS_Union
<1>3. Cardinality(S \cap T) = 0
  BY <1>1
<1>4. QED
  BY <1>1, <1>2, <1>3

LEMMA DivisionMonotone ==
    ASSUME NEW a \in Nat, NEW b \in Nat, NEW k \in Nat \ {0}, a <= b
    PROVE  a \div k <= b \div k
BY SMT

LEMMA AssignmentFinite ==
    /\ IsFiniteSet(Assignment)
    /\ Cardinality(Assignment) = Tokens * TopK
    /\ Tokens * TopK \in Nat \ {0}
<1>1. Tokens * TopK \in Nat \ {0}
  BY RoutedAssumption, SMT
<1>2. 0 \in Int /\ (Tokens * TopK - 1) \in Int /\ 0 <= (Tokens * TopK - 1) + 1
  BY <1>1
<1>3. /\ IsFiniteSet(0 .. (Tokens * TopK - 1))
      /\ Cardinality(0 .. (Tokens * TopK - 1)) = (Tokens * TopK - 1) - 0 + 1
  BY <1>2, IntervalCardinality, Zenon
<1>4. QED
  BY <1>1, <1>3 DEF Assignment

LEMMA SubsetCount ==
    ASSUME NEW S \in SUBSET Assignment
    PROVE  /\ IsFiniteSet(S)
           /\ Cardinality(S) \in Nat
           /\ Cardinality(S) <= Tokens * TopK
BY AssignmentFinite, FS_Subset, FS_CardinalityType

\* The assignments sorted before a: those of earlier experts, and the earlier
\* ones of the same expert.
Before(idx, a) ==
    {b \in Assignment : idx[b] < idx[a] \/ (idx[b] = idx[a] /\ b < a)}

RankOf(idx, a) == Cardinality({b \in RowsOf(idx, idx[a]) : b < a})

LEMMA ChunksAscend ==
    ASSUME NEW a \in Assignment, NEW b \in Assignment
    PROVE  /\ b < a => ChunkOf(b) <= ChunkOf(a)
           /\ ChunkOf(b) < ChunkOf(a) => b < a
           /\ ChunkOf(a) \in Nat /\ ChunkOf(b) \in Nat
<1>1. a \in Nat /\ b \in Nat /\ TopK \in Nat \ {0} /\ ChunkTokens \in Nat \ {0}
  BY RoutedAssumption DEF Assignment
<1>2. TokenOf(a) \in Nat /\ TokenOf(b) \in Nat
  BY <1>1, Division DEF TokenOf
<1>3. ChunkOf(a) \in Nat /\ ChunkOf(b) \in Nat
  BY <1>1, <1>2, Division DEF ChunkOf
<1>4. ASSUME b <= a
      PROVE  ChunkOf(b) <= ChunkOf(a)
  <2>1. TokenOf(b) <= TokenOf(a)
    BY <1>1, <1>4, DivisionMonotone DEF TokenOf
  <2>2. QED
    BY <1>1, <1>2, <2>1, DivisionMonotone DEF ChunkOf
<1>5. ASSUME a <= b
      PROVE  ChunkOf(a) <= ChunkOf(b)
  <2>1. TokenOf(a) <= TokenOf(b)
    BY <1>1, <1>5, DivisionMonotone DEF TokenOf
  <2>2. QED
    BY <1>1, <1>2, <2>1, DivisionMonotone DEF ChunkOf
<1>6. QED
  BY <1>1, <1>3, <1>4, <1>5

\* Prefix over the chunks and rank in the chunk together are the rank.
LEMMA RankByChunks ==
    ASSUME NEW idx \in [Assignment -> ExpertId], NEW a \in Assignment
    PROVE  ChunkPrefix(idx, a) + RankInChunk(idx, a) = RankOf(idx, a)
<1> DEFINE L == {b \in RowsOf(idx, idx[a]) : ChunkOf(b) < ChunkOf(a)}
           H == {b \in RowsOf(idx, idx[a]) : ChunkOf(b) = ChunkOf(a) /\ b < a}
           R == {b \in RowsOf(idx, idx[a]) : b < a}
<1>1. L \in SUBSET Assignment /\ H \in SUBSET Assignment
  BY DEF RowsOf
<1>2. L \cap H = {}
  <2>1. \A b \in Assignment : ~(ChunkOf(b) < ChunkOf(a) /\ ChunkOf(b) = ChunkOf(a))
    BY ChunksAscend
  <2>2. QED
    BY <1>1, <2>1
<1>3. L \cup H = R
  <2>1. \A b \in Assignment :
            b < a <=> ChunkOf(b) < ChunkOf(a) \/ (ChunkOf(b) = ChunkOf(a) /\ b < a)
    BY ChunksAscend
  <2>2. QED
    BY <2>1 DEF RowsOf
<1>4. IsFiniteSet(L) /\ IsFiniteSet(H)
  BY <1>1, SubsetCount
<1> HIDE DEF L, H, R
<1>5. Cardinality(L \cup H) = Cardinality(L) + Cardinality(H)
  BY <1>2, <1>4, DisjointUnion
<1>6. QED
  BY <1>3, <1>5 DEF L, H, R, ChunkPrefix, RankInChunk, RankOf

LEMMA RankBelow ==
    ASSUME NEW idx \in [Assignment -> ExpertId], NEW a \in Assignment
    PROVE  /\ RankOf(idx, a) \in Nat
           /\ RankOf(idx, a) < Cardinality(RowsOf(idx, idx[a]))
           /\ Cardinality(RowsOf(idx, idx[a])) \in Nat
<1> DEFINE R == {b \in RowsOf(idx, idx[a]) : b < a}
           A == RowsOf(idx, idx[a])
<1>1. R \subseteq A /\ A \in SUBSET Assignment /\ R \in SUBSET Assignment
  BY DEF RowsOf
<1>2. a \in A /\ a \notin R
  BY DEF RowsOf, Assignment
<1>3. IsFiniteSet(A) /\ Cardinality(A) \in Nat /\ Cardinality(R) \in Nat
  BY <1>1, SubsetCount
<1>4. Cardinality(R) <= Cardinality(A) /\ (Cardinality(A) = Cardinality(R) => A = R)
  BY <1>1, <1>3, FS_Subset
<1>5. QED
  BY <1>2, <1>3, <1>4 DEF RankOf

LEMMA RowIsRank ==
    ASSUME NEW idx \in [Assignment -> ExpertId], NEW a \in Assignment
    PROVE  /\ ExpertOffset(idx, idx[a]) \in Nat
           /\ RowOf(idx, a) = ExpertOffset(idx, idx[a]) + RankOf(idx, a)
           /\ RowOf(idx, a) = Cardinality(Before(idx, a))
           /\ RowOf(idx, a) \in Assignment
<1> DEFINE E == {b \in Assignment : idx[b] < idx[a]}
           R == {b \in RowsOf(idx, idx[a]) : b < a}
<1>1. E \in SUBSET Assignment /\ R \in SUBSET Assignment
  BY DEF RowsOf
<1>2. idx[a] \in Int /\ \A b \in Assignment : idx[b] \in Int
  BY DEF ExpertId
<1>3. E \cap R = {}
  BY <1>2 DEF RowsOf
<1>4. E \cup R = Before(idx, a)
  BY DEF Before, RowsOf
<1>5. IsFiniteSet(E) /\ IsFiniteSet(R) /\ Cardinality(E) \in Nat /\ Cardinality(R) \in Nat
  BY <1>1, SubsetCount
<1>6. Cardinality(E) = ExpertOffset(idx, idx[a]) /\ Cardinality(R) = RankOf(idx, a)
  BY DEF ExpertOffset, RankOf
<1> HIDE DEF E, R
<1>7. Cardinality(E \cup R) = Cardinality(E) + Cardinality(R)
  BY <1>3, <1>5, DisjointUnion
<1>8. ChunkPrefix(idx, a) \in Nat /\ RankInChunk(idx, a) \in Nat
  <2>1. /\ {b \in RowsOf(idx, idx[a]) : ChunkOf(b) < ChunkOf(a)} \in SUBSET Assignment
        /\ {b \in RowsOf(idx, idx[a]) : ChunkOf(b) = ChunkOf(a) /\ b < a} \in SUBSET Assignment
    BY DEF RowsOf
  <2>2. QED
    BY <2>1, SubsetCount DEF ChunkPrefix, RankInChunk
<1>9. RowOf(idx, a) = ExpertOffset(idx, idx[a]) + RankOf(idx, a)
  BY <1>5, <1>6, <1>8, RankByChunks DEF RowOf
<1>10. RowOf(idx, a) = Cardinality(Before(idx, a))
  BY <1>4, <1>6, <1>7, <1>9
<1>11. RowOf(idx, a) \in Nat /\ RowOf(idx, a) < Tokens * TopK
  <2>1. Before(idx, a) \in SUBSET Assignment /\ a \notin Before(idx, a)
    BY <1>2 DEF Before, Assignment
  <2>2. Cardinality(Before(idx, a)) <= Cardinality(Assignment)
        /\ (Cardinality(Assignment) = Cardinality(Before(idx, a)) => Assignment = Before(idx, a))
    BY <2>1, AssignmentFinite, FS_Subset
  <2>3. QED
    BY <1>10, <2>1, <2>2, AssignmentFinite, SubsetCount
<1>12. QED
  BY <1>5, <1>6, <1>9, <1>10, <1>11, AssignmentFinite DEF Assignment

\* No two assignments share a row, so every row is taken.
LEMMA RowsAreDistinct ==
    ASSUME NEW idx \in [Assignment -> ExpertId], NEW a \in Assignment, NEW b \in Assignment,
           RowOf(idx, a) = RowOf(idx, b)
    PROVE  a = b
<1>1. ASSUME NEW c \in Assignment, NEW d \in Assignment, c \in Before(idx, d)
      PROVE  RowOf(idx, c) < RowOf(idx, d)
  <2>1. /\ c \in Int /\ d \in Int /\ idx[c] \in Int /\ idx[d] \in Int
        /\ \A e \in Assignment : e \in Int /\ idx[e] \in Int
    BY DEF ExpertId, Assignment
  <2>2. Before(idx, c) \subseteq Before(idx, d)
    <3>1. idx[c] < idx[d] \/ (idx[c] = idx[d] /\ c < d)
      BY <1>1 DEF Before
    <3>2. ASSUME NEW e \in Before(idx, c)
          PROVE  e \in Before(idx, d)
      <4>1. e \in Assignment /\ (idx[e] < idx[c] \/ (idx[e] = idx[c] /\ e < c))
        BY DEF Before
      <4>2. e \in Int /\ idx[e] \in Int
        BY <2>1, <4>1
      <4>3. idx[e] < idx[d] \/ (idx[e] = idx[d] /\ e < d)
        BY <2>1, <3>1, <4>1, <4>2
      <4>4. QED
        BY <4>1, <4>3 DEF Before
    <3>3. QED
      BY <3>2
  <2>3. c \notin Before(idx, c)
    BY <2>1 DEF Before
  <2>4. IsFiniteSet(Before(idx, d)) /\ Cardinality(Before(idx, d)) \in Nat
        /\ Cardinality(Before(idx, c)) \in Nat
    BY SubsetCount DEF Before
  <2>5. /\ Cardinality(Before(idx, c)) <= Cardinality(Before(idx, d))
        /\ Cardinality(Before(idx, d)) = Cardinality(Before(idx, c))
              => Before(idx, d) = Before(idx, c)
    BY <2>2, <2>4, FS_Subset
  <2>6. QED
    BY <1>1, <2>3, <2>4, <2>5, RowIsRank
<1>2. a \in Int /\ b \in Int /\ idx[a] \in Int /\ idx[b] \in Int
  BY DEF ExpertId, Assignment
<1>3. a = b \/ a \in Before(idx, b) \/ b \in Before(idx, a)
  BY <1>2 DEF Before
<1>4. RowOf(idx, a) \in Int /\ RowOf(idx, b) \in Int
  BY RowIsRank DEF Assignment
<1>5. QED
  BY <1>1, <1>3, <1>4

\* The row table after the dispatch: each row holds the one assignment whose
\* row it is.
LEMMA ScatterInverse ==
    ASSUME NEW idx \in [Assignment -> ExpertId]
    PROVE  /\ ScatteredRows(idx) \in [Assignment -> Assignment]
           /\ \A r \in Assignment : RowOf(idx, ScatteredRows(idx)[r]) = r
           /\ \A a \in Assignment : ScatteredRows(idx)[RowOf(idx, a)] = a
<1> DEFINE f == [a \in Assignment |-> RowOf(idx, a)]
<1>1. f \in [Assignment -> Assignment]
  BY RowIsRank
<1>2. \A a, b \in Assignment : f[a] = f[b] => a = b
  BY RowsAreDistinct
<1>3. f \in Injection(Assignment, Assignment)
  BY <1>1, <1>2 DEF Injection, IsInjective
<1>4. f \in Surjection(Assignment, Assignment)
  BY <1>3, AssignmentFinite, FS_Injection
<1>5. \A r \in Assignment : \E a \in Assignment : RowOf(idx, a) = r
  BY <1>4 DEF Surjection
<1>6. \A r \in Assignment : /\ ScatteredRows(idx)[r] \in Assignment
                            /\ RowOf(idx, ScatteredRows(idx)[r]) = r
  <2> TAKE r \in Assignment
  <2>1. ScatteredRows(idx)[r] = CHOOSE a \in Assignment : RowOf(idx, a) = r
    BY DEF ScatteredRows
  <2>2. PICK a \in Assignment : RowOf(idx, a) = r
    BY <1>5
  <2>3. QED
    BY <2>1, <2>2
<1>7. ScatteredRows(idx) \in [Assignment -> Assignment]
  BY <1>6 DEF ScatteredRows
<1>8. \A a \in Assignment : ScatteredRows(idx)[RowOf(idx, a)] = a
  <2> TAKE a \in Assignment
  <2>1. RowOf(idx, a) \in Assignment
    BY RowIsRank
  <2>2. RowOf(idx, ScatteredRows(idx)[RowOf(idx, a)]) = RowOf(idx, a)
        /\ ScatteredRows(idx)[RowOf(idx, a)] \in Assignment
    BY <1>6, <2>1
  <2>3. QED
    BY <2>2, RowsAreDistinct
<1>9. QED
  BY <1>6, <1>7, <1>8

-----------------------------------------------------------------------------
(***************************************************************************)
(* The blocks: the dispatch cuts the rows of each expert into blocks, and  *)
(* a block into the subtiles of the expert tasks.                          *)
(***************************************************************************)
LEMMA CeilAbove ==
    ASSUME NEW n \in Nat, NEW b \in Nat \ {0}
    PROVE  /\ CeilDiv(n, b) \in Nat
           /\ \A k \in 0 .. (n - 1) : k \div b < CeilDiv(n, b)
           /\ \A j \in Nat : j < CeilDiv(n, b) => j * b < n
<1>1. n + b - 1 \in Nat
  OBVIOUS
<1>2. CeilDiv(n, b) \in Nat
  BY <1>1, Division DEF CeilDiv
<1>3. ASSUME NEW k \in 0 .. (n - 1)
      PROVE  k \div b < CeilDiv(n, b)
  <2>1. k + b \in Nat /\ k + b <= n + b - 1 /\ k \in Nat
    OBVIOUS
  <2>2. (k + b) \div b <= (n + b - 1) \div b
    BY <1>1, <2>1, DivisionMonotone
  <2>3. (k + b) \div b = k \div b + 1
    BY <2>1, SMT
  <2>4. k \div b \in Nat
    BY <2>1, Division
  <2>5. QED
    BY <1>2, <2>2, <2>3, <2>4 DEF CeilDiv
<1>4. ASSUME NEW j \in Nat, j < CeilDiv(n, b)
      PROVE  j * b < n
  <2> DEFINE q == CeilDiv(n, b)
             r == (n + b - 1) % b
  <2>1. n + b - 1 = q * b + r /\ r \in 0 .. (b - 1) /\ q \in Nat
    BY <1>1, Division DEF CeilDiv
  <2>2. j + 1 <= q
    BY <1>4, <2>1
  <2> HIDE DEF q, r
  <2>3. (j + 1) * b <= q * b
    BY <2>1, <2>2, SMT
  <2>4. (j + 1) * b = j * b + b
    BY SMT
  <2>5. j * b \in Int /\ q * b \in Int
    BY <2>1, SMT
  <2>6. QED
    BY <2>1, <2>3, <2>4, <2>5
<1>5. QED
  BY <1>2, <1>3, <1>4

LEMMA CeilMonotone ==
    ASSUME NEW n \in Nat, NEW m \in Nat, NEW b \in Nat \ {0}, n <= m
    PROVE  CeilDiv(n, b) <= CeilDiv(m, b)
<1>1. n + b - 1 \in Nat /\ m + b - 1 \in Nat /\ n + b - 1 <= m + b - 1
  OBVIOUS
<1>2. QED
  BY <1>1, DivisionMonotone DEF CeilDiv

LEMMA Dimensions ==
    /\ Tokens \in Nat \ {0} /\ TopK \in Nat \ {0} /\ Experts \in Nat \ {0}
    /\ BlockRows \in Nat \ {0} /\ TileM \in Nat \ {0} /\ TilesN \in Nat \ {0}
    /\ TokenGroup \in Nat \ {0} /\ Capacity \in Nat \ {0} /\ SubTiles \in Nat \ {0}
    /\ CeilDiv(Tokens * TopK, BlockRows) <= Capacity
<1>1. /\ Tokens \in Nat \ {0} /\ TopK \in Nat \ {0} /\ Experts \in Nat \ {0}
      /\ BlockRows \in Nat \ {0} /\ TileM \in Nat \ {0} /\ TilesN \in Nat \ {0}
      /\ TokenGroup \in Nat \ {0}
  BY RoutedAssumption
<1>2. Tokens * TopK \in Nat \ {0}
  BY AssignmentFinite
<1>3. CeilDiv(Tokens * TopK, BlockRows) \in Nat
  BY <1>1, <1>2, CeilAbove
<1>4. Least(Tokens * TopK, Experts) \in Nat \ {0}
  BY <1>1, <1>2 DEF Least
<1>5. Capacity \in Nat \ {0} /\ CeilDiv(Tokens * TopK, BlockRows) <= Capacity
  BY <1>3, <1>4 DEF Capacity
<1>6. SubTiles \in Nat \ {0}
  <2>1. CeilDiv(BlockRows, TileM) \in Nat /\ 0 \div TileM < CeilDiv(BlockRows, TileM)
    BY <1>1, CeilAbove
  <2>2. 0 \div TileM \in Nat
    BY <1>1, Division
  <2>3. QED
    BY <2>1, <2>2 DEF SubTiles
<1>7. QED
  BY <1>1, <1>5, <1>6

LEMMA ExpertRows ==
    ASSUME NEW idx \in [Assignment -> ExpertId], NEW e \in ExpertId
    PROVE  /\ Cardinality(RowsOf(idx, e)) \in Nat
           /\ BlocksOf(idx, e) \in Nat
           /\ BlocksOf(idx, e) <= Capacity
<1>1. /\ Cardinality(RowsOf(idx, e)) \in Nat
      /\ Cardinality(RowsOf(idx, e)) <= Tokens * TopK
  BY SubsetCount DEF RowsOf
<1>2. BlocksOf(idx, e) <= CeilDiv(Tokens * TopK, BlockRows)
  BY <1>1, CeilMonotone, AssignmentFinite, Dimensions DEF BlocksOf
<1>3. BlocksOf(idx, e) \in Nat /\ CeilDiv(Tokens * TopK, BlockRows) \in Nat
  BY <1>1, CeilAbove, AssignmentFinite, Dimensions DEF BlocksOf
<1>4. QED
  BY <1>1, <1>2, <1>3, Dimensions

LEMMA ExpertOffsets ==
    ASSUME NEW idx \in [Assignment -> ExpertId]
    PROVE  /\ \A f \in 0 .. Experts : /\ ExpertOffset(idx, f) \in Nat
                                      /\ ExpertOffset(idx, f) <= Tokens * TopK
           /\ \A f, g \in 0 .. Experts : f <= g => ExpertOffset(idx, f) <= ExpertOffset(idx, g)
           /\ \A e \in ExpertId : ExpertOffset(idx, e + 1)
                                   = ExpertOffset(idx, e) + Cardinality(RowsOf(idx, e))
<1>1. \A b \in Assignment : idx[b] \in Int
  BY DEF ExpertId
<1>2. ASSUME NEW f \in 0 .. Experts
      PROVE  /\ ExpertOffset(idx, f) \in Nat
             /\ ExpertOffset(idx, f) <= Tokens * TopK
  BY SubsetCount DEF ExpertOffset
<1>3. ASSUME NEW f \in 0 .. Experts, NEW g \in 0 .. Experts, f <= g
      PROVE  ExpertOffset(idx, f) <= ExpertOffset(idx, g)
  <2> DEFINE F == {a \in Assignment : idx[a] < f}
             G == {a \in Assignment : idx[a] < g}
  <2>1. F \in SUBSET G /\ G \in SUBSET Assignment
    BY <1>1, <1>3
  <2>2. IsFiniteSet(G)
    BY <2>1, SubsetCount
  <2>3. Cardinality(F) <= Cardinality(G)
    BY <2>1, <2>2, FS_Subset
  <2>4. QED
    BY <2>3 DEF ExpertOffset
<1>4. ASSUME NEW e \in ExpertId
      PROVE  ExpertOffset(idx, e + 1) = ExpertOffset(idx, e) + Cardinality(RowsOf(idx, e))
  <2> DEFINE F == {a \in Assignment : idx[a] < e}
             R == RowsOf(idx, e)
  <2>1. e \in Int
    BY DEF ExpertId
  <2>2. {a \in Assignment : idx[a] < e + 1} = F \cup R
    BY <1>1, <2>1 DEF RowsOf
  <2>3. F \cap R = {} /\ F \in SUBSET Assignment /\ R \in SUBSET Assignment
    BY <1>1, <2>1 DEF RowsOf
  <2>4. IsFiniteSet(F) /\ IsFiniteSet(R)
    BY <2>3, SubsetCount
  <2>5. Cardinality(F \cup R) = Cardinality(F) + Cardinality(R)
    BY <2>3, <2>4, DisjointUnion
  <2>6. QED
    BY <2>2, <2>5 DEF ExpertOffset
<1>5. QED
  BY <1>2, <1>3, <1>4

\* The pairs behind block_offsets.
PairsBelow(idx, f) ==
    {p \in ExpertId \X Block : p[1] < f /\ p[2] < BlocksOf(idx, p[1])}

LEMMA PairsFinite ==
    ASSUME NEW S \in SUBSET (ExpertId \X Block)
    PROVE  IsFiniteSet(S) /\ Cardinality(S) \in Nat
<1>1. IsFiniteSet(ExpertId) /\ IsFiniteSet(Block)
  <2>1. Experts - 1 \in Int /\ Capacity - 1 \in Int
    BY Dimensions
  <2>2. QED
    BY <2>1, FS_Interval DEF ExpertId, Block
<1>2. IsFiniteSet(ExpertId \X Block)
  BY <1>1, FS_Product
<1>3. QED
  BY <1>2, FS_Subset, FS_CardinalityType

LEMMA BlockOffsets ==
    ASSUME NEW idx \in [Assignment -> ExpertId]
    PROVE  /\ BlockOffset(idx, 0) = 0
           /\ \A f \in 0 .. Experts : BlockOffset(idx, f) \in Nat
           /\ \A f, g \in 0 .. Experts : f <= g => BlockOffset(idx, f) <= BlockOffset(idx, g)
           /\ \A e \in ExpertId : BlockOffset(idx, e + 1)
                                   = BlockOffset(idx, e) + BlocksOf(idx, e)
<1>0. \A p \in ExpertId \X Block : p[1] \in ExpertId /\ p[1] \in Nat /\ p[2] \in Block /\ p[2] \in Nat
                                    /\ p = <<p[1], p[2]>>
  BY DEF ExpertId, Block
<1>1. \A f : BlockOffset(idx, f) = Cardinality(PairsBelow(idx, f))
  BY DEF BlockOffset, PairsBelow
<1>2. \A f : PairsBelow(idx, f) \in SUBSET (ExpertId \X Block)
  BY DEF PairsBelow
<1>3. BlockOffset(idx, 0) = 0
  <2>1. PairsBelow(idx, 0) = {}
    BY <1>0 DEF PairsBelow
  <2>2. QED
    BY <1>1, <2>1, FS_EmptySet
<1>4. \A f : BlockOffset(idx, f) \in Nat
  BY <1>1, <1>2, PairsFinite
<1>5. ASSUME NEW f \in 0 .. Experts, NEW g \in 0 .. Experts, f <= g
      PROVE  BlockOffset(idx, f) <= BlockOffset(idx, g)
  <2>1. PairsBelow(idx, f) \in SUBSET PairsBelow(idx, g)
    BY <1>0, <1>5 DEF PairsBelow
  <2>2. IsFiniteSet(PairsBelow(idx, g))
    BY <1>2, PairsFinite
  <2>3. QED
    BY <1>1, <2>1, <2>2, FS_Subset
<1>6. ASSUME NEW e \in ExpertId
      PROVE  BlockOffset(idx, e + 1) = BlockOffset(idx, e) + BlocksOf(idx, e)
  <2> DEFINE I == 0 .. (BlocksOf(idx, e) - 1)
             P == {e} \X I
  <2>1. BlocksOf(idx, e) \in Nat /\ BlocksOf(idx, e) <= Capacity /\ Capacity \in Nat /\ e \in Nat
    BY ExpertRows, Dimensions DEF ExpertId
  <2>2. IsFiniteSet(I) /\ Cardinality(I) = BlocksOf(idx, e)
    <3>1. 0 \in Int /\ (BlocksOf(idx, e) - 1) \in Int /\ 0 <= (BlocksOf(idx, e) - 1) + 1
      BY <2>1
    <3>2. IsFiniteSet(I) /\ Cardinality(I) = (BlocksOf(idx, e) - 1) - 0 + 1
      BY <3>1, IntervalCardinality, Zenon
    <3>3. QED
      BY <2>1, <3>2
  <2>3. IsFiniteSet({e}) /\ Cardinality({e}) = 1
    BY FS_Singleton
  <2>4. I \in SUBSET Block /\ \A v \in Block : v \in I <=> v < BlocksOf(idx, e)
    BY <2>1 DEF Block
  <2> HIDE DEF I
  <2>5. IsFiniteSet(P) /\ Cardinality(P) = 1 * Cardinality(I)
    BY <2>2, <2>3, FS_Product
  <2>6. PairsBelow(idx, e + 1) = PairsBelow(idx, e) \cup P
    <3>1. ASSUME NEW p \in ExpertId \X Block
          PROVE  p \in PairsBelow(idx, e + 1) <=> p \in PairsBelow(idx, e) \/ p \in P
      <4>1. p \in P <=> p[1] = e /\ p[2] < BlocksOf(idx, e)
        BY <1>0, <2>4
      <4>2. p[1] < e + 1 <=> p[1] < e \/ p[1] = e
        BY <1>0, <2>1
      <4>3. QED
        BY <4>1, <4>2 DEF PairsBelow
    <3>2. P \subseteq ExpertId \X Block
      BY <2>4
    <3>3. QED
      BY <1>2, <3>1, <3>2
  <2>7. PairsBelow(idx, e) \cap P = {}
    BY <1>0, <2>1 DEF PairsBelow
  <2>8. IsFiniteSet(PairsBelow(idx, e))
    BY <1>2, PairsFinite
  <2>9. Cardinality(PairsBelow(idx, e) \cup P) = Cardinality(PairsBelow(idx, e)) + Cardinality(P)
    BY <2>5, <2>7, <2>8, DisjointUnion
  <2>10. Cardinality(P) = BlocksOf(idx, e)
    BY <2>1, <2>2, <2>5
  <2>11. QED
    BY <1>1, <2>6, <2>9, <2>10
<1>7. QED
  BY <1>3, <1>4, <1>5, <1>6

\* Every block in use belongs to one expert.
LEMMA BlockOwner ==
    ASSUME NEW idx \in [Assignment -> ExpertId], NEW v \in Nat,
           v < BlockOffset(idx, Experts)
    PROVE  \E e \in ExpertId : BlockOffset(idx, e) <= v /\ v < BlockOffset(idx, e + 1)
<1> DEFINE S == {f \in 0 .. Experts : v < BlockOffset(idx, f)}
<1>1. Experts \in Nat \ {0} /\ Experts \in S /\ S \in SUBSET Nat
  BY Dimensions
<1>2. PICK m \in S : \A k \in S : m <= k
  <2> HIDE DEF S
  <2>1. QED
    BY <1>1, LeastNatural
<1>3. m \in 0 .. Experts /\ v < BlockOffset(idx, m) /\ m # 0
  BY BlockOffsets
<1>4. m - 1 \in ExpertId /\ m - 1 \in 0 .. Experts /\ (m - 1) + 1 = m
  BY <1>1, <1>3 DEF ExpertId
<1>5. m - 1 \notin S
  BY <1>2, <1>3
<1>6. BlockOffset(idx, m - 1) <= v
  BY <1>4, <1>5, BlockOffsets
<1>7. QED
  BY <1>3, <1>4, <1>6

LEMMA SameOwner ==
    ASSUME NEW idx \in [Assignment -> ExpertId], NEW v \in Nat,
           NEW e \in ExpertId, BlockOffset(idx, e) <= v, v < BlockOffset(idx, e + 1),
           NEW f \in ExpertId, BlockOffset(idx, f) <= v, v < BlockOffset(idx, f + 1)
    PROVE  e = f
<1>1. /\ e \in 0 .. Experts /\ e + 1 \in 0 .. Experts /\ f \in 0 .. Experts
      /\ f + 1 \in 0 .. Experts /\ Experts \in Nat
  BY Dimensions DEF ExpertId
<1>2. /\ BlockOffset(idx, e) \in Nat /\ BlockOffset(idx, e + 1) \in Nat
      /\ BlockOffset(idx, f) \in Nat /\ BlockOffset(idx, f + 1) \in Nat
  BY <1>1, BlockOffsets
<1>3. /\ e + 1 <= f => BlockOffset(idx, e + 1) <= BlockOffset(idx, f)
      /\ f + 1 <= e => BlockOffset(idx, f + 1) <= BlockOffset(idx, e)
  BY <1>1, BlockOffsets
<1>4. QED
  BY <1>1, <1>2, <1>3

LEMMA SameExpert ==
    ASSUME NEW idx \in [Assignment -> ExpertId], NEW r \in Nat,
           NEW e \in ExpertId, NEW k \in 0 .. (Cardinality(RowsOf(idx, e)) - 1),
           NEW f \in ExpertId, NEW l \in 0 .. (Cardinality(RowsOf(idx, f)) - 1),
           r = ExpertOffset(idx, e) + k, r = ExpertOffset(idx, f) + l
    PROVE  e = f /\ k = l
<1>1. /\ e \in 0 .. Experts /\ e + 1 \in 0 .. Experts /\ f \in 0 .. Experts
      /\ f + 1 \in 0 .. Experts /\ Experts \in Nat
  BY Dimensions DEF ExpertId
<1>2. /\ ExpertOffset(idx, e) \in Nat /\ ExpertOffset(idx, f) \in Nat
      /\ Cardinality(RowsOf(idx, e)) \in Nat /\ Cardinality(RowsOf(idx, f)) \in Nat
      /\ ExpertOffset(idx, e + 1) = ExpertOffset(idx, e) + Cardinality(RowsOf(idx, e))
      /\ ExpertOffset(idx, f + 1) = ExpertOffset(idx, f) + Cardinality(RowsOf(idx, f))
  BY <1>1, ExpertOffsets, ExpertRows
<1>3. /\ e + 1 <= f => ExpertOffset(idx, e + 1) <= ExpertOffset(idx, f)
      /\ f + 1 <= e => ExpertOffset(idx, f + 1) <= ExpertOffset(idx, e)
  BY <1>1, ExpertOffsets
<1>4. r < ExpertOffset(idx, e + 1) /\ r < ExpertOffset(idx, f + 1)
  BY <1>2
<1>5. ~(e + 1 <= f) /\ ~(f + 1 <= e)
  BY <1>1, <1>2, <1>3, <1>4
<1>6. e = f
  BY <1>1, <1>5
<1>7. QED
  BY <1>2, <1>6

-----------------------------------------------------------------------------
(***************************************************************************)
(* The tables as the dispatch leaves them, and the expert task of a row.   *)
(***************************************************************************)
FirstOf(idx, v, e) == (v - BlockOffset(idx, e)) * BlockRows

BlocksBound(idx) ==
    \A v \in Block :
        /\ blocks[v].valid <=> v < BlockOffset(idx, Experts)
        /\ \A e \in ExpertId : BlockOffset(idx, e) <= v /\ v < BlockOffset(idx, e + 1) =>
              /\ blocks[v].begin = ExpertOffset(idx, e) + FirstOf(idx, v, e)
              /\ blocks[v].count = Least(BlockRows, Cardinality(RowsOf(idx, e)) - FirstOf(idx, v, e))

BlockTable == [Block -> [begin : Nat, count : Nat, valid : BOOLEAN]]

LEMMA BlockInUse ==
    ASSUME NEW idx \in [Assignment -> ExpertId], NEW v \in Nat, NEW e \in ExpertId,
           BlockOffset(idx, e) <= v, v < BlockOffset(idx, e + 1)
    PROVE  /\ FirstOf(idx, v, e) \in Nat
           /\ FirstOf(idx, v, e) < Cardinality(RowsOf(idx, e))
           /\ v < BlockOffset(idx, Experts)
           /\ v - BlockOffset(idx, e) \in Nat
<1>1. /\ e \in 0 .. Experts /\ e + 1 \in 0 .. Experts /\ Experts \in 0 .. Experts
      /\ e + 1 <= Experts
  BY Dimensions DEF ExpertId
<1>2. /\ BlockOffset(idx, e) \in Nat /\ BlockOffset(idx, e + 1) \in Nat
      /\ BlockOffset(idx, Experts) \in Nat
      /\ BlockOffset(idx, e + 1) <= BlockOffset(idx, Experts)
      /\ BlockOffset(idx, e + 1) = BlockOffset(idx, e) + BlocksOf(idx, e)
  BY <1>1, BlockOffsets
<1>3. BlocksOf(idx, e) \in Nat /\ Cardinality(RowsOf(idx, e)) \in Nat
  BY ExpertRows
<1>4. PICK j \in Nat : j = v - BlockOffset(idx, e) /\ j < BlocksOf(idx, e)
  BY <1>2, <1>3
<1>5. j * BlockRows < Cardinality(RowsOf(idx, e))
  BY <1>3, <1>4, CeilAbove, Dimensions DEF BlocksOf
<1>6. j * BlockRows \in Nat
  BY Dimensions, SMT
<1>7. QED
  BY <1>2, <1>4, <1>5, <1>6 DEF FirstOf

LEMMA BindTables ==
    ASSUME NEW idx \in [Assignment -> ExpertId], blocks \in BlockTable,
           blocks' = BoundBlocks(idx), Fits(idx)
    PROVE  blocks' \in BlockTable /\ BlocksBound(idx)'
<1>1. ASSUME NEW v \in Block, v >= BlockOffset(idx, Experts)
      PROVE  /\ blocks'[v] \in [begin : Nat, count : Nat, valid : BOOLEAN]
             /\ blocks'[v].valid = FALSE
  <2>1. blocks'[v] = [blocks[v] EXCEPT !.valid = FALSE]
    BY <1>1 DEF BoundBlocks
  <2>2. blocks[v] \in [begin : Nat, count : Nat, valid : BOOLEAN]
    BY DEF BlockTable
  <2>3. QED
    BY <2>1, <2>2
<1>2. ASSUME NEW v \in Block, NEW e \in ExpertId,
             BlockOffset(idx, e) <= v, v < BlockOffset(idx, e + 1)
      PROVE  /\ v < BlockOffset(idx, Experts)
             /\ blocks'[v] \in [begin : Nat, count : Nat, valid : BOOLEAN]
             /\ blocks'[v] = [begin |-> ExpertOffset(idx, e) + FirstOf(idx, v, e),
                              count |-> Least(BlockRows, Cardinality(RowsOf(idx, e)) - FirstOf(idx, v, e)),
                              valid |-> TRUE]
  <2>1. v \in Nat
    BY DEF Block
  <2>2. /\ v < BlockOffset(idx, Experts) /\ FirstOf(idx, v, e) \in Nat
        /\ FirstOf(idx, v, e) < Cardinality(RowsOf(idx, e))
    BY <1>2, <2>1, BlockInUse
  <2>3. e = CHOOSE f \in ExpertId : BlockOffset(idx, f) <= v /\ v < BlockOffset(idx, f + 1)
    BY <1>2, <2>1, SameOwner
  <2>4. ~(v >= BlockOffset(idx, Experts))
    <3>1. BlockOffset(idx, Experts) \in Nat
      BY BlockOffsets, Dimensions
    <3>2. QED
      BY <2>1, <2>2, <3>1
  <2>5. blocks'[v] = [begin |-> ExpertOffset(idx, e) + FirstOf(idx, v, e),
                      count |-> Least(BlockRows, Cardinality(RowsOf(idx, e)) - FirstOf(idx, v, e)),
                      valid |-> TRUE]
    BY <2>3, <2>4 DEF BoundBlocks, FirstOf
  <2>6. e \in 0 .. Experts
    BY Dimensions DEF ExpertId
  <2>7. ExpertOffset(idx, e) \in Nat /\ Cardinality(RowsOf(idx, e)) \in Nat
    BY <2>6, ExpertRows, ExpertOffsets
  <2>8. Least(BlockRows, Cardinality(RowsOf(idx, e)) - FirstOf(idx, v, e)) \in Nat
    BY <2>2, <2>7, Dimensions DEF Least
  <2>9. QED
    BY <2>2, <2>5, <2>7, <2>8
<1>3. ASSUME NEW v \in Block
      PROVE  v >= BlockOffset(idx, Experts)
             \/ \E e \in ExpertId : BlockOffset(idx, e) <= v /\ v < BlockOffset(idx, e + 1)
  <2>1. v \in Nat /\ BlockOffset(idx, Experts) \in Nat
    BY BlockOffsets, Dimensions DEF Block
  <2>2. QED
    BY <2>1, BlockOwner
<1>4. blocks' \in BlockTable
  <2>1. \A v \in Block : blocks'[v] \in [begin : Nat, count : Nat, valid : BOOLEAN]
    BY <1>1, <1>2, <1>3
  <2>2. \E F : blocks' = [v \in Block |-> F[v]]
    <3>1. blocks' = [v \in Block |-> BoundBlocks(idx)[v]]
      BY DEF BoundBlocks
    <3>2. QED
      BY <3>1
  <2>3. QED
    BY <2>1, <2>2 DEF BlockTable
<1>5. BlocksBound(idx)'
  <2>1. ASSUME NEW v \in Block
        PROVE  blocks'[v].valid <=> v < BlockOffset(idx, Experts)
    <3>1. v \in Nat /\ BlockOffset(idx, Experts) \in Nat
      BY BlockOffsets, Dimensions DEF Block
    <3>2. CASE v >= BlockOffset(idx, Experts)
      <4>1. blocks'[v].valid = FALSE
        BY <1>1, <3>2
      <4>2. ~(v < BlockOffset(idx, Experts))
        BY <3>1, <3>2
      <4>3. QED
        BY <4>1, <4>2, Zenon
    <3>3. CASE ~(v >= BlockOffset(idx, Experts))
      <4>1. PICK e \in ExpertId : BlockOffset(idx, e) <= v /\ v < BlockOffset(idx, e + 1)
        BY <1>3, <3>3
      <4>2. blocks'[v].valid = TRUE /\ v < BlockOffset(idx, Experts)
        <5>1. blocks'[v] = [begin |-> ExpertOffset(idx, e) + FirstOf(idx, v, e),
                            count |-> Least(BlockRows, Cardinality(RowsOf(idx, e)) - FirstOf(idx, v, e)),
                            valid |-> TRUE]
          BY <1>2, <4>1
        <5>2. QED
          BY <1>2, <4>1, <5>1
      <4>3. QED
        BY <4>2, Zenon
    <3>4. QED
      BY <3>2, <3>3
  <2>2. ASSUME NEW v \in Block, NEW e \in ExpertId,
               BlockOffset(idx, e) <= v, v < BlockOffset(idx, e + 1)
        PROVE  /\ blocks'[v].begin = ExpertOffset(idx, e) + FirstOf(idx, v, e)
               /\ blocks'[v].count
                    = Least(BlockRows, Cardinality(RowsOf(idx, e)) - FirstOf(idx, v, e))
    <3>1. blocks'[v] = [begin |-> ExpertOffset(idx, e) + FirstOf(idx, v, e),
                        count |-> Least(BlockRows, Cardinality(RowsOf(idx, e)) - FirstOf(idx, v, e)),
                        valid |-> TRUE]
      BY <1>2, <2>2
    <3>2. QED
      BY <3>1
  <2>3. QED
    BY <2>1, <2>2 DEF BlocksBound
<1>6. QED
  BY <1>4, <1>5

Column == 0 .. (TilesN - 1)
SubTile == 0 .. (SubTiles - 1)

TaskAt(v, u, n) == [stage |-> Down, logical |-> (v * SubTiles + u) * TilesN + n]

LEMMA TaskAtAddress ==
    ASSUME NEW v \in Block, NEW u \in SubTile, NEW n \in Column
    PROVE  /\ TaskAt(v, u, n) \in TasksOf(Down)
           /\ TileColumn(TaskAt(v, u, n)) = n
           /\ TileRow(TaskAt(v, u, n)) \div SubTiles = v
           /\ TileRow(TaskAt(v, u, n)) % SubTiles = u
<1>1. PICK S \in Nat \ {0}, T \in Nat \ {0}, C \in Nat \ {0} :
        S = SubTiles /\ T = TilesN /\ C = Capacity
  BY Dimensions
<1>2. /\ v \in Nat /\ u \in Nat /\ n \in Nat /\ v < C /\ u < S /\ n < T
      /\ u \in 0 .. (S - 1) /\ n \in 0 .. (T - 1)
  BY <1>1 DEF Block, SubTile, Column
<1>3. PICK q \in Nat : q = v * S + u
  BY <1>1, <1>2, SMT
<1>4. PICK m \in Nat : m = q * T + n
  BY <1>1, <1>2, <1>3, SMT
<1>5. q \div S = v /\ q % S = u
  BY <1>1, <1>2, <1>3, DivisionUnique
<1>6. m \div T = q /\ m % T = n
  BY <1>1, <1>2, <1>3, <1>4, DivisionUnique
<1>7. m < C * S * T
  <2>1. v * S + S <= C * S
    <3>1. (v + 1) * S <= C * S
      BY <1>1, <1>2, SMT
    <3>2. (v + 1) * S = v * S + S
      BY <1>1, <1>2, SMT
    <3>3. QED
      BY <3>1, <3>2
  <2>2. PICK cs \in Nat : cs = C * S
    BY <1>1, SMT
  <2>3. q + 1 <= cs
    <3>1. v * S \in Nat
      BY <1>1, <1>2, SMT
    <3>2. QED
      BY <1>1, <1>2, <1>3, <2>1, <2>2, <3>1
  <2>4. (q + 1) * T <= cs * T
    BY <1>1, <1>3, <2>2, <2>3, SMT
  <2>5. (q + 1) * T = q * T + T
    BY <1>1, <1>3, SMT
  <2>6. q * T \in Nat /\ cs * T \in Nat
    BY <1>1, <1>3, <2>2, SMT
  <2>7. QED
    BY <1>1, <1>2, <1>4, <2>2, <2>4, <2>5, <2>6
<1>8. Count[Down] = C * S * T /\ Down \in Stage /\ Count[Down] \in Nat
  BY <1>1, RoutedAssumption, GraphAssumption
<1>9. TaskAt(v, u, n) = [stage |-> Down, logical |-> m]
  BY <1>1, <1>3, <1>4 DEF TaskAt
<1>10. TaskAt(v, u, n) \in TasksOf(Down)
  BY <1>7, <1>8, <1>9, ClaimedTask DEF TasksOf
<1>11. QED
  BY <1>1, <1>5, <1>6, <1>9, <1>10 DEF TileColumn, TileRow

LEMMA TaskAddress ==
    ASSUME NEW x \in TasksOf(Down)
    PROVE  /\ TileColumn(x) \in Column
           /\ TileRow(x) \div SubTiles \in Block
           /\ TileRow(x) % SubTiles \in SubTile
           /\ x = TaskAt(TileRow(x) \div SubTiles, TileRow(x) % SubTiles, TileColumn(x))
<1>1. PICK S \in Nat \ {0}, T \in Nat \ {0}, C \in Nat \ {0} :
        S = SubTiles /\ T = TilesN /\ C = Capacity
  BY Dimensions
<1>2. x \in Task /\ x.stage = Down
  BY DEF TasksOf
<1>3. /\ x = [stage |-> Down, logical |-> x.logical]
      /\ x.logical \in Nat /\ x.logical < Count[Down] /\ Count[Down] \in Nat
  BY <1>2, TaskFields
<1>4. PICK m \in Nat : m = x.logical
  BY <1>3
<1>5. PICK q \in Nat, n \in 0 .. (T - 1) : q = m \div T /\ n = m % T /\ m = q * T + n
  <2>1. /\ m \div T \in Nat /\ m % T \in 0 .. (T - 1)
        /\ m = (m \div T) * T + (m % T)
    BY Division
  <2>2. QED
    BY <2>1, Zenon
<1>6. PICK v \in Nat, u \in 0 .. (S - 1) : v = q \div S /\ u = q % S /\ q = v * S + u
  <2>1. /\ q \div S \in Nat /\ q % S \in 0 .. (S - 1)
        /\ q = (q \div S) * S + (q % S)
    BY Division
  <2>2. QED
    BY <2>1, Zenon
<1>7. v < C
  <2>1. SUFFICES ASSUME C <= v
                 PROVE  FALSE
    BY <1>1, <1>6
  <2>2. C * S <= v * S
    BY <1>1, <1>6, <2>1, SMT
  <2>3. PICK cs \in Nat : cs = C * S
    BY <1>1, SMT
  <2>4. v * S \in Nat
    BY <1>1, <1>6, SMT
  <2>5. cs <= q
    BY <1>6, <2>2, <2>3, <2>4
  <2>6. cs * T <= q * T /\ cs * T \in Nat /\ q * T \in Nat
    BY <1>1, <1>5, <2>3, <2>5, SMT
  <2>7. m < cs * T
    BY <1>1, <1>3, <1>4, <2>3, RoutedAssumption
  <2>8. QED
    BY <1>1, <1>5, <2>6, <2>7
<1>8. TileColumn(x) = n /\ TileRow(x) = q
  BY <1>1, <1>4, <1>5 DEF TileColumn, TileRow
<1>9. QED
  BY <1>1, <1>3, <1>4, <1>5, <1>6, <1>7, <1>8 DEF TaskAt, Column, Block, SubTile

\* The expert task that computes column tile n of row r.
Home(idx, r) == idx[ScatteredRows(idx)[r]]

Place(idx, r) == RankOf(idx, ScatteredRows(idx)[r])

BlockOf(idx, r) == BlockOffset(idx, Home(idx, r)) + Place(idx, r) \div BlockRows

SubTileOf(idx, r) == (Place(idx, r) % BlockRows) \div TileM

LEMMA RowPlace ==
    ASSUME NEW idx \in [Assignment -> ExpertId], NEW r \in Assignment
    PROVE  /\ Home(idx, r) \in ExpertId
           /\ Place(idx, r) \in 0 .. (Cardinality(RowsOf(idx, Home(idx, r))) - 1)
           /\ r = ExpertOffset(idx, Home(idx, r)) + Place(idx, r)
<1>1. ScatteredRows(idx)[r] \in Assignment /\ RowOf(idx, ScatteredRows(idx)[r]) = r
  BY ScatterInverse
<1>2. QED
  BY <1>1, RankBelow, RowIsRank DEF Home, Place

LEMMA RowBlock ==
    ASSUME NEW idx \in [Assignment -> ExpertId], Fits(idx), NEW r \in Assignment
    PROVE  /\ BlockOf(idx, r) \in Block
           /\ SubTileOf(idx, r) \in SubTile
           /\ BlockOffset(idx, Home(idx, r)) <= BlockOf(idx, r)
           /\ BlockOf(idx, r) < BlockOffset(idx, Home(idx, r) + 1)
<1>1. PICK e \in ExpertId, n \in Nat, k \in Nat :
        /\ e = Home(idx, r) /\ k = Place(idx, r) /\ n = Cardinality(RowsOf(idx, e))
        /\ k \in 0 .. (n - 1)
  BY RowPlace, ExpertRows
<1>2. k \in Nat /\ k \div BlockRows \in Nat /\ k % BlockRows \in 0 .. (BlockRows - 1)
  BY Dimensions, Division
<1>3. k \div BlockRows < BlocksOf(idx, e)
  BY <1>1, Dimensions, CeilAbove DEF BlocksOf
<1>4. /\ BlockOffset(idx, e) \in Nat /\ BlocksOf(idx, e) \in Nat
      /\ BlockOffset(idx, e + 1) = BlockOffset(idx, e) + BlocksOf(idx, e)
      /\ BlockOffset(idx, e + 1) <= BlockOffset(idx, Experts)
      /\ BlockOffset(idx, Experts) \in Nat
  <2>1. e \in 0 .. Experts /\ e + 1 \in 0 .. Experts /\ Experts \in 0 .. Experts /\ e + 1 <= Experts
    BY Dimensions DEF ExpertId
  <2>2. QED
    BY <2>1, BlockOffsets, ExpertRows
<1>5. BlockOf(idx, r) = BlockOffset(idx, e) + k \div BlockRows
  BY <1>1 DEF BlockOf
<1>6. BlockOf(idx, r) \in Nat /\ BlockOf(idx, r) < BlockOffset(idx, e + 1)
      /\ BlockOffset(idx, e) <= BlockOf(idx, r)
  BY <1>2, <1>3, <1>4, <1>5
<1>7. BlockOffset(idx, Experts) <= Capacity /\ Capacity \in Nat
  BY Dimensions DEF Fits
<1>8. SubTileOf(idx, r) \in SubTile
  <2>1. PICK i \in 0 .. (BlockRows - 1) : i = k % BlockRows
    BY <1>2
  <2>2. i \div TileM < CeilDiv(BlockRows, TileM) /\ CeilDiv(BlockRows, TileM) \in Nat
    BY CeilAbove, Dimensions
  <2>3. i \div TileM \in Nat
    <3>1. i \in Nat /\ TileM \in Nat \ {0}
      BY Dimensions
    <3>2. QED
      BY <3>1, Division
  <2>4. QED
    BY <1>1, <2>1, <2>2, <2>3, Dimensions DEF SubTileOf, SubTile, SubTiles
<1>9. QED
  BY <1>1, <1>4, <1>6, <1>7, <1>8 DEF Block

\* The rows of an expert task are exactly the rows whose block and subtile it
\* computes; so, per column tile, each row has one task.
LEMMA LiveRowIn ==
    ASSUME NEW idx \in [Assignment -> ExpertId], Fits(idx),
           BlocksBound(idx), blocks \in BlockTable,
           NEW x \in TasksOf(Down), NEW r \in LiveRows(x)
    PROVE  /\ r \in Assignment
           /\ BlockOf(idx, r) = TileRow(x) \div SubTiles
           /\ SubTileOf(idx, r) = TileRow(x) % SubTiles
<1>1. PICK v \in Block, u \in SubTile : v = TileRow(x) \div SubTiles /\ u = TileRow(x) % SubTiles
  BY TaskAddress
<1>2. PICK low \in Nat : low = u * TileM
  BY Dimensions, SMT DEF SubTile
<1>3. blocks[v].valid
  BY <1>1 DEF LiveRows
<1>4. PICK i \in low .. (low + TileM - 1) : i < blocks[v].count /\ r = blocks[v].begin + i
  <2>1. LiveRows(x) = {blocks[v].begin + s :
                         s \in {i \in low .. (low + TileM - 1) : i < blocks[v].count}}
    BY <1>1, <1>2, <1>3 DEF LiveRows
  <2>2. QED
    BY <2>1
<1>5. v \in Nat /\ v < BlockOffset(idx, Experts)
  BY <1>3 DEF BlocksBound, Block
<1>6. PICK e \in ExpertId : BlockOffset(idx, e) <= v /\ v < BlockOffset(idx, e + 1)
  BY <1>5, BlockOwner
<1>7. /\ FirstOf(idx, v, e) \in Nat
      /\ FirstOf(idx, v, e) < Cardinality(RowsOf(idx, e))
      /\ v - BlockOffset(idx, e) \in Nat
  BY <1>5, <1>6, BlockInUse
<1>8. PICK first \in Nat, n \in Nat, j \in Nat :
        /\ first = FirstOf(idx, v, e) /\ n = Cardinality(RowsOf(idx, e))
        /\ j = v - BlockOffset(idx, e) /\ first = j * BlockRows
  BY <1>7, ExpertRows DEF FirstOf
<1>9. /\ blocks[v].begin = ExpertOffset(idx, e) + first
      /\ blocks[v].count = Least(BlockRows, n - first)
  BY <1>6, <1>8 DEF BlocksBound
<1>10. i \in Nat /\ i < BlockRows /\ first + i < n
  BY <1>4, <1>8, <1>9, Dimensions DEF Least
<1>11. PICK k \in 0 .. (n - 1) : k = first + i
  BY <1>10
<1>12. e \in 0 .. Experts /\ e + 1 \in 0 .. Experts
  BY Dimensions DEF ExpertId
<1>13. /\ ExpertOffset(idx, e) \in Nat /\ ExpertOffset(idx, e + 1) <= Tokens * TopK
       /\ ExpertOffset(idx, e + 1) = ExpertOffset(idx, e) + n
  BY <1>8, <1>12, ExpertOffsets
<1>14. r = ExpertOffset(idx, e) + k /\ r \in Nat
  BY <1>4, <1>9, <1>11, <1>13
<1>15. r \in Assignment
  BY <1>13, <1>14, AssignmentFinite DEF Assignment
<1>16. e = Home(idx, r) /\ k = Place(idx, r)
  <2>1. k \in 0 .. (Cardinality(RowsOf(idx, e)) - 1)
    BY <1>8
  <2>2. QED
    BY <1>14, <1>15, <2>1, RowPlace, SameExpert
<1>17. k \div BlockRows = j /\ k % BlockRows = i
  <2>1. i \in 0 .. (BlockRows - 1) /\ BlockRows \in Nat \ {0}
    BY <1>10, Dimensions
  <2>2. (j * BlockRows + i) \div BlockRows = j /\ (j * BlockRows + i) % BlockRows = i
    BY <2>1, DivisionUnique
  <2>3. QED
    BY <1>8, <1>11, <2>2
<1>18. BlockOf(idx, r) = v
  <2>1. BlockOffset(idx, e) \in Nat
    BY <1>12, BlockOffsets
  <2>2. QED
    BY <1>5, <1>8, <1>16, <1>17, <2>1 DEF BlockOf
<1>19. SubTileOf(idx, r) = u
  <2>1. u \in Int /\ TileM \in Nat \ {0} /\ i < low + TileM /\ low <= i
    BY <1>4, <1>10, Dimensions DEF SubTile
  <2>2. i \div TileM = u
    BY <1>2, <1>10, <2>1, DivisionBlock
  <2>3. QED
    BY <1>16, <1>17, <2>2 DEF SubTileOf
<1>20. QED
  BY <1>1, <1>15, <1>18, <1>19

LEMMA RowIsLive ==
    ASSUME NEW idx \in [Assignment -> ExpertId], Fits(idx),
           BlocksBound(idx), blocks \in BlockTable,
           NEW x \in TasksOf(Down), NEW r \in Assignment,
           BlockOf(idx, r) = TileRow(x) \div SubTiles,
           SubTileOf(idx, r) = TileRow(x) % SubTiles
    PROVE  r \in LiveRows(x)
<1>1. PICK v \in Block, u \in SubTile : v = TileRow(x) \div SubTiles /\ u = TileRow(x) % SubTiles
  BY TaskAddress
<1>2. PICK low \in Nat : low = u * TileM
  BY Dimensions, SMT DEF SubTile
<1>3. PICK e \in ExpertId, n \in Nat, k \in Nat :
        /\ e = Home(idx, r) /\ k = Place(idx, r) /\ n = Cardinality(RowsOf(idx, e))
        /\ k < n
  BY RowPlace, ExpertRows
<1>4. BlockOffset(idx, e) <= v /\ v < BlockOffset(idx, e + 1) /\ v \in Nat
  BY <1>1, <1>3, RowBlock DEF Block
<1>5. v < BlockOffset(idx, Experts)
  BY <1>4, BlockInUse
<1>6. blocks[v].valid
  BY <1>5 DEF BlocksBound
<1>7. PICK j \in Nat, i \in Nat :
        j = k \div BlockRows /\ i = k % BlockRows /\ k = j * BlockRows + i /\ i < BlockRows
  <2>1. /\ k \div BlockRows \in Nat /\ k % BlockRows \in 0 .. (BlockRows - 1)
        /\ k = (k \div BlockRows) * BlockRows + (k % BlockRows)
    BY Dimensions, Division
  <2>2. k % BlockRows \in Nat /\ k % BlockRows < BlockRows
    BY <2>1, Dimensions
  <2>3. QED
    BY <2>1, <2>2, Zenon
<1>8. e \in 0 .. Experts
  BY Dimensions DEF ExpertId
<1>9. BlockOffset(idx, e) \in Nat /\ ExpertOffset(idx, e) \in Nat
  BY <1>8, BlockOffsets, ExpertOffsets
<1>10. v - BlockOffset(idx, e) = j
  BY <1>1, <1>3, <1>4, <1>7, <1>9 DEF BlockOf
<1>11. PICK first \in Nat : first = j * BlockRows /\ first = FirstOf(idx, v, e)
  BY <1>10, Dimensions, SMT DEF FirstOf
<1>12. /\ blocks[v].begin = ExpertOffset(idx, e) + first
       /\ blocks[v].count = Least(BlockRows, n - first)
  BY <1>3, <1>4, <1>11 DEF BlocksBound
<1>13. i < blocks[v].count /\ r = blocks[v].begin + i
  <2>1. r = ExpertOffset(idx, e) + k
    BY <1>3, RowPlace
  <2>2. k = first + i
    BY <1>7, <1>11
  <2>3. BlockRows \in Nat
    BY Dimensions
  <2>4. i < Least(BlockRows, n - first)
    <3>1. i < BlockRows
      BY <1>7, Zenon
    <3>2. k < n
      BY <1>3, Zenon
    <3>3. QED
      BY <2>2, <2>3, <3>1, <3>2 DEF Least
  <2>5. r = ExpertOffset(idx, e) + first + i
    BY <1>9, <1>11, <1>7, <2>1, <2>2
  <2>6. QED
    BY <1>12, <2>4, <2>5
<1>14. i \in low .. (low + TileM - 1)
  <2>1. i \div TileM = u /\ u \in Int
    BY <1>1, <1>3, <1>7 DEF SubTileOf, SubTile
  <2>2. u * TileM <= i /\ i < u * TileM + TileM
    BY <2>1, Dimensions, DivisionBlock
  <2>3. QED
    BY <1>2, <2>2, Dimensions
<1>15. LiveRows(x) = {blocks[v].begin + s :
                         s \in {m \in low .. (low + TileM - 1) : m < blocks[v].count}}
  BY <1>1, <1>2, <1>6 DEF LiveRows
<1>16. QED
  BY <1>13, <1>14, <1>15

-----------------------------------------------------------------------------
(***************************************************************************)
(* What a combine task reads, and how much of it there is.                 *)
(***************************************************************************)
LEMMA QuotientBelow ==
    ASSUME NEW a \in Nat, NEW k \in Nat \ {0}, NEW s \in Nat
    PROVE  a \div k < s <=> a < s * k
<1>1. PICK q \in Nat, r \in Nat : q = a \div k /\ a = q * k + r /\ r < k
  <2>1. /\ a \div k \in Nat /\ a % k \in 0 .. (k - 1)
        /\ a = (a \div k) * k + (a % k)
    BY Division
  <2>2. a % k \in Nat /\ a % k < k
    BY <2>1
  <2>3. QED
    BY <2>1, <2>2, Zenon
<1>2. PICK p \in Nat, m \in Nat : p = q * k /\ m = s * k
  BY <1>1, SMT
<1>3. ASSUME q < s
      PROVE  p + k <= m
  <2>1. (q + 1) * k <= s * k
    BY <1>1, <1>3, SMT
  <2>2. (q + 1) * k = q * k + k
    BY <1>1, SMT
  <2>3. QED
    BY <1>2, <2>1, <2>2
<1>4. ASSUME s <= q
      PROVE  m <= p
  BY <1>1, <1>2, <1>4, SMT
<1>5. a = p + r
  BY <1>1, <1>2
<1>6. q < s <=> a < m
  <2>1. q \in Nat /\ s \in Nat /\ p \in Nat /\ m \in Nat /\ r \in Nat /\ k \in Nat /\ r < k
    BY <1>1, <1>2, Zenon
  <2>2. CASE q < s
    BY <1>3, <1>5, <2>1, <2>2
  <2>3. CASE s <= q
    BY <1>4, <1>5, <2>1, <2>3
  <2>4. QED
    BY <2>1, <2>2, <2>3
<1>7. QED
  BY <1>1, <1>2, <1>6, Zenon

ReadBy(t) == {a \in Assignment : TokenOf(a) \div TokenGroup = t \div TilesN}

LEMMA TargetSplit ==
    ASSUME NEW t \in Target
    PROVE  /\ t \in Nat /\ t \div TilesN \in Nat /\ t % TilesN \in Column
           /\ t = (t \div TilesN) * TilesN + (t % TilesN)
           /\ (t \div TilesN) * TokenGroup < Tokens
           /\ (t \div TilesN) * TokenGroup \in Nat
<1>1. PICK c \in Nat : c = CeilDiv(Tokens, TokenGroup) /\ Count[Combine] = c * TilesN
  BY Dimensions, CeilAbove, RoutedAssumption
<1>2. t \in Nat /\ t < c * TilesN
  <2>1. Count[Combine] \in Nat
    BY RoutedAssumption, GraphAssumption
  <2>2. QED
    BY <1>1, <2>1 DEF Target
<1>3. /\ t \div TilesN \in Nat /\ t % TilesN \in Column
      /\ t = (t \div TilesN) * TilesN + (t % TilesN)
  BY <1>2, Dimensions, Division DEF Column
<1>4. t \div TilesN < c
  BY <1>1, <1>2, Dimensions, QuotientBelow
<1>5. (t \div TilesN) * TokenGroup < Tokens
  BY <1>1, <1>3, <1>4, Dimensions, CeilAbove
<1>6. (t \div TilesN) * TokenGroup \in Nat
  BY <1>3, Dimensions, SMT
<1>7. QED
  BY <1>2, <1>3, <1>5, <1>6

\* An assignment counts toward one combine task per column tile.
LEMMA TargetOfColumn ==
    ASSUME NEW t \in Target, NEW a \in Assignment, NEW n \in Column
    PROVE  TargetOf(a, n) = t <=> a \in ReadBy(t) /\ n = t % TilesN
<1>1. PICK g \in Nat : g = TokenOf(a) \div TokenGroup
  <2>1. a \in Nat
    BY DEF Assignment
  <2>2. TokenOf(a) \in Nat
    BY <2>1, Dimensions, Division DEF TokenOf
  <2>3. QED
    BY <2>2, Dimensions, Division
<1>2. TargetOf(a, n) = g * TilesN + n
  BY <1>1 DEF TargetOf
<1>3. (g * TilesN + n) \div TilesN = g /\ (g * TilesN + n) % TilesN = n
  BY Dimensions, DivisionUnique DEF Column
<1>4. ASSUME TargetOf(a, n) = t
      PROVE  a \in ReadBy(t) /\ n = t % TilesN
  <2>1. t \div TilesN = g /\ t % TilesN = n
    BY <1>2, <1>3, <1>4
  <2>2. QED
    BY <1>1, <2>1 DEF ReadBy
<1>5. ASSUME a \in ReadBy(t), n = t % TilesN
      PROVE  TargetOf(a, n) = t
  <2>1. g = t \div TilesN
    BY <1>1, <1>5 DEF ReadBy
  <2>2. t = g * TilesN + n
    BY <1>5, <2>1, TargetSplit
  <2>3. QED
    BY <1>2, <2>2
<1>6. QED
  BY <1>4, <1>5

\* The threshold, fixed before routing, is the number of those assignments.
LEMMA ThresholdCounts ==
    ASSUME NEW t \in Target
    PROVE  /\ IsFiniteSet(ReadBy(t))
           /\ Cardinality(ReadBy(t)) = Threshold(t)
           /\ Threshold(t) \in Nat \ {0}
<1>1. PICK g \in Nat, low \in Nat :
        g = t \div TilesN /\ low = g * TokenGroup /\ low < Tokens
  BY TargetSplit
<1>2. PICK size \in Nat \ {0} : /\ size = Least(TokenGroup, Tokens - low)
                                /\ low + size = Least(low + TokenGroup, Tokens)
  BY <1>1, Dimensions DEF Least
<1>3. Threshold(t) = TopK * size
  BY <1>1, <1>2 DEF Threshold
<1>4. PICK from \in Nat, to \in Nat : from = low * TopK /\ to = (low + size) * TopK
  BY <1>1, <1>2, Dimensions, SMT
<1>5. to = from + TopK * size /\ TopK * size \in Nat \ {0}
  BY <1>1, <1>2, <1>4, Dimensions, SMT
<1>6. to <= Tokens * TopK
  <2>1. low + size <= Tokens
    BY <1>1, <1>2, Dimensions DEF Least
  <2>2. QED
    BY <1>1, <1>2, <1>4, <2>1, Dimensions, SMT
<1>7. ASSUME NEW a \in Assignment
      PROVE  a \in ReadBy(t) <=> from <= a /\ a < to
  <2>1. a \in Nat /\ a < Tokens * TopK /\ Tokens * TopK \in Nat
    BY AssignmentFinite DEF Assignment
  <2>2. PICK u \in Nat : u = TokenOf(a)
    BY <2>1, Dimensions, Division DEF TokenOf
  <2>3. a \in ReadBy(t) <=> low <= u /\ u < low + TokenGroup
    BY <1>1, <2>2, Dimensions, DivisionBlock DEF ReadBy
  <2>4. u < Tokens
    BY <2>1, <2>2, Dimensions, QuotientBelow DEF TokenOf
  <2>5. u < low <=> a < from
    BY <1>1, <1>4, <2>1, <2>2, Dimensions, QuotientBelow DEF TokenOf
  <2>6. u < low + size <=> a < to
    <3>1. PICK end \in Nat : end = low + size
      BY <1>1, <1>2
    <3>2. u < end <=> a < end * TopK
      BY <2>1, <2>2, Dimensions, QuotientBelow DEF TokenOf
    <3>3. QED
      BY <1>4, <3>1, <3>2
  <2>7. u < low + TokenGroup <=> u < low + size
    BY <1>1, <1>2, <2>2, <2>4, Dimensions DEF Least
  <2>8. QED
    BY <1>1, <1>4, <2>1, <2>2, <2>3, <2>5, <2>6, <2>7
<1>8. ReadBy(t) = from .. (to - 1)
  <2>1. \A a \in from .. (to - 1) : a \in Assignment
    <3>1. PICK n \in Nat : n = Tokens * TopK
      BY AssignmentFinite
    <3>2. Assignment = 0 .. (n - 1) /\ to <= n
      BY <1>6, <3>1 DEF Assignment
    <3>3. from \in Nat /\ to \in Nat
      BY <1>4
    <3>4. \A a \in from .. (to - 1) : a \in 0 .. (n - 1)
      BY <3>1, <3>2, <3>3
    <3>5. QED
      BY <3>2, <3>4, Zenon
  <2>2. \A a \in Assignment : a \in from .. (to - 1) <=> from <= a /\ a < to
    BY <1>4 DEF Assignment
  <2>3. ReadBy(t) \subseteq Assignment
    BY DEF ReadBy
  <2>4. \A a \in Assignment : a \in ReadBy(t) <=> a \in from .. (to - 1)
    BY <1>7, <2>2, Zenon
  <2>5. QED
    BY <2>1, <2>3, <2>4, Zenon
<1>9. /\ IsFiniteSet(from .. (to - 1))
      /\ Cardinality(from .. (to - 1)) = (to - 1) - from + 1
  <2>1. from \in Int /\ (to - 1) \in Int /\ from <= (to - 1) + 1
    BY <1>4, <1>5
  <2>2. QED
    BY <2>1, IntervalCardinality, Zenon
<1>10. PICK k \in Nat \ {0} : k = Threshold(t) /\ to = from + k
  BY <1>3, <1>5
<1>11. (to - 1) - from + 1 = k
  BY <1>4, <1>10
<1>12. Cardinality(ReadBy(t)) = k /\ IsFiniteSet(ReadBy(t))
  BY <1>8, <1>9, <1>11, Zenon
<1>13. QED
  BY <1>10, <1>12

-----------------------------------------------------------------------------
(***************************************************************************)
(* The invariant of the routed layer.                                      *)
(***************************************************************************)
RoutedTypeOK ==
    /\ blocks \in BlockTable
    /\ rows \in [Assignment -> Assignment]
    /\ partials \in [Assignment -> [Column -> Int]]
    /\ counted \in [Target -> Nat]
    /\ sent \in [Worker -> SUBSET Target]

\* The tables are those of one routing.
Tables ==
    \E idx \in Routings : Fits(idx) /\ rows = ScatteredRows(idx) /\ BlocksBound(idx)

DispatchTask == [stage |-> Dispatch, logical |-> 0]

\* What has been run has had all its producers run.
Ancestry ==
    /\ \A x \in finished : Predecessors(x) \subseteq finished
    /\ \A w \in Worker : pc[w] = "run" => Predecessors(cur[w]) \subseteq finished

TablesInv == DispatchTask \in finished => Tables

\* A finished expert task has written its rows in this iteration.
Written ==
    status = "launched" =>
        \A x \in finished : x.stage = Down =>
            \A r \in LiveRows(x) : partials[rows[r]][TileColumn(x)] = iteration

SentInv == \A w \in Worker : pc[w] # "notify" => sent[w] = {}

\* Task x has made its addition to counter t.
Given(x, t) == x \in notified \/ \E w \in Worker : cur[w] = x /\ t \in sent[w]

\* The rows counter t has received in this launch.
Delivered(t) ==
    {r \in Assignment : \E x \in TasksOf(Down) :
        r \in LiveRows(x) /\ TargetOf(rows[r], TileColumn(x)) = t /\ Given(x, t)}

Balance(t) == counted[t] = iteration * Threshold(t) + Cardinality(Delivered(t))

Reached(t) == counted[t] >= (iteration + 1) * Threshold(t)

CountInv ==
    /\ status = "launched" => \A t \in Target : Balance(t)
    /\ status = "idle" => \A t \in Target : counted[t] = iteration * Threshold(t)
    /\ \A w \in Worker : pc[w] = "run" /\ cur[w].stage = Combine => Reached(cur[w].logical)

RInv == RoutedTypeOK /\ Ancestry /\ TablesInv /\ Written /\ SentInv /\ CountInv

-----------------------------------------------------------------------------
(***************************************************************************)
(* What the tables and the counters say together.                          *)
(***************************************************************************)
LEMMA DispatchIsTask ==
    /\ DispatchTask \in Task
    /\ \A x \in Task : x.stage = Dispatch <=> x = DispatchTask
    /\ Dispatch # Down /\ Combine # Down
<1>1. Count[Dispatch] = 1 /\ Dispatch \in Stage
  BY RoutedAssumption
<1>2. DispatchTask \in Task
  BY <1>1, ClaimedTask DEF DispatchTask
<1>3. ASSUME NEW x \in Task, x.stage = Dispatch
      PROVE  x = DispatchTask
  <2>1. x.logical \in 0 .. (Count[Dispatch] - 1) /\ x = [stage |-> x.stage, logical |-> x.logical]
    BY <1>3, TaskFields
  <2>2. x.logical = 0
    BY <1>1, <2>1
  <2>3. QED
    BY <1>3, <2>1, <2>2 DEF DispatchTask
<1>4. Dispatch # Down /\ Combine # Down
  <2>1. Cardinality({Dispatch, Down, Combine}) = 3
    BY RoutedAssumption
  <2>2. \A p, q : Cardinality({p, q}) \in Nat /\ Cardinality({p, q}) <= 2
    <3>1. TAKE p, q
    <3>2. IsFiniteSet({p}) /\ Cardinality({p}) = 1
      BY FS_Singleton
    <3>3. /\ IsFiniteSet({p} \cup {q})
          /\ Cardinality({p} \cup {q}) = IF q \in {p} THEN Cardinality({p}) ELSE Cardinality({p}) + 1
      BY <3>2, FS_AddElement
    <3>4. {p} \cup {q} = {p, q}
      OBVIOUS
    <3>5. QED
      BY <3>2, <3>3, <3>4
  <2>3. ASSUME Dispatch = Down
        PROVE  FALSE
    <3>1. {Dispatch, Down, Combine} = {Down, Combine}
      BY <2>3
    <3>2. Cardinality({Down, Combine}) = 3 /\ Cardinality({Down, Combine}) <= 2
      BY <2>1, <2>2, <3>1, Zenon
    <3>3. QED
      BY <3>2
  <2>4. ASSUME Combine = Down
        PROVE  FALSE
    <3>1. {Dispatch, Down, Combine} = {Dispatch, Down}
      BY <2>4
    <3>2. Cardinality({Dispatch, Down}) = 3 /\ Cardinality({Dispatch, Down}) <= 2
      BY <2>1, <2>2, <3>1, Zenon
    <3>3. QED
      BY <3>2
  <2>5. QED
    BY <2>3, <2>4
<1>5. QED
  BY <1>2, <1>3, <1>4 DEF DispatchTask

\* No expert task before the dispatch.
LEMMA DispatchFirst ==
    ASSUME NEW S \in SUBSET Task, \A x \in S : Predecessors(x) \subseteq S,
           NEW x \in S, x.stage = Down
    PROVE  DispatchTask \in S
<1>1. x \in TasksOf(Down) \cap S
  BY DEF TasksOf
<1>2. DispatchTask \in TasksOf(Dispatch)
  BY DispatchIsTask DEF TasksOf, DispatchTask
<1>3. QED
  BY <1>1, <1>2, RoutedAssumption

LEMMA GivenFinished ==
    ASSUME IInv, RInv, NEW x, NEW t, Given(x, t)
    PROVE  x \in finished
<1>1. CASE x \in notified
  BY <1>1 DEF IInv, TypeOK
<1>2. CASE x \notin notified
  <2>1. PICK w \in Worker : cur[w] = x /\ t \in sent[w]
    BY <1>2 DEF Given
  <2>2. pc[w] = "notify"
    BY <2>1 DEF RInv, SentInv
  <2>3. cur[w] \in handed
    BY <2>2 DEF IInv, Holding, Busy
  <2>4. \A v \in Worker : pc[v] \in {"wait", "run"} => cur[v] # cur[w]
    BY <2>2 DEF IInv, Holding, Busy
  <2>5. QED
    BY <2>1, <2>3, <2>4 DEF IInv, Holding
<1>3. QED
  BY <1>1, <1>2

LEMMA NoneGiven ==
    ASSUME IInv, RInv, DispatchTask \notin finished, NEW x \in TasksOf(Down), NEW t
    PROVE  ~Given(x, t)
<1>1. ASSUME Given(x, t)
      PROVE  FALSE
  <2>1. x \in finished /\ x.stage = Down
    BY <1>1, GivenFinished DEF TasksOf
  <2>2. finished \in SUBSET Task
    BY DEF IInv, TypeOK
  <2>3. DispatchTask \in finished
    BY <2>1, <2>2, DispatchFirst DEF RInv, Ancestry
  <2>4. QED
    BY <2>3
<1>2. QED
  BY <1>1

LEMMA NothingDelivered ==
    ASSUME IInv, RInv, DispatchTask \notin finished, NEW t
    PROVE  Delivered(t) = {}
BY NoneGiven DEF Delivered

\* All rows that count toward t.
Expected(t) == {r \in Assignment : rows[r] \in ReadBy(t)}

LEMMA ExpectedCount ==
    ASSUME NEW idx \in [Assignment -> ExpertId], rows = ScatteredRows(idx), NEW t \in Target
    PROVE  IsFiniteSet(Expected(t)) /\ Cardinality(Expected(t)) = Threshold(t)
<1> DEFINE f == [a \in ReadBy(t) |-> RowOf(idx, a)]
<1>1. ReadBy(t) \in SUBSET Assignment
  BY DEF ReadBy
<1>2. \A a \in ReadBy(t) : RowOf(idx, a) \in Expected(t)
  BY <1>1, ScatterInverse, RowIsRank DEF Expected
<1>3. f \in [ReadBy(t) -> Expected(t)]
  BY <1>2
<1>4. \A a, b \in ReadBy(t) : f[a] = f[b] => a = b
  BY <1>1, RowsAreDistinct
<1>5. \A r \in Expected(t) : \E a \in ReadBy(t) : f[a] = r
  <2>1. TAKE r \in Expected(t)
  <2>2. r \in Assignment /\ rows[r] \in ReadBy(t)
    BY DEF Expected
  <2>3. RowOf(idx, rows[r]) = r
    BY <2>2, ScatterInverse
  <2>4. QED
    BY <2>2, <2>3
<1>6. f \in Bijection(ReadBy(t), Expected(t))
  BY <1>3, <1>4, <1>5 DEF Bijection, Injection, Surjection, IsInjective
<1>7. ExistsBijection(ReadBy(t), Expected(t))
  BY <1>6 DEF ExistsBijection
<1>8. QED
  BY <1>7, ThresholdCounts, FS_Bijection

LEMMA RoutingIsMap == \A idx \in Routings : idx \in [Assignment -> ExpertId]
BY RoutedAssumption

\* The rows of a task are rows of the table, and each row of the table has, in
\* each column, exactly one task.
LEMMA TableCover ==
    ASSUME Tables, RoutedTypeOK
    PROVE  /\ \A x \in TasksOf(Down) : LiveRows(x) \in SUBSET Assignment
           /\ \A r \in Assignment, n \in Column : \E x \in TasksOf(Down) :
                 r \in LiveRows(x) /\ TileColumn(x) = n
           /\ \A r \in Assignment : \A x, y \in TasksOf(Down) :
                 r \in LiveRows(x) /\ r \in LiveRows(y) /\ TileColumn(x) = TileColumn(y) => x = y
<1>1. PICK idx \in [Assignment -> ExpertId] : Fits(idx) /\ BlocksBound(idx)
  BY RoutingIsMap DEF Tables
<1>2. blocks \in BlockTable
  BY DEF RoutedTypeOK
<1>3. ASSUME NEW x \in TasksOf(Down), NEW r \in LiveRows(x)
      PROVE  /\ r \in Assignment
             /\ x = TaskAt(BlockOf(idx, r), SubTileOf(idx, r), TileColumn(x))
  <2>1. /\ r \in Assignment
        /\ BlockOf(idx, r) = TileRow(x) \div SubTiles
        /\ SubTileOf(idx, r) = TileRow(x) % SubTiles
    BY <1>1, <1>2, LiveRowIn
  <2>2. QED
    BY <2>1, TaskAddress
<1>4. ASSUME NEW r \in Assignment, NEW n \in Column
      PROVE  \E x \in TasksOf(Down) : r \in LiveRows(x) /\ TileColumn(x) = n
  <2>1. PICK v \in Block, u \in SubTile : v = BlockOf(idx, r) /\ u = SubTileOf(idx, r)
    BY <1>1, RowBlock
  <2>2. PICK x \in TasksOf(Down) : /\ TileColumn(x) = n
                                   /\ TileRow(x) \div SubTiles = v /\ TileRow(x) % SubTiles = u
    BY TaskAtAddress
  <2>3. r \in LiveRows(x)
    BY <1>1, <1>2, <2>1, <2>2, RowIsLive
  <2>4. QED
    BY <2>2, <2>3
<1>5. ASSUME NEW r \in Assignment, NEW x \in TasksOf(Down), NEW y \in TasksOf(Down),
             r \in LiveRows(x), r \in LiveRows(y), TileColumn(x) = TileColumn(y)
      PROVE  x = y
  <2>1. x = TaskAt(BlockOf(idx, r), SubTileOf(idx, r), TileColumn(x))
    BY <1>3, <1>5
  <2>2. y = TaskAt(BlockOf(idx, r), SubTileOf(idx, r), TileColumn(y))
    BY <1>3, <1>5
  <2>3. QED
    BY <1>5, <2>1, <2>2
<1>6. QED
  BY <1>3, <1>4, <1>5

LEMMA DeliveredWithin ==
    ASSUME Tables, RoutedTypeOK, NEW t \in Target
    PROVE  /\ Delivered(t) \subseteq Expected(t)
           /\ IsFiniteSet(Delivered(t)) /\ IsFiniteSet(Expected(t))
           /\ Cardinality(Delivered(t)) \in Nat
           /\ Cardinality(Expected(t)) = Threshold(t)
<1>1. PICK idx \in [Assignment -> ExpertId] : rows = ScatteredRows(idx)
  BY RoutingIsMap DEF Tables
<1>2. IsFiniteSet(Expected(t)) /\ Cardinality(Expected(t)) = Threshold(t)
  BY <1>1, ExpectedCount
<1>3. ASSUME NEW r \in Delivered(t)
      PROVE  r \in Expected(t)
  <2>1. PICK x \in TasksOf(Down) : TargetOf(rows[r], TileColumn(x)) = t /\ r \in Assignment
    BY DEF Delivered
  <2>2. rows[r] \in Assignment /\ TileColumn(x) \in Column
    BY <2>1, TaskAddress DEF RoutedTypeOK
  <2>3. rows[r] \in ReadBy(t)
    BY <2>1, <2>2, TargetOfColumn
  <2>4. QED
    BY <2>1, <2>3 DEF Expected
<1>4. Delivered(t) \in SUBSET Expected(t)
  BY <1>3
<1>5. IsFiniteSet(Delivered(t)) /\ Cardinality(Delivered(t)) \in Nat
  BY <1>2, <1>4, FS_Subset, FS_CardinalityType
<1>6. QED
  BY <1>2, <1>4, <1>5

\* The task that delivers an expected row.
LEMMA ExpectedTask ==
    ASSUME Tables, RoutedTypeOK, NEW t \in Target, NEW r \in Expected(t)
    PROVE  \E x \in TasksOf(Down) :
              r \in LiveRows(x) /\ TileColumn(x) = t % TilesN
              /\ TargetOf(rows[r], TileColumn(x)) = t
<1>1. r \in Assignment /\ rows[r] \in ReadBy(t) /\ rows[r] \in Assignment
  BY DEF Expected, ReadBy
<1>2. t % TilesN \in Column
  BY TargetSplit
<1>3. PICK x \in TasksOf(Down) : r \in LiveRows(x) /\ TileColumn(x) = t % TilesN
  BY <1>1, <1>2, TableCover
<1>4. TargetOf(rows[r], TileColumn(x)) = t
  BY <1>1, <1>2, <1>3, TargetOfColumn
<1>5. QED
  BY <1>3, <1>4

-----------------------------------------------------------------------------
(***************************************************************************)
(* The invariant holds initially, and through steps that add to no counter.*)
(***************************************************************************)
LEMMA RoutedInit_RInv == ASSUME RoutedInit PROVE RInv
<1> USE DEF RoutedInit, Init
<1>1. RoutedTypeOK
  <2>1. 0 \in Assignment
    BY AssignmentFinite DEF Assignment
  <2>2. QED
    BY <2>1 DEF RoutedTypeOK, BlockTable, Column
<1>2. Ancestry /\ TablesInv /\ Written /\ SentInv
  BY DEF Ancestry, TablesInv, Written, SentInv
<1>3. CountInv
  <2>1. \A t \in Target : counted[t] = iteration * Threshold(t)
    <3>1. TAKE t \in Target
    <3>2. Threshold(t) \in Nat
      BY ThresholdCounts
    <3>3. QED
      BY <3>2
  <2>2. QED
    BY <2>1 DEF CountInv
<1>4. QED
  BY <1>1, <1>2, <1>3 DEF RInv

LEMMA DeliveredSame ==
    ASSUME rows' = rows, blocks' = blocks, NEW t,
           \A x \in TasksOf(Down) : Given(x, t)' <=> Given(x, t)
    PROVE  Delivered(t)' = Delivered(t)
<1>1. \A x : LiveRows(x)' = LiveRows(x)
  BY DEF LiveRows
<1>2. QED
  BY <1>1 DEF Delivered

LEMMA GivenSame ==
    ASSUME SentInv, NEW w \in Worker, pc[w] # "notify", sent' = sent, notified' = notified,
           \A v \in Worker : v # w => cur'[v] = cur[v],
           NEW x, NEW t
    PROVE  Given(x, t)' <=> Given(x, t)
<1>1. sent[w] = {}
  BY DEF SentInv
<1>2. \A v \in Worker : t \in sent[v] => v # w
  BY <1>1
<1>3. QED
  BY <1>2 DEF Given

\* Counting moves only with the rows delivered.
LEMMA CountSame ==
    ASSUME CountInv, UNCHANGED <<counted, status, iteration>>,
           \A t \in Target : Delivered(t)' = Delivered(t),
           \A w \in Worker : pc'[w] = "run" /\ cur'[w].stage = Combine =>
               Reached(cur'[w].logical)
    PROVE  CountInv'
<1>1. \A t \in Target : Balance(t)' <=> Balance(t)
  BY DEF Balance
<1>2. \A t : Reached(t)' <=> Reached(t)
  BY DEF Reached
<1>3. QED
  BY <1>1, <1>2 DEF CountInv

\* Steps of the claims and the waits.
LEMMA Quiet ==
    ASSUME IInv, RInv, NEW w \in Worker, pc[w] # "notify",
           \A v \in Worker : v # w => pc'[v] = pc[v] /\ cur'[v] = cur[v],
           UNCHANGED <<status, iteration, finished, notified>>, UNCHANGED routedVars,
           pc'[w] = "run" => /\ Predecessors(cur'[w]) \subseteq finished
                             /\ cur'[w].stage = Combine => Reached(cur'[w].logical)
    PROVE  RInv'
<1> USE DEF RInv, routedVars
<1>1. RoutedTypeOK'
  BY DEF RoutedTypeOK
<1>2. Ancestry'
  BY DEF Ancestry
<1>3. TablesInv'
  BY DEF TablesInv, Tables, BlocksBound
<1>4. Written'
  BY DEF Written, LiveRows
<1>5. SentInv'
  BY DEF SentInv
<1>6. \A t \in Target : Delivered(t)' = Delivered(t)
  BY GivenSame, DeliveredSame
<1>7. \A v \in Worker : pc'[v] = "run" /\ cur'[v].stage = Combine => Reached(cur'[v].logical)
  BY DEF CountInv
<1>8. CountInv'
  BY <1>6, <1>7, CountSame
<1>9. QED
  BY <1>1, <1>2, <1>3, <1>4, <1>5, <1>8

LEMMA Advance_RInv == ASSUME IInv, RInv, NEW w \in Worker, Advance(w) PROVE RInv'
<1>1. /\ pc \in [Worker -> {"next", "claim", "wait", "run", "notify", "done"}]
      /\ cur \in [Worker -> Task \cup {NoTask}]
  BY DEF IInv, TypeOK
<1>2. /\ pc[w] \in {"next", "claim"}
      /\ pc'[w] # "run"
      /\ \A v \in Worker : v # w => pc'[v] = pc[v] /\ cur'[v] = cur[v]
      /\ UNCHANGED <<status, iteration, finished, notified>>
  <2>1. CASE NextStatic(w)
    BY <1>1, <2>1 DEF NextStatic, Hand
  <2>2. CASE RangeDone(w) \/ Lost(w)
    BY <1>1, <2>2 DEF RangeDone, Lost, historyVars
  <2>3. CASE Observe(w) \/ Leave(w)
    BY <1>1, <2>3 DEF Observe, Leave, historyVars
  <2>4. CASE Exhausted(w)
    BY <1>1, <2>4 DEF Exhausted, historyVars
  <2>5. CASE Claim(w)
    <3>1. CASE observed[w] < ClaimBegin(stage[w])
      BY <1>1, <2>5, <3>1 DEF Claim, historyVars
    <3>2. CASE ~(observed[w] < ClaimBegin(stage[w]))
      BY <1>1, <2>5, <3>2 DEF Claim, Hand
    <3>3. QED
      BY <3>1, <3>2
  <2>6. QED
    BY <2>1, <2>2, <2>3, <2>4, <2>5 DEF Advance
<1>3. UNCHANGED routedVars
  BY DEF Advance
<1>4. QED
  BY <1>2, <1>3, Quiet

LEMMA WaitRouted_RInv == ASSUME IInv, RInv, NEW w \in Worker, WaitRouted(w) PROVE RInv'
<1>1. /\ pc[w] = "wait" /\ pc'[w] = "run" /\ cur' = cur
      /\ \A v \in Worker : v # w => pc'[v] = pc[v]
      /\ UNCHANGED <<status, iteration, finished, notified>>
  BY DEF WaitRouted, WaitTaskDependencies, IInv, TypeOK, historyVars
<1>2. cur[w] \in Task
  BY <1>1 DEF IInv, Holding, Busy, TypeOK
<1>3. Predecessors(cur[w]) \subseteq finished
  <2>1. Predecessors(cur[w]) \subseteq notified
    BY <1>2, PolledRowsCover DEF WaitRouted, WaitTaskDependencies, Ready, RowComplete
  <2>2. QED
    BY <2>1 DEF IInv, TypeOK
<1>4. cur[w].stage = Combine => Reached(cur[w].logical)
  BY DEF WaitRouted, CountedReady, Reached
<1>5. UNCHANGED routedVars
  BY DEF WaitRouted
<1>6. QED
  BY <1>1, <1>3, <1>4, <1>5, Quiet

LEMMA Launch_RInv == ASSUME IInv, RInv, Launch, UNCHANGED routedVars PROVE RInv'
<1> USE DEF RInv, routedVars
<1>1. /\ status = "idle" /\ status' = "launched" /\ iteration' = iteration
      /\ cur' = cur /\ finished' = {} /\ notified' = {}
      /\ \A w \in Worker : pc[w] = "done" /\ pc'[w] = "next"
  BY DEF Launch, IInv, Cursors
<1>2. RoutedTypeOK'
  BY DEF RoutedTypeOK
<1>3. Ancestry' /\ TablesInv' /\ Written' /\ SentInv'
  BY <1>1 DEF Ancestry, TablesInv, Written, SentInv
<1>4. \A t \in Target : Delivered(t)' = {}
  <2>1. \A w \in Worker : sent'[w] = {}
    BY <1>1 DEF SentInv
  <2>2. QED
    BY <1>1, <2>1 DEF Delivered, Given
<1>5. \A t \in Target : Balance(t)'
  <2>1. TAKE t \in Target
  <2>2. counted[t] = iteration * Threshold(t) /\ counted[t] \in Nat
    BY <1>1 DEF CountInv, RoutedTypeOK
  <2>3. Cardinality(Delivered(t)') = 0
    BY <1>4, FS_EmptySet
  <2>4. counted'[t] = iteration' * Threshold(t) + Cardinality(Delivered(t)')
    BY <1>1, <2>2, <2>3
  <2>5. QED
    BY <2>4 DEF Balance
<1>6. CountInv'
  BY <1>1, <1>5 DEF CountInv
<1>7. QED
  BY <1>2, <1>3, <1>6

\* A launch that has ended has delivered everything.
LEMMA AllDelivered ==
    ASSUME IInv, RInv, status = "launched", \A w \in Worker : pc[w] = "done", handed = Task,
           NEW t \in Target
    PROVE  Cardinality(Delivered(t)) = Threshold(t)
<1>1. notified = Task /\ finished = Task
  BY DEF IInv, Holding, Busy, TypeOK
<1>2. Tables /\ RoutedTypeOK
  BY <1>1, DispatchIsTask DEF RInv, TablesInv
<1>3. ASSUME NEW r \in Expected(t)
      PROVE  r \in Delivered(t)
  <2>1. PICK x \in TasksOf(Down) : r \in LiveRows(x) /\ TargetOf(rows[r], TileColumn(x)) = t
    BY <1>2, ExpectedTask
  <2>2. Given(x, t)
    BY <1>1 DEF Given, TasksOf
  <2>3. QED
    BY <2>1, <2>2 DEF Delivered, Expected
<1>4. Delivered(t) = Expected(t)
  BY <1>2, <1>3, DeliveredWithin
<1>5. QED
  BY <1>2, <1>4, DeliveredWithin

LEMMA EndLaunch_RInv == ASSUME IInv, RInv, IInv', EndLaunch, UNCHANGED routedVars PROVE RInv'
<1> USE DEF RInv, routedVars
<1>1. /\ status = "launched" /\ status' = "idle" /\ iteration' = iteration + 1
      /\ \A w \in Worker : pc[w] = "done"
      /\ UNCHANGED <<pc, cur, handed, finished, notified>>
  BY DEF EndLaunch, historyVars
<1>2. handed = Task
  BY EndLaunch_Handed
<1>3. RoutedTypeOK'
  BY DEF RoutedTypeOK
<1>4. Ancestry' /\ TablesInv' /\ Written' /\ SentInv'
  BY <1>1 DEF Ancestry, TablesInv, Tables, BlocksBound, Written, SentInv
<1>5. \A t \in Target : counted'[t] = iteration' * Threshold(t)
  <2>1. TAKE t \in Target
  <2>2. Cardinality(Delivered(t)) = Threshold(t)
    BY <1>1, <1>2, AllDelivered
  <2>3. counted[t] = iteration * Threshold(t) + Threshold(t)
    BY <1>1, <2>2 DEF CountInv, Balance
  <2>4. iteration \in Nat /\ Threshold(t) \in Nat
    BY ThresholdCounts DEF IInv, TypeOK
  <2>5. (iteration + 1) * Threshold(t) = iteration * Threshold(t) + Threshold(t)
    BY <2>4, NextMultiple
  <2>6. QED
    BY <1>1, <2>3, <2>5
<1>6. CountInv'
  BY <1>1, <1>5 DEF CountInv
<1>7. QED
  BY <1>3, <1>4, <1>6

-----------------------------------------------------------------------------
(***************************************************************************)
(* The bodies of the tasks.                                                *)
(***************************************************************************)
LEMMA RunFacts ==
    ASSUME IInv, RInv, NEW w \in Worker, RunTask(w)
    PROVE  /\ pc[w] = "run" /\ pc'[w] = "notify" /\ \A v \in Worker : v # w => pc'[v] = pc[v]
           /\ cur' = cur /\ finished' = finished \cup {cur[w]} /\ cur[w] \in Task
           /\ cur[w] \notin finished /\ Predecessors(cur[w]) \subseteq finished
           /\ finished \in SUBSET Task /\ status = "launched" /\ sent[w] = {}
           /\ UNCHANGED <<status, iteration, notified>>
<1>1. /\ pc[w] = "run" /\ pc'[w] = "notify" /\ \A v \in Worker : v # w => pc'[v] = pc[v]
      /\ cur' = cur /\ finished' = finished \cup {cur[w]}
      /\ UNCHANGED <<status, iteration, notified>>
  BY DEF RunTask, IInv, TypeOK
<1>2. cur[w] \in handed /\ handed \in SUBSET Task /\ finished \in SUBSET Task
  BY <1>1 DEF IInv, Holding, Busy, TypeOK
<1>3. cur[w] \notin finished
  BY <1>1, <1>2 DEF IInv, Holding
<1>4. status = "launched"
  BY <1>1, InLaunch
<1>5. Predecessors(cur[w]) \subseteq finished /\ sent[w] = {}
  BY <1>1 DEF RInv, Ancestry, SentInv
<1>6. QED
  BY <1>1, <1>2, <1>3, <1>4, <1>5

LEMMA RunFrame ==
    ASSUME IInv, RInv, NEW w \in Worker, RunTask(w), UNCHANGED <<counted, sent>>,
           \A t \in Target : Delivered(t)' = Delivered(t)
    PROVE  Ancestry' /\ SentInv' /\ CountInv'
<1>1. Ancestry'
  BY RunFacts DEF RInv, Ancestry
<1>2. SentInv'
  BY RunFacts DEF RInv, SentInv
<1>3. \A v \in Worker : pc'[v] = "run" /\ cur'[v].stage = Combine => Reached(cur'[v].logical)
  BY RunFacts DEF RInv, CountInv
<1>4. CountInv'
  BY <1>3, RunFacts, CountSame DEF RInv
<1>5. QED
  BY <1>1, <1>2, <1>4

\* The producers of a running expert task include the dispatch.
LEMMA RunningDown ==
    ASSUME IInv, RInv, NEW w \in Worker, RunTask(w), cur[w].stage = Down
    PROVE  DispatchTask \in finished /\ Tables
<1> DEFINE S == finished \cup {cur[w]}
<1>1. S \in SUBSET Task /\ cur[w] \in S
  BY RunFacts
<1>2. \A x \in S : Predecessors(x) \subseteq S
  BY RunFacts DEF RInv, Ancestry
<1>3. DispatchTask \in S
  <2> HIDE DEF S
  <2>1. QED
    BY <1>1, <1>2, DispatchFirst
<1>4. cur[w] # DispatchTask
  BY DispatchIsTask DEF DispatchTask
<1>5. QED
  BY <1>3, <1>4 DEF RInv, TablesInv

LEMMA RunDispatch_RInv == ASSUME IInv, RInv, NEW w \in Worker, RunDispatch(w) PROVE RInv'
<1>1. RunTask(w) /\ UNCHANGED <<partials, counted, sent>>
  BY DEF RunDispatch
<1>2. PICK idx \in Routings : Fits(idx) /\ rows' = ScatteredRows(idx) /\ blocks' = BoundBlocks(idx)
  BY DEF RunDispatch
<1>3. idx \in [Assignment -> ExpertId]
  BY RoutingIsMap
<1>4. cur[w] = DispatchTask /\ DispatchTask \notin finished
  BY <1>1, RunFacts, DispatchIsTask DEF RunDispatch
<1>5. \A t : \A x \in TasksOf(Down) : ~Given(x, t) /\ ~Given(x, t)'
  <2> TAKE t
  <2>1. TAKE x \in TasksOf(Down)
  <2>2. ~Given(x, t)
    BY <1>4, NoneGiven
  <2>3. Given(x, t)' <=> Given(x, t)
    BY <1>1, RunFacts DEF Given
  <2>4. QED
    BY <2>2, <2>3
<1>6. \A t \in Target : Delivered(t)' = Delivered(t)
  BY <1>5 DEF Delivered
<1>7. Ancestry' /\ SentInv' /\ CountInv'
  BY <1>1, <1>6, RunFrame
<1>8. blocks' \in BlockTable /\ BlocksBound(idx)'
  BY <1>2, <1>3, BindTables DEF RInv, RoutedTypeOK
<1>9. RoutedTypeOK'
  BY <1>1, <1>2, <1>3, <1>8, ScatterInverse DEF RInv, RoutedTypeOK
<1>10. TablesInv'
  BY <1>2, <1>8 DEF TablesInv, Tables
<1>11. Written'
  <2>1. \A x \in finished' : x.stage # Down
    <3>1. TAKE x \in finished'
    <3>2. CASE x = cur[w]
      BY <1>4, <3>2, DispatchIsTask DEF DispatchTask
    <3>3. CASE x \in finished
      <4>1. ASSUME x.stage = Down
            PROVE  FALSE
        <5>1. DispatchTask \in finished
          BY <1>1, <3>3, <4>1, RunFacts, DispatchFirst DEF RInv, Ancestry
        <5>2. QED
          BY <1>4, <5>1
      <4>2. QED
        BY <4>1
    <3>4. QED
      BY <1>1, <3>2, <3>3, RunFacts
  <2>2. QED
    BY <2>1 DEF Written
<1>12. QED
  BY <1>7, <1>9, <1>10, <1>11 DEF RInv

LEMMA RunDown_RInv == ASSUME IInv, RInv, NEW w \in Worker, RunDown(w) PROVE RInv'
<1>1. RunTask(w) /\ cur[w].stage = Down /\ UNCHANGED <<blocks, rows, counted, sent>>
  BY DEF RunDown
<1>2. Tables /\ RoutedTypeOK /\ DispatchTask \in finished
  BY <1>1, RunningDown DEF RInv
<1>3. PICK x \in TasksOf(Down) : x = cur[w]
  BY <1>1, RunFacts DEF TasksOf
<1>4. PICK n \in Column : n = TileColumn(x)
  BY TaskAddress
<1>5. iteration \in Nat /\ iteration' = iteration
  BY <1>1, RunFacts DEF IInv, TypeOK
<1>6. partials' = [a \in Assignment |->
            IF \E r \in LiveRows(x) : rows[r] = a THEN [partials[a] EXCEPT ![n] = iteration]
            ELSE partials[a]]
  BY <1>3, <1>4 DEF RunDown
<1>7. \A a \in Assignment : partials[a] \in [Column -> Int]
  BY <1>2 DEF RoutedTypeOK
<1>8. RoutedTypeOK'
  <2>1. \A a \in Assignment : partials'[a] \in [Column -> Int]
    BY <1>5, <1>6, <1>7
  <2>2. partials' \in [Assignment -> [Column -> Int]]
    BY <1>6, <2>1
  <2>3. QED
    BY <1>1, <1>2, <2>2 DEF RoutedTypeOK
<1>9. TablesInv'
  <2>1. Tables'
    BY <1>1, <1>2 DEF Tables, BlocksBound
  <2>2. QED
    BY <2>1 DEF TablesInv
<1>10. \A t \in Target : Delivered(t)' = Delivered(t)
  <2>1. \A y, t : Given(y, t)' <=> Given(y, t)
    BY <1>1, RunFacts DEF Given
  <2>2. QED
    BY <1>1, <2>1, DeliveredSame
<1>11. Ancestry' /\ SentInv' /\ CountInv'
  BY <1>1, <1>10, RunFrame
<1>12. Written'
  <2>1. \A y : LiveRows(y)' = LiveRows(y)
    BY <1>1 DEF LiveRows
  <2>2. ASSUME NEW y \in finished', y.stage = Down, NEW r \in LiveRows(y)
        PROVE  partials'[rows[r]][TileColumn(y)] = iteration
    <3>1. y \in TasksOf(Down)
      BY <1>1, <2>2, RunFacts DEF TasksOf
    <3>2. PICK m \in Column, a \in Assignment : m = TileColumn(y) /\ a = rows[r]
      <4>1. r \in Assignment
        BY <1>2, <2>2, <3>1, TableCover
      <4>2. QED
        BY <1>2, <3>1, <4>1, TaskAddress DEF RoutedTypeOK
    <3>3. \A i \in Column : partials'[a][i] = iteration \/ partials'[a][i] = partials[a][i]
      BY <1>6, <1>7
    <3>4. CASE y = x
      <4>1. partials'[a] = [partials[a] EXCEPT ![n] = iteration]
        BY <1>6, <2>2, <3>2, <3>4
      <4>2. m = n
        BY <1>4, <3>2, <3>4
      <4>3. QED
        BY <1>7, <3>2, <4>1, <4>2
    <3>5. CASE y # x
      <4>1. y \in finished
        BY <1>1, <1>3, <2>2, <3>5, RunFacts
      <4>2. partials[a][m] = iteration
        BY <1>1, <2>2, <3>2, <4>1, RunFacts DEF RInv, Written
      <4>3. QED
        BY <3>2, <3>3, <4>2
    <3>6. QED
      BY <3>4, <3>5
  <2>3. QED
    BY <1>1, <1>5, <2>1, <2>2 DEF Written
<1>13. QED
  BY <1>8, <1>9, <1>11, <1>12 DEF RInv

LEMMA RunOther_RInv == ASSUME IInv, RInv, NEW w \in Worker, RunOther(w) PROVE RInv'
<1>1. RunTask(w) /\ cur[w].stage # Down /\ cur[w].stage # Dispatch /\ UNCHANGED routedVars
  BY DEF RunOther
<1>2. UNCHANGED <<blocks, rows, partials, counted, sent>>
  BY <1>1 DEF routedVars
<1>3. \A t \in Target : Delivered(t)' = Delivered(t)
  <2>1. \A y, t : Given(y, t)' <=> Given(y, t)
    BY <1>1, <1>2, RunFacts DEF Given
  <2>2. QED
    BY <1>2, <2>1, DeliveredSame
<1>4. Ancestry' /\ SentInv' /\ CountInv'
  BY <1>1, <1>2, <1>3, RunFrame
<1>5. RoutedTypeOK'
  BY <1>2 DEF RInv, RoutedTypeOK
<1>6. TablesInv'
  <2>1. DispatchTask \in finished' => DispatchTask \in finished
    BY <1>1, RunFacts DEF DispatchTask
  <2>2. Tables => Tables'
    BY <1>2 DEF Tables, BlocksBound
  <2>3. QED
    BY <2>1, <2>2 DEF RInv, TablesInv
<1>7. Written'
  <2>1. \A y : LiveRows(y)' = LiveRows(y)
    BY <1>2 DEF LiveRows
  <2>2. QED
    BY <1>1, <1>2, <2>1, RunFacts DEF RInv, Written
<1>8. QED
  BY <1>4, <1>5, <1>6, <1>7 DEF RInv

-----------------------------------------------------------------------------
(***************************************************************************)
(* The additions, and the notification that follows the last of them.      *)
(***************************************************************************)
RowsFor(x, t) == {r \in LiveRows(x) : TargetOf(rows[r], TileColumn(x)) = t}

LEMMA Notifying ==
    ASSUME IInv, RInv, NEW w \in Worker, pc[w] = "notify"
    PROVE  /\ cur[w] \in finished /\ finished \in SUBSET Task
           /\ cur[w] \notin notified
           /\ \A v \in Worker : v # w /\ sent[v] # {} => cur[v] # cur[w]
           /\ status = "launched"
           /\ cur[w].stage = Down => Tables /\ cur[w] \in TasksOf(Down)
<1>1. cur[w] \in handed
  BY DEF IInv, Holding, Busy
<1>2. \A v \in Worker : pc[v] \in {"wait", "run"} => cur[v] # cur[w]
  BY DEF IInv, Holding, Busy
<1>3. cur[w] \in finished /\ finished \in SUBSET Task
  BY <1>1, <1>2 DEF IInv, Holding, TypeOK
<1>4. cur[w] \notin notified
  BY <1>1 DEF IInv, Holding, Busy
<1>5. ASSUME NEW v \in Worker, v # w, sent[v] # {}
      PROVE  cur[v] # cur[w]
  <2>1. pc[v] = "notify"
    BY <1>5 DEF RInv, SentInv
  <2>2. QED
    BY <1>5, <2>1 DEF IInv, Holding, Busy
<1>6. status = "launched"
  BY InLaunch
<1>7. ASSUME cur[w].stage = Down
      PROVE  Tables /\ cur[w] \in TasksOf(Down)
  <2>1. DispatchTask \in finished
    BY <1>3, <1>7, DispatchFirst DEF RInv, Ancestry
  <2>2. QED
    BY <1>3, <1>7, <2>1 DEF RInv, TablesInv, TasksOf
<1>8. QED
  BY <1>3, <1>4, <1>5, <1>6, <1>7

LEMMA RowsForCount ==
    ASSUME Tables, RoutedTypeOK, NEW x \in TasksOf(Down), NEW t \in Target
    PROVE  /\ RowsFor(x, t) \in SUBSET Assignment
           /\ IsFiniteSet(RowsFor(x, t))
           /\ Contribution(x, t) = Cardinality(RowsFor(x, t))
           /\ Contribution(x, t) \in Nat
           /\ Contribution(x, t) = 0 => RowsFor(x, t) = {}
<1>1. RowsFor(x, t) \in SUBSET Assignment
  BY TableCover DEF RowsFor
<1>2. IsFiniteSet(RowsFor(x, t)) /\ Cardinality(RowsFor(x, t)) \in Nat
  BY <1>1, SubsetCount
<1>3. Contribution(x, t) = Cardinality(RowsFor(x, t))
  BY DEF Contribution, RowsFor
<1>4. QED
  BY <1>1, <1>2, <1>3, FS_EmptySet

\* An addition delivers the rows of one task, none of which was delivered.
LEMMA Addition ==
    ASSUME IInv, RInv, NEW w \in Worker, pc[w] = "notify", cur[w].stage = Down,
           NEW t \in Target, t \notin sent[w],
           cur' = cur, notified' = notified, rows' = rows, blocks' = blocks,
           sent' = [sent EXCEPT ![w] = @ \cup {t}]
    PROVE  /\ Delivered(t)' = Delivered(t) \cup RowsFor(cur[w], t)
           /\ Delivered(t) \cap RowsFor(cur[w], t) = {}
           /\ \A u \in Target : u # t => Delivered(u)' = Delivered(u)
<1>1. PICK x \in TasksOf(Down) : x = cur[w]
  BY Notifying
<1>2. Tables /\ RoutedTypeOK /\ x \notin notified /\ sent \in [Worker -> SUBSET Target]
  BY <1>1, Notifying DEF RInv, RoutedTypeOK
<1>3. \A y : LiveRows(y)' = LiveRows(y)
  BY DEF LiveRows
<1>4. /\ sent'[w] = sent[w] \cup {t}
      /\ \A v \in Worker : v # w => sent'[v] = sent[v]
  BY <1>2
<1>5. ~Given(x, t)
  <2>1. \A v \in Worker : ~(cur[v] = x /\ t \in sent[v])
    BY <1>1, Notifying
  <2>2. QED
    BY <1>2, <2>1 DEF Given
<1>6. \A y \in TasksOf(Down) : Given(y, t)' <=> Given(y, t) \/ y = x
  <2>1. TAKE y \in TasksOf(Down)
  <2>2. (\E v \in Worker : cur'[v] = y /\ t \in sent'[v])
          <=> (\E v \in Worker : cur[v] = y /\ t \in sent[v]) \/ y = x
    BY <1>1, <1>4
  <2>3. QED
    BY <2>2 DEF Given
<1>7. \A u \in Target : u # t => \A y \in TasksOf(Down) : Given(y, u)' <=> Given(y, u)
  <2>1. TAKE u \in Target
  <2>2. HAVE u # t
  <2>3. TAKE y \in TasksOf(Down)
  <2>4. \A v \in Worker : u \in sent'[v] <=> u \in sent[v]
    BY <1>4, <2>2
  <2>5. QED
    BY <2>4 DEF Given
<1>8. RowsFor(x, t) \in SUBSET Assignment
  BY <1>2, RowsForCount
<1>9. Delivered(t)' = Delivered(t) \cup RowsFor(x, t)
  <2>1. ASSUME NEW r \in Delivered(t)'
        PROVE  r \in Delivered(t) \cup RowsFor(x, t)
    <3>1. PICK y \in TasksOf(Down) : /\ r \in Assignment /\ r \in LiveRows(y)
                                     /\ TargetOf(rows[r], TileColumn(y)) = t /\ Given(y, t)'
      BY <2>1, <1>3 DEF Delivered
    <3>2. QED
      BY <1>6, <3>1 DEF Delivered, RowsFor
  <2>2. ASSUME NEW r \in Delivered(t) \cup RowsFor(x, t)
        PROVE  r \in Delivered(t)'
    <3>1. PICK y \in TasksOf(Down) : /\ r \in Assignment /\ r \in LiveRows(y)
                                     /\ TargetOf(rows[r], TileColumn(y)) = t
                                     /\ Given(y, t) \/ y = x
      BY <2>2, <1>8 DEF Delivered, RowsFor
    <3>2. QED
      BY <1>3, <1>6, <3>1 DEF Delivered
  <2>3. QED
    BY <2>1, <2>2
<1>10. ASSUME NEW r \in Delivered(t), r \in RowsFor(x, t)
       PROVE  FALSE
  <2>1. PICK y \in TasksOf(Down) : /\ r \in Assignment /\ r \in LiveRows(y)
                                   /\ TargetOf(rows[r], TileColumn(y)) = t /\ Given(y, t)
    BY DEF Delivered
  <2>2. r \in LiveRows(x) /\ TargetOf(rows[r], TileColumn(x)) = t
    BY <1>10 DEF RowsFor
  <2>3. rows[r] \in Assignment /\ TileColumn(x) \in Column /\ TileColumn(y) \in Column
    BY <1>2, <2>1, TaskAddress DEF RoutedTypeOK
  <2>4. TileColumn(x) = t % TilesN /\ TileColumn(y) = t % TilesN
    BY <2>1, <2>2, <2>3, TargetOfColumn
  <2>5. x = y
    BY <1>2, <2>1, <2>2, <2>4, TableCover
  <2>6. QED
    BY <1>5, <2>1, <2>5
<1>11. \A u \in Target : u # t => Delivered(u)' = Delivered(u)
  BY <1>7, DeliveredSame
<1>12. QED
  BY <1>1, <1>9, <1>10, <1>11

LEMMA PublishRows_RInv == ASSUME IInv, RInv, NEW w \in Worker, PublishRows(w) PROVE RInv'
<1>1. /\ pc[w] = "notify"
      /\ UNCHANGED <<vars, blocks, rows, partials>>
  BY DEF PublishRows
<1>2. PICK t \in Targets(cur[w]) \ sent[w] :
          /\ counted' = [counted EXCEPT ![t] = @ + Contribution(cur[w], t)]
          /\ sent' = [sent EXCEPT ![w] = @ \cup {t}]
  BY DEF PublishRows
<1>3. cur[w].stage = Down /\ t \in Target /\ t \notin sent[w]
  BY <1>2 DEF Targets
<1>4. PICK x \in TasksOf(Down) : x = cur[w]
  BY <1>1, <1>3, Notifying
<1>5. Tables /\ RoutedTypeOK /\ status = "launched"
  BY <1>1, <1>3, Notifying DEF RInv
<1>6. PICK c \in Nat : /\ c = Contribution(x, t) /\ c = Cardinality(RowsFor(x, t))
                       /\ IsFiniteSet(RowsFor(x, t))
  BY <1>3, <1>5, RowsForCount
<1>7. UNCHANGED <<status, iteration, pc, cur, finished, notified, rows, blocks, partials>>
  BY <1>1 DEF vars, historyVars
<1>8. /\ Delivered(t)' = Delivered(t) \cup RowsFor(x, t)
      /\ Delivered(t) \cap RowsFor(x, t) = {}
      /\ \A u \in Target : u # t => Delivered(u)' = Delivered(u)
  BY <1>1, <1>2, <1>3, <1>4, <1>7, Addition
<1>9. /\ counted \in [Target -> Nat] /\ counted' \in [Target -> Nat]
      /\ counted'[t] = counted[t] + c
      /\ \A u \in Target : u # t => counted'[u] = counted[u]
  BY <1>2, <1>3, <1>4, <1>5, <1>6 DEF RoutedTypeOK
<1>10. RoutedTypeOK'
  <2>1. sent' \in [Worker -> SUBSET Target]
    BY <1>2, <1>3, <1>5 DEF RoutedTypeOK
  <2>2. QED
    BY <1>5, <1>7, <1>9, <2>1 DEF RoutedTypeOK
<1>11. Ancestry'
  BY <1>7 DEF RInv, Ancestry
<1>12. TablesInv'
  BY <1>7 DEF RInv, TablesInv, Tables, BlocksBound
<1>13. Written'
  BY <1>7 DEF RInv, Written, LiveRows
<1>14. SentInv'
  <2>1. \A v \in Worker : v # w => sent'[v] = sent[v]
    BY <1>2, <1>5 DEF RoutedTypeOK
  <2>2. QED
    BY <1>1, <1>7, <2>1 DEF RInv, SentInv
<1>15. \A u \in Target : Balance(u)'
  <2>1. TAKE u \in Target
  <2>2. counted[u] = iteration * Threshold(u) + Cardinality(Delivered(u))
    BY <1>5 DEF RInv, CountInv, Balance
  <2>3. CASE u = t
    <3>1. IsFiniteSet(Delivered(t))
      BY <1>3, <1>5, DeliveredWithin
    <3>2. /\ Cardinality(Delivered(t)) \in Nat
          /\ Cardinality(Delivered(t)') = Cardinality(Delivered(t)) + c
      BY <1>6, <1>8, <3>1, DisjointUnion
    <3>3. iteration * Threshold(t) \in Nat
      BY <1>3, ThresholdCounts DEF IInv, TypeOK
    <3>4. counted'[t] = iteration * Threshold(t) + Cardinality(Delivered(t)')
      <4> DEFINE m == iteration * Threshold(t)
      <4>1. m \in Nat /\ counted[t] = m + Cardinality(Delivered(t))
        BY <2>2, <2>3, <3>3
      <4> HIDE DEF m
      <4>2. counted'[t] = m + Cardinality(Delivered(t)')
        BY <1>9, <3>2, <4>1
      <4>3. QED
        BY <4>2 DEF m
    <3>5. QED
      BY <1>7, <2>3, <3>4 DEF Balance
  <2>4. CASE u # t
    BY <1>7, <1>8, <1>9, <2>2, <2>4 DEF Balance
  <2>5. QED
    BY <2>3, <2>4
<1>16. \A v \in Worker : (pc[v] = "run" /\ cur[v].stage = Combine => Reached(cur[v].logical))'
  <2>1. TAKE v \in Worker
  <2>2. HAVE (pc[v] = "run" /\ cur[v].stage = Combine)'
  <2>3. PICK u : u = cur[v].logical /\ Reached(u)
    BY <1>7, <2>2 DEF RInv, CountInv
  <2>4. u \in Target
    <3>1. cur[v] \in Task
      BY <1>7, <2>2 DEF IInv, Holding, Busy, TypeOK
    <3>2. QED
      BY <1>7, <2>2, <2>3, <3>1, TaskFields DEF Target
  <2>5. counted'[u] >= counted[u] /\ counted[u] \in Nat /\ counted'[u] \in Nat
    BY <1>6, <1>9, <2>4
  <2>6. PICK m : m = (iteration + 1) * Threshold(u)
    OBVIOUS
  <2>7. m \in Nat
    BY <2>4, <2>6, ThresholdCounts DEF IInv, TypeOK
  <2>8. counted[u] >= m
    BY <2>3, <2>6 DEF Reached
  <2>9. counted'[u] >= m
    BY <2>5, <2>7, <2>8
  <2>10. Reached(u)'
    BY <1>7, <2>6, <2>9 DEF Reached
  <2>11. QED
    BY <1>7, <2>3, <2>10
<1>17. CountInv'
  BY <1>5, <1>7, <1>15, <1>16 DEF CountInv
<1>18. QED
  BY <1>10, <1>11, <1>12, <1>13, <1>14, <1>17 DEF RInv

LEMMA NotifyRouted_RInv == ASSUME IInv, RInv, NEW w \in Worker, NotifyRouted(w) PROVE RInv'
<1>1. /\ Targets(cur[w]) \subseteq sent[w]
      /\ pc[w] = "notify" /\ pc' = [pc EXCEPT ![w] = "next"]
      /\ notified' = notified \cup {cur[w]}
      /\ sent' = [sent EXCEPT ![w] = {}]
      /\ UNCHANGED <<status, iteration, cur, finished, blocks, rows, partials, counted>>
  BY DEF NotifyRouted, NotifyTask
<1>2. /\ pc \in [Worker -> {"next", "claim", "wait", "run", "notify", "done"}]
      /\ sent \in [Worker -> SUBSET Target] /\ RoutedTypeOK
  BY DEF IInv, TypeOK, RInv, RoutedTypeOK
<1>3. /\ pc'[w] = "next" /\ sent'[w] = {}
      /\ \A v \in Worker : v # w => pc'[v] = pc[v] /\ sent'[v] = sent[v]
  BY <1>1, <1>2
<1>4. RoutedTypeOK'
  <2>1. sent' \in [Worker -> SUBSET Target]
    BY <1>1, <1>2
  <2>2. QED
    BY <1>1, <1>2, <2>1 DEF RoutedTypeOK
<1>5. Ancestry'
  BY <1>1, <1>3 DEF RInv, Ancestry
<1>6. TablesInv'
  BY <1>1 DEF RInv, TablesInv, Tables, BlocksBound
<1>7. Written'
  BY <1>1 DEF RInv, Written, LiveRows
<1>8. SentInv'
  BY <1>3 DEF RInv, SentInv
<1>9. \A u \in Target : Delivered(u)' = Delivered(u)
  <2>1. TAKE u \in Target
  <2>2. \A y : LiveRows(y)' = LiveRows(y)
    BY <1>1 DEF LiveRows
  <2>3. \A y : y # cur[w] => (Given(y, u)' <=> Given(y, u))
    BY <1>1, <1>3 DEF Given
  <2>4. ASSUME cur[w] \in TasksOf(Down), NEW r \in RowsFor(cur[w], u)
        PROVE  Given(cur[w], u)
    <3>1. cur[w].stage = Down
      BY <2>4 DEF TasksOf
    <3>2. Tables
      BY <1>1, <3>1, Notifying
    <3>3. Contribution(cur[w], u) > 0
      BY <1>2, <2>4, <3>2, RowsForCount
    <3>4. u \in sent[w]
      BY <1>1, <3>1, <3>3 DEF Targets
    <3>5. QED
      BY <3>4 DEF Given
  <2>5. ASSUME NEW r \in Assignment, NEW y \in TasksOf(Down),
               r \in LiveRows(y), TargetOf(rows[r], TileColumn(y)) = u
        PROVE  Given(y, u)' <=> Given(y, u)
    <3>1. CASE y = cur[w]
      <4>1. r \in RowsFor(cur[w], u) /\ cur[w] \in TasksOf(Down)
        BY <2>5, <3>1 DEF RowsFor
      <4>2. Given(y, u)
        BY <2>4, <3>1, <4>1
      <4>3. Given(y, u)'
        BY <1>1, <3>1 DEF Given
      <4>4. QED
        BY <4>2, <4>3
    <3>2. CASE y # cur[w]
      BY <2>3, <3>2
    <3>3. QED
      BY <3>1, <3>2
  <2>6. QED
    BY <1>1, <2>2, <2>5 DEF Delivered
<1>10. \A v \in Worker : pc'[v] = "run" /\ cur'[v].stage = Combine => Reached(cur'[v].logical)
  BY <1>1, <1>3 DEF RInv, CountInv
<1>11. CountInv'
  BY <1>1, <1>9, <1>10, CountSame DEF RInv
<1>12. QED
  BY <1>4, <1>5, <1>6, <1>7, <1>8, <1>11 DEF RInv

LEMMA RoutedNext_RInv ==
    ASSUME IInv, RInv, [RoutedNext]_<<vars, routedVars>>
    PROVE  IInv' /\ RInv'
<1>1. [Next]_vars
  BY RoutedStepIsClaimStep
<1>2. IInv'
  BY <1>1, Next_IInv
<1>3. CASE Launch /\ UNCHANGED routedVars
  BY <1>2, <1>3, Launch_RInv
<1>4. CASE EndLaunch /\ UNCHANGED routedVars
  BY <1>2, <1>4, EndLaunch_RInv
<1>5. ASSUME NEW w \in Worker, RoutedStep(w)
      PROVE  RInv'
  BY <1>5, Advance_RInv, WaitRouted_RInv, RunDispatch_RInv, RunDown_RInv, RunOther_RInv,
     PublishRows_RInv, NotifyRouted_RInv DEF RoutedStep
<1>6. CASE UNCHANGED <<vars, routedVars>>
  <2>1. UNCHANGED <<status, iteration, pc, cur, finished, notified, blocks, rows, partials, counted, sent>>
    BY <1>6 DEF vars, historyVars, routedVars
  <2>2. RoutedTypeOK' /\ Ancestry' /\ Written' /\ SentInv'
    BY <2>1 DEF RInv, RoutedTypeOK, Ancestry, Written, LiveRows, SentInv
  <2>3. TablesInv'
    BY <2>1 DEF RInv, TablesInv, Tables, BlocksBound
  <2>4. \A t \in Target : Delivered(t)' = Delivered(t)
    BY <2>1, DeliveredSame DEF Given
  <2>5. CountInv'
    BY <2>1, <2>4, CountSame DEF RInv, CountInv
  <2>6. QED
    BY <1>2, <2>2, <2>3, <2>5 DEF RInv
<1>7. RInv'
  BY <1>3, <1>4, <1>5, <1>6 DEF RoutedNext
<1>8. QED
  BY <1>2, <1>7

-----------------------------------------------------------------------------
(***************************************************************************)
(* The theorems.                                                           *)
(***************************************************************************)
\* The binding, the row table, the counters and what each worker has still to
\* add stay in step, through every routing and every interleaving.
THEOREM RoutedInductive == RoutedSpec => [](IInv /\ RInv)
<1>1. RoutedInit => IInv /\ RInv
  BY RoutedInit_RInv, Init_IInv DEF RoutedInit
<1>2. IInv /\ RInv /\ [RoutedNext]_<<vars, routedVars>> => IInv' /\ RInv'
  BY RoutedNext_RInv
<1>3. QED
  BY <1>1, <1>2, PTL DEF RoutedSpec

\* A counter that has reached the threshold of this iteration has every row of
\* its group: earlier launches left exactly their multiples of it.
LEMMA ReachedAll ==
    ASSUME IInv, RInv, status = "launched", NEW t \in Target, Reached(t)
    PROVE  Tables /\ Delivered(t) = Expected(t)
<1>1. PICK k \in Nat : k = Threshold(t) /\ k > 0
  BY ThresholdCounts
<1>2. PICK m \in Nat : m = iteration * k
  BY <1>1 DEF IInv, TypeOK
<1>3. (iteration + 1) * k = m + k
  BY <1>1, <1>2, NextMultiple DEF IInv, TypeOK
<1>4. counted[t] >= m + k
  BY <1>1, <1>3 DEF Reached
<1>5. counted[t] = m + Cardinality(Delivered(t))
  BY <1>1, <1>2 DEF RInv, CountInv, Balance
<1>6. Tables
  <2>1. ASSUME DispatchTask \notin finished
        PROVE  FALSE
    <3>1. Cardinality(Delivered(t)) = 0
      BY <2>1, NothingDelivered, FS_EmptySet
    <3>2. QED
      BY <1>1, <1>2, <1>4, <1>5, <3>1
  <2>2. QED
    BY <2>1 DEF RInv, TablesInv
<1>7. /\ Delivered(t) \in SUBSET Expected(t)
      /\ IsFiniteSet(Expected(t))
      /\ Cardinality(Delivered(t)) \in Nat /\ Cardinality(Expected(t)) = k
  BY <1>1, <1>6, DeliveredWithin DEF RInv
<1>8. Cardinality(Delivered(t)) >= Cardinality(Expected(t))
  BY <1>1, <1>2, <1>4, <1>5, <1>7
<1>9. /\ Cardinality(Delivered(t)) <= Cardinality(Expected(t))
      /\ Cardinality(Delivered(t)) = Cardinality(Expected(t)) => Delivered(t) = Expected(t)
  BY <1>7, FS_Subset
<1>10. QED
  BY <1>1, <1>6, <1>7, <1>8, <1>9

LEMMA ReadsThisStep == IInv /\ RInv => CombineReadsThisStep
<1> SUFFICES ASSUME IInv, RInv, NEW w \in Worker, pc[w] = "run", cur[w].stage = Combine,
                    NEW a \in Assignment, NEW n \in 0 .. (TilesN - 1),
                    TargetOf(a, n) = cur[w].logical
             PROVE  partials[a][n] = iteration
  BY DEF CombineReadsThisStep
<1>1. status = "launched"
  BY InLaunch
<1>2. PICK t \in Target : t = cur[w].logical
  <2>1. cur[w] \in Task
    BY DEF IInv, Holding, Busy, TypeOK
  <2>2. QED
    BY <2>1, TaskFields DEF Target
<1>3. Reached(t)
  BY <1>2 DEF RInv, CountInv
<1>4. Tables /\ Delivered(t) = Expected(t)
  BY <1>1, <1>3, ReachedAll
<1>5. n \in Column
  BY DEF Column
<1>6. a \in ReadBy(t) /\ n = t % TilesN
  BY <1>2, <1>5, TargetOfColumn
<1>7. PICK idx \in [Assignment -> ExpertId] : rows = ScatteredRows(idx)
  BY <1>4, RoutingIsMap DEF Tables
<1>8. PICK r \in Assignment : rows[r] = a
  BY <1>7, ScatterInverse, RowIsRank
<1>9. r \in Delivered(t)
  BY <1>4, <1>6, <1>8 DEF Expected
<1>10. PICK x \in TasksOf(Down) : r \in LiveRows(x) /\ TargetOf(a, TileColumn(x)) = t /\ Given(x, t)
  BY <1>8, <1>9 DEF Delivered
<1>11. TileColumn(x) = n
  <2>1. TileColumn(x) \in Column
    BY TaskAddress
  <2>2. QED
    BY <1>6, <1>10, <2>1, TargetOfColumn
<1>12. x \in finished /\ x.stage = Down
  BY <1>10, GivenFinished DEF TasksOf
<1>13. partials[rows[r]][TileColumn(x)] = iteration
  BY <1>1, <1>10, <1>12 DEF RInv, Written
<1>14. QED
  BY <1>8, <1>11, <1>13

\* The tables, the partials and the counters keep their types: no row of the
\* table and no arrival leaves its range.
THEOREM RoutedTypeCorrect == RoutedSpec => []RoutedTypeOK
<1>1. RInv => RoutedTypeOK
  BY DEF RInv
<1>2. QED
  BY <1>1, RoutedInductive, PTL

\* A combine task that runs finds, for every rank of its tokens, the partial
\* of this iteration, whatever the router did and however the workers
\* interleave (PublishMoeCountedRows, WaitDmCountedDependency).
THEOREM CombineReads == RoutedSpec => []CombineReadsThisStep
BY RoutedInductive, ReadsThisStep, PTL

\* Between launches the counters stand at the multiple of the thresholds that
\* the next launch starts from (BindCountedTaskDependency).
THEOREM CountsMeet == RoutedSpec => []CountsMeetThresholds
<1>1. RInv => CountsMeetThresholds
  BY DEF RInv, CountInv, CountsMeetThresholds
<1>2. QED
  BY <1>1, RoutedInductive, PTL

-----------------------------------------------------------------------------
(***************************************************************************)
(* MoeVirtualCapacity.  The first block of an expert is charged to the     *)
(* expert, a later one to the block of the unpadded row table in which it  *)
(* starts: two blocks are never charged to the same.                       *)
(***************************************************************************)
Blocks(idx) == PairsBelow(idx, Experts)
FirstBlocks(idx) == {p \in Blocks(idx) : p[2] = 0}
LaterBlocks(idx) == {p \in Blocks(idx) : p[2] # 0}
StartOf(idx, p) == ExpertOffset(idx, p[1]) + p[2] * BlockRows

LEMMA PairFields ==
    ASSUME NEW idx, NEW p \in Blocks(idx)
    PROVE  /\ p[1] \in ExpertId /\ p[2] \in Nat /\ p[2] < BlocksOf(idx, p[1])
           /\ p = <<p[1], p[2]>>
BY DEF Blocks, PairsBelow, Block

LEMMA QuotientsApart ==
    ASSUME NEW a \in Nat, NEW b \in Nat, NEW k \in Nat \ {0}, a + k <= b
    PROVE  a \div k < b \div k
<1>1. (a + k) \div k <= b \div k
  BY DivisionMonotone
<1>2. (a + k) \div k = a \div k + 1
  BY SMT
<1>3. a \div k \in Nat /\ b \div k \in Nat
  BY Division
<1>4. QED
  BY <1>1, <1>2, <1>3

LEMMA FirstBlocksBound ==
    ASSUME NEW idx \in [Assignment -> ExpertId]
    PROVE  /\ IsFiniteSet(FirstBlocks(idx))
           /\ Cardinality(FirstBlocks(idx)) <= Least(Tokens * TopK, Experts)
<1> DEFINE F == FirstBlocks(idx)
           toExpert == [p \in F |-> p[1]]
           toRow == [p \in F |-> CHOOSE a \in RowsOf(idx, p[1]) : TRUE]
<1>1. \A p \in F : p[1] \in ExpertId /\ p = <<p[1], 0>> /\ 0 < BlocksOf(idx, p[1])
  BY PairFields DEF FirstBlocks
<1>2. \A p, q \in F : p[1] = q[1] => p = q
  BY <1>1
<1>3. \A p \in F : toRow[p] \in Assignment /\ idx[toRow[p]] = p[1]
  <2>1. TAKE p \in F
  <2>2. PICK n \in Nat : n = Cardinality(RowsOf(idx, p[1])) /\ 0 < CeilDiv(n, BlockRows)
    BY <1>1, ExpertRows DEF BlocksOf
  <2>3. 0 * BlockRows < n
    BY <2>2, CeilAbove, Dimensions
  <2>4. RowsOf(idx, p[1]) # {}
    BY <2>2, <2>3, FS_EmptySet, Dimensions
  <2>5. toRow[p] \in RowsOf(idx, p[1])
    BY <2>4
  <2>6. QED
    BY <2>5 DEF RowsOf
<1>4. toExpert \in Injection(F, ExpertId)
  BY <1>1, <1>2 DEF Injection, IsInjective
<1>5. toRow \in Injection(F, Assignment)
  <2>1. toRow \in [F -> Assignment]
    BY <1>3
  <2>2. \A p, q \in F : toRow[p] = toRow[q] => p = q
    BY <1>2, <1>3
  <2> HIDE DEF toRow
  <2>3. QED
    BY <2>1, <2>2 DEF Injection, IsInjective
<1>6. IsFiniteSet(ExpertId) /\ Cardinality(ExpertId) = Experts
  <2>1. 0 \in Int /\ (Experts - 1) \in Int /\ 0 <= (Experts - 1) + 1
    BY Dimensions
  <2>2. IsFiniteSet(ExpertId) /\ Cardinality(ExpertId) = (Experts - 1) - 0 + 1
    BY <2>1, IntervalCardinality, Zenon DEF ExpertId
  <2>3. QED
    BY <2>2, Dimensions
<1> HIDE DEF toExpert, toRow, F
<1>7. IsFiniteSet(F) /\ Cardinality(F) <= Experts
  BY <1>4, <1>6, FS_Injection
<1>8. Cardinality(F) <= Tokens * TopK
  BY <1>5, AssignmentFinite, FS_Injection
<1>9. QED
  BY <1>7, <1>8 DEF F, Least

LEMMA LaterBlockStart ==
    ASSUME NEW idx \in [Assignment -> ExpertId], NEW p \in LaterBlocks(idx)
    PROVE  /\ p[1] \in ExpertId /\ p[2] \in Nat \ {0} /\ p = <<p[1], p[2]>>
           /\ p[2] * BlockRows \in Nat /\ BlockRows <= p[2] * BlockRows
           /\ StartOf(idx, p) \in Nat
           /\ StartOf(idx, p) = ExpertOffset(idx, p[1]) + p[2] * BlockRows
           /\ StartOf(idx, p) < ExpertOffset(idx, p[1] + 1)
<1>1. p[1] \in ExpertId /\ p[2] \in Nat \ {0} /\ p[2] < BlocksOf(idx, p[1]) /\ p = <<p[1], p[2]>>
  BY PairFields DEF LaterBlocks
<1>2. PICK e \in ExpertId, j \in Nat \ {0} : e = p[1] /\ j = p[2]
  BY <1>1
<1>3. PICK n \in Nat : n = Cardinality(RowsOf(idx, e)) /\ j < CeilDiv(n, BlockRows)
  BY <1>1, <1>2, ExpertRows DEF BlocksOf
<1>4. j * BlockRows < n
  BY <1>3, CeilAbove, Dimensions
<1>5. j * BlockRows \in Nat /\ BlockRows <= j * BlockRows
  BY Dimensions, SMT
<1>6. e \in 0 .. Experts /\ e + 1 \in 0 .. Experts
  BY Dimensions DEF ExpertId
<1>7. /\ ExpertOffset(idx, e) \in Nat
      /\ ExpertOffset(idx, e + 1) = ExpertOffset(idx, e) + n
  BY <1>3, <1>6, ExpertOffsets
<1>8. StartOf(idx, p) = ExpertOffset(idx, e) + j * BlockRows
  BY <1>2 DEF StartOf
<1>9. PICK m \in Nat : m = j * BlockRows /\ m < n
  BY <1>4, <1>5
<1>10. StartOf(idx, p) \in Nat /\ StartOf(idx, p) < ExpertOffset(idx, e + 1)
  BY <1>7, <1>8, <1>9
<1>11. QED
  BY <1>1, <1>2, <1>5, <1>8, <1>10

\* A later block starts a whole block after any block before it.
LEMMA LaterBlocksApart ==
    ASSUME NEW idx \in [Assignment -> ExpertId],
           NEW p \in LaterBlocks(idx), NEW q \in LaterBlocks(idx),
           p[1] < q[1] \/ (p[1] = q[1] /\ p[2] < q[2])
    PROVE  StartOf(idx, p) + BlockRows <= StartOf(idx, q)
<1>1. PICK b \in Nat \ {0} : b = BlockRows
  BY Dimensions
<1>2. PICK e \in ExpertId, f \in ExpertId, i \in Nat \ {0}, j \in Nat \ {0} :
          e = p[1] /\ f = q[1] /\ i = p[2] /\ j = q[2]
  BY LaterBlockStart
<1>3. PICK m \in Nat, n \in Nat : m = i * b /\ n = j * b /\ b <= n
  BY <1>1, <1>2, LaterBlockStart
<1>4. /\ e \in Nat /\ f \in Nat
      /\ e \in 0 .. Experts /\ e + 1 \in 0 .. Experts /\ f \in 0 .. Experts
  BY Dimensions DEF ExpertId
<1>5. /\ ExpertOffset(idx, e) \in Nat /\ ExpertOffset(idx, f) \in Nat
      /\ ExpertOffset(idx, e + 1) \in Nat
  BY <1>4, ExpertOffsets
<1>6. /\ StartOf(idx, p) = ExpertOffset(idx, e) + m
      /\ StartOf(idx, q) = ExpertOffset(idx, f) + n
      /\ StartOf(idx, p) < ExpertOffset(idx, e + 1)
  BY <1>1, <1>2, <1>3, LaterBlockStart
<1>7. CASE e < f
  <2>1. ExpertOffset(idx, e + 1) <= ExpertOffset(idx, f)
    BY <1>4, <1>7, ExpertOffsets
  <2>2. QED
    BY <1>1, <1>3, <1>5, <1>6, <2>1
<1>8. CASE e = f /\ i < j
  <2>1. (i + 1) * b <= j * b
    BY <1>8, SMT
  <2>2. (i + 1) * b = m + b
    BY <1>3, NextMultiple
  <2>3. m + b <= n
    BY <1>3, <2>1, <2>2
  <2>4. QED
    BY <1>1, <1>3, <1>5, <1>6, <1>8, <2>3
<1>9. QED
  BY <1>2, <1>7, <1>8

LEMMA LaterBlocksBound ==
    ASSUME NEW idx \in [Assignment -> ExpertId]
    PROVE  /\ IsFiniteSet(LaterBlocks(idx))
           /\ Cardinality(LaterBlocks(idx)) <= CeilDiv(Tokens * TopK, BlockRows)
<1> DEFINE L == LaterBlocks(idx)
           top == CeilDiv(Tokens * TopK, BlockRows)
           chunk == [p \in L |-> StartOf(idx, p) \div BlockRows]
<1>1. top \in Nat
  BY AssignmentFinite, CeilAbove, Dimensions
<1>2. \A p \in L : chunk[p] \in 0 .. (top - 1)
  <2>1. TAKE p \in L
  <2>2. p[1] + 1 \in 0 .. Experts
    BY LaterBlockStart, Dimensions DEF ExpertId
  <2>3. ExpertOffset(idx, p[1] + 1) \in Nat /\ ExpertOffset(idx, p[1] + 1) <= Tokens * TopK
    BY <2>2, ExpertOffsets
  <2>4. StartOf(idx, p) \in 0 .. (Tokens * TopK - 1) /\ StartOf(idx, p) \in Nat
    <3>1. PICK a \in Nat, c \in Nat, total \in Nat :
              /\ a = StartOf(idx, p) /\ c = ExpertOffset(idx, p[1] + 1) /\ total = Tokens * TopK
              /\ a < c /\ c <= total
      BY <2>3, LaterBlockStart, AssignmentFinite
    <3>2. a \in 0 .. (total - 1)
      BY <3>1
    <3>3. QED
      BY <3>1, <3>2
  <2>5. StartOf(idx, p) \div BlockRows < top
    BY <2>4, AssignmentFinite, CeilAbove, Dimensions
  <2>6. StartOf(idx, p) \div BlockRows \in Nat
    BY <2>4, Division, Dimensions
  <2> HIDE DEF top
  <2>7. StartOf(idx, p) \div BlockRows \in 0 .. (top - 1)
    BY <1>1, <2>5, <2>6
  <2>8. QED
    BY <2>7
<1>3. ASSUME NEW p \in L, NEW q \in L,
             p[1] < q[1] \/ (p[1] = q[1] /\ p[2] < q[2])
      PROVE  chunk[p] # chunk[q]
  <2>1. StartOf(idx, p) \div BlockRows < StartOf(idx, q) \div BlockRows
    BY <1>3, LaterBlocksApart, LaterBlockStart, QuotientsApart, Dimensions
  <2>2. StartOf(idx, p) \div BlockRows \in Nat
    BY LaterBlockStart, Division, Dimensions
  <2>3. QED
    BY <2>1, <2>2
<1>4. ASSUME NEW p \in L, NEW q \in L, chunk[p] = chunk[q]
      PROVE  p = q
  <2> HIDE DEF chunk
  <2>1. /\ p[1] \in Nat /\ q[1] \in Nat /\ p[2] \in Nat /\ q[2] \in Nat
        /\ p = <<p[1], p[2]>> /\ q = <<q[1], q[2]>>
    BY LaterBlockStart DEF ExpertId
  <2>2. /\ ~(p[1] < q[1] \/ (p[1] = q[1] /\ p[2] < q[2]))
        /\ ~(q[1] < p[1] \/ (q[1] = p[1] /\ q[2] < p[2]))
    BY <1>3, <1>4
  <2>3. p[1] = q[1] /\ p[2] = q[2]
    BY <2>1, <2>2
  <2>4. QED
    BY <2>1, <2>3
<1>5. chunk \in [L -> 0 .. (top - 1)]
  <2>1. chunk = [p \in L |-> chunk[p]]
    OBVIOUS
  <2> HIDE DEF chunk
  <2>2. QED
    BY <1>2, <2>1
<1> HIDE DEF chunk, L, top
<1>6. chunk \in Injection(L, 0 .. (top - 1))
  BY <1>4, <1>5 DEF Injection, IsInjective
<1>7. IsFiniteSet(0 .. (top - 1)) /\ Cardinality(0 .. (top - 1)) = top
  <2>1. 0 \in Int /\ (top - 1) \in Int /\ 0 <= (top - 1) + 1
    BY <1>1
  <2>2. /\ IsFiniteSet(0 .. (top - 1))
        /\ Cardinality(0 .. (top - 1)) = (top - 1) - 0 + 1
    BY <2>1, IntervalCardinality, Zenon
  <2>3. QED
    BY <1>1, <2>2
<1>8. QED
  BY <1>6, <1>7, FS_Injection DEF L, top

\* Whatever the router does, the blocks of the dispatch fit in the capacity the
\* compiler computed, so the trap in Prefix is never reached
\* (MoeVirtualCapacity).
THEOREM CapacitySuffices == \A idx \in Routings : Fits(idx)
<1> SUFFICES ASSUME NEW idx \in [Assignment -> ExpertId]
             PROVE  Fits(idx)
  BY RoutingIsMap
<1>1. Blocks(idx) = FirstBlocks(idx) \cup LaterBlocks(idx)
  BY DEF FirstBlocks, LaterBlocks
<1>2. FirstBlocks(idx) \cap LaterBlocks(idx) = {}
  BY DEF FirstBlocks, LaterBlocks
<1>3. /\ Cardinality(FirstBlocks(idx)) \in Nat /\ Cardinality(LaterBlocks(idx)) \in Nat
      /\ Cardinality(Blocks(idx))
            = Cardinality(FirstBlocks(idx)) + Cardinality(LaterBlocks(idx))
  BY <1>1, <1>2, FirstBlocksBound, LaterBlocksBound, DisjointUnion
<1>4. BlockOffset(idx, Experts) = Cardinality(Blocks(idx))
  BY DEF BlockOffset, Blocks, PairsBelow
<1>5. Least(Tokens * TopK, Experts) \in Nat /\ CeilDiv(Tokens * TopK, BlockRows) \in Nat
  BY AssignmentFinite, CeilAbove, Dimensions DEF Least
<1>6. BlockOffset(idx, Experts) <= Capacity
  BY <1>3, <1>4, <1>5, FirstBlocksBound, LaterBlocksBound DEF Capacity
<1>7. QED
  BY <1>6 DEF Fits
=============================================================================
