---------------------------- MODULE RuntimeGraph ----------------------------
(***************************************************************************)
(* The static side of one bound model: its stages, the tasks each stage    *)
(* fans out into, the projected dependencies between stages, and the event *)
(* rows a producer publishes.  Everything here is fixed once the harness   *)
(* has bound theta and the resident grid, before a queue is built          *)
(* (ModelHarness.cuh, harness::Create).                                    *)
(***************************************************************************)
EXTENDS Integers, FiniteSets

CONSTANTS
    StageCount,    \* number of stages of the generated table
    Count,         \* active tasks of each stage (active_tasks)
    Kappa,         \* producer tasks per fine event group (stage_kappa)
    Dependencies   \* projected windows: [producer, consumer, all, div, scale, offset, count]

Stage == 0 .. (StageCount - 1)

\* What MaterializeRuntimeTaskGraph accepts: it throws on any other window.
ASSUME GraphAssumption ==
    /\ StageCount \in Nat
    /\ Count \in [Stage -> Nat]
    /\ Kappa \in [Stage -> Nat \ {0}]
    /\ Dependencies \subseteq
         [producer : Stage, consumer : Stage, all : BOOLEAN,
          div : Nat \ {0}, scale : Int, offset : Int, count : Nat]
    /\ \A d \in Dependencies : d.producer < d.consumer

Task == UNION {[stage : {s}, logical : 0 .. (Count[s] - 1)] : s \in Stage}

TasksOf(s) == {x \in Task : x.stage = s}

\* Node numbering of the runtime graph: stage_offsets[stage] + logical.
NodeBefore(x, y) ==
    \/ x.stage < y.stage
    \/ x.stage = y.stage /\ x.logical < y.logical

(***************************************************************************)
(* The producer tasks an edge makes task c of its consumer stage wait for. *)
(***************************************************************************)
RuntimeDependencyBounds(d, c) ==
    LET at == (c \div d.div) * d.scale + d.offset
    IN  {p \in 0 .. (Count[d.producer] - 1) :
            d.all \/ (at <= p /\ p < at + d.count)}

Incoming(s) == {d \in Dependencies : d.consumer = s}

Predecessors(x) ==
    {p \in Task : \E d \in Incoming(x.stage) :
        /\ p.stage = d.producer
        /\ p.logical \in RuntimeDependencyBounds(d, x.logical)}

-----------------------------------------------------------------------------
(***************************************************************************)
(* Event rows.  A stage publishes a fine row per group of Kappa tasks when *)
(* some windowed edge reads it, and one aggregate row over all its tasks   *)
(* when some kAll edge reads it.                                           *)
(***************************************************************************)
WholeStage == -1    \* kWholeStageEventGroup

NeedsAggregateEvent(s) == \E d \in Dependencies : d.producer = s /\ d.all
NeedsFineEvents(s) == \E d \in Dependencies : d.producer = s /\ ~d.all

Group(x) == x.logical \div Kappa[x.stage]

Row ==
    {[producer |-> s, group |-> WholeStage] : s \in {t \in Stage : NeedsAggregateEvent(t)}}
      \cup {[producer |-> x.stage, group |-> Group(x)] :
                x \in {y \in Task : NeedsFineEvents(y.stage)}}

\* The rows NotifyTask arrives at when task x completes.
NotifyRows(x) ==
    {r \in Row : r.producer = x.stage /\ r.group \in {WholeStage, Group(x)}}

Members(r) == {x \in Task : r \in NotifyRows(x)}

\* The arrival target a consumer derives for a row, from the counts alone.
RawEventTriggers(r) ==
    LET k == Kappa[r.producer]
        rest == Count[r.producer] - r.group * k
    IN  IF r.group = WholeStage THEN Count[r.producer]
        ELSE IF rest < k THEN rest ELSE k
=============================================================================
