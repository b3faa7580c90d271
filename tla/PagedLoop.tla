------------------------------ MODULE PagedLoop ------------------------------
(***************************************************************************)
(* The persistent decode loop of the paged L2 executor (ServingPages.cuh,  *)
(* tilemega_loop_kernel).  Every CTA has two roles that walk the same      *)
(* queue once per step: a loader warp that copies each task's weight or    *)
(* key/value pages into the CTA's page ring, and the compute warps, which  *)
(* wait for the task's event rows, drain its pages and publish.  No grid   *)
(* barrier separates the steps.  Event counters only grow, so a wait of    *)
(* step i asks for i + 1 rounds of arrivals, and what keeps the rounds     *)
(* apart is one chain: an embedding waits for every token of the step      *)
(* before.  The loader runs ahead of all that, and has gates of its own.   *)
(*                                                                         *)
(* A stage whose reducer is elided runs the reducer in its last arriver.   *)
(* The slot window is one, as the serving build requires.  PageRing has    *)
(* the ring in detail; here it is a bounded count of full pages.           *)
(***************************************************************************)
EXTENDS RuntimeGraph, Sequences

CONSTANTS
    Steps,        \* decode steps of one launch
    Lag,          \* lag_dependencies: [producer, consumer]
    Schedule,     \* per worker, its queue: a sequence of tasks
    Reducer,      \* per stage, the elided stage its last arriver runs, or NoStage
    Opaque,       \* per stage, opaque_predecessor or NoStage
    Pages,        \* per stage, the pages the loader fills for one of its tasks
    Ring,         \* pages of the ring
    Ahead,        \* pages the look-ahead may prefetch beyond the loaded ones
    Embedding, Argmax

NoStage == -1
PagedWorker == DOMAIN Schedule

ElidedStage == {Reducer[s] : s \in Stage} \ {NoStage}
Queued == {x \in Task : x.stage \notin ElidedStage}

OwnerOf(x) == CHOOSE w \in PagedWorker : \E i \in DOMAIN Schedule[w] : Schedule[w][i] = x
SlotOf(x) == CHOOSE i \in DOMAIN Schedule[OwnerOf(x)] : Schedule[OwnerOf(x)][i] = x
EarlierInQueue(p, x) == OwnerOf(p) = OwnerOf(x) /\ SlotOf(p) < SlotOf(x)

ASSUME PagedAssumption ==
    /\ Steps \in Nat \ {0}
    /\ Lag \subseteq [producer : Stage, consumer : Stage]
    /\ [producer |-> Argmax, consumer |-> Embedding] \in Lag
    /\ Reducer \in [Stage -> Stage \cup {NoStage}]
    /\ Opaque \in [Stage -> Stage \cup {NoStage}]
    /\ Pages \in [Stage -> Nat]
    /\ Ring \in Nat \ {0} /\ Ahead \in Nat
    /\ {Embedding, Argmax} \subseteq Stage

\* Each queued task has one slot of one queue.
ASSUME ScheduleAssumption ==
    /\ Schedule \in [PagedWorker -> Seq(Queued)]
    /\ \A x \in Queued : \E w \in PagedWorker : \E i \in DOMAIN Schedule[w] : Schedule[w][i] = x
    /\ \A v, w \in PagedWorker : \A i \in DOMAIN Schedule[v], j \in DOMAIN Schedule[w] :
          Schedule[v][i] = Schedule[w][j] => v = w /\ i = j

\* In a decoder each result is read by something except the tokens, and each
\* task but an embedding works on what an earlier stage has written.
ASSUME DecoderAssumption ==
    /\ \A x \in Task : x.stage = Argmax \/ \E y \in Task : x \in Predecessors(y)
    /\ \A x \in Task : x.stage = Embedding \/ Predecessors(x) # {}

\* The reducer tasks a producer task contributes to, which are also its ticket.
Reduced(x) == {y \in Task : y.stage = Reducer[x.stage] /\ x \in Predecessors(y)}
Producers(x) == {p \in TasksOf(x.stage) : Reduced(p) = Reduced(x)}

\* A stage has one reducer and a reducer one stage, of another kind; what it
\* reads are the tasks that take its ticket.
ASSUME HandoffAssumption ==
    /\ \A s, t \in Stage : Reducer[s] # NoStage /\ Reducer[s] = Reducer[t] => s = t
    /\ \A s \in ElidedStage : Reducer[s] = NoStage
    /\ \A x \in Task : Reducer[x.stage] # NoStage => Reduced(x) # {}
    /\ \A y \in Task : y.stage \in ElidedStage =>
          \E x \in Task : y \in Reduced(x) /\ Predecessors(y) = Producers(x)

-----------------------------------------------------------------------------
(***************************************************************************)
(* Event rows: those of the edges, and an aggregate row for each producer  *)
(* of a lag edge or of an opaque gate.                                     *)
(***************************************************************************)
LagRows == {[producer |-> l.producer, group |-> WholeStage] : l \in Lag}
GateRows == {[producer |-> Opaque[s], group |-> WholeStage] :
                s \in {t \in Stage : Opaque[t] # NoStage}}
LoopRow == Row \cup LagRows \cup GateRows

LoopNotify(x) ==
    {r \in LoopRow : r.producer = x.stage /\ r.group \in {WholeStage, Group(x)}}

(***************************************************************************)
(* The rows a queued task polls, window one.  A producer earlier in the    *)
(* queue needs no poll if it has an event of its own and was not elided;   *)
(* a row an earlier slot polls is not polled again.                        *)
(***************************************************************************)
InQueue(p, x) == p.stage \notin ElidedStage /\ Kappa[p.stage] = 1 /\ EarlierInQueue(p, x)

DesiredOf(x) ==
    UNION {IF d.all THEN {[producer |-> d.producer, group |-> WholeStage]}
           ELSE {[producer |-> p.stage, group |-> Group(p)] :
                    p \in {q \in TasksOf(d.producer) :
                              /\ q.logical \in RuntimeDependencyBounds(d, x.logical)
                              /\ ~InQueue(q, x)}} :
           d \in Incoming(x.stage)}

TaskWaits == [x \in Queued |->
                 DesiredOf(x) \ UNION {DesiredOf(y) : y \in {z \in Queued : EarlierInQueue(z, x)}}]

-----------------------------------------------------------------------------
VARIABLES
    arrived,    \* per row, EventCounter.arrivals
    ticket,      \* per tile, serving_handoff_tickets
    output,      \* per task, the last step whose result its buffer holds
    full,        \* per worker, full pages of its ring
    load,        \* per worker, the loader: step, slot, pages filled, pc
    comp,        \* per worker, the compute warps: step, slot, pages drained, pc
    ahead        \* per worker, the look-ahead: step, slot, page, and its counters

pagedVars == <<arrived, ticket, output, full, load, comp, ahead>>

Unwritten == -1

\* A worker without a queue runs through its steps at once.
Enter(w, first) == IF Schedule[w] = <<>> THEN "done" ELSE first

PagedInit ==
    /\ arrived = [r \in LoopRow |-> 0]
    /\ ticket = [tile \in {Reduced(x) : x \in Queued} |-> 0]
    /\ output = [x \in Task |-> Unwritten]
    /\ full = [w \in PagedWorker |-> 0]
    /\ load = [w \in PagedWorker |-> [step |-> 0, slot |-> 1, page |-> 0, pc |-> Enter(w, "gate")]]
    /\ comp = [w \in PagedWorker |-> [step |-> 0, slot |-> 1, page |-> 0, pc |-> Enter(w, "wait")]]
    /\ ahead = [w \in PagedWorker |-> [step |-> 0, slot |-> 1, page |-> 0,
                                  prefetched |-> 0, loaded |-> 0]]

\* A wait of step i asks for i + 1 rounds of arrivals, a lag wait for i.
Reached(r, rounds) == arrived[r] >= RawEventTriggers(r) * rounds
Aggregate(s) == [producer |-> s, group |-> WholeStage]

TaskAt(cursor, w) == Schedule[w][cursor.slot]
Cur(w) == TaskAt(comp[w], w)

\* The next slot of the queue, or the first one of the next step.
NextSlot(cursor, w) ==
    IF cursor.slot < Len(Schedule[w])
    THEN [cursor EXCEPT !.slot = @ + 1, !.page = 0]
    ELSE [cursor EXCEPT !.step = @ + 1, !.slot = 1, !.page = 0]

\* A role goes on to its next task, or leaves the kernel after the last step.
GoOn(role, w, first) ==
    LET next == NextSlot(role[w], w)
    IN  [role EXCEPT ![w] = [next EXCEPT !.pc = IF next.step < Steps THEN first ELSE "done"]]

-----------------------------------------------------------------------------
(***************************************************************************)
(* The loader warp.                                                        *)
(***************************************************************************)
GateReady(s, step) == Opaque[s] # NoStage => Reached(Aggregate(Opaque[s]), step + 1)

\* WaitLoader: nothing of the task is loaded before its gate opens.
OpenGate(w) ==
    /\ load[w].pc = "gate"
    /\ GateReady(TaskAt(load[w], w).stage, load[w].step)
    /\ load' = [load EXCEPT ![w].pc = "ahead"]
    /\ UNCHANGED <<arrived, ticket, output, full, comp, ahead>>

InLookahead(w) == load[w].pc \in {"ahead", "peek"}

\* Mutant: the probe asks about the step the loader is in.
ProbeLoaderStep(w) == GateReady(TaskAt(ahead[w], w).stage, load[w].step)

\* PageStream::Next asks about the step of its own cursor.
Probe(w) == GateReady(TaskAt(ahead[w], w).stage, ahead[w].step)

MorePages(w) ==
    /\ ahead[w].step < Steps
    /\ ahead[w].prefetched < ahead[w].loaded + Ahead
    /\ Probe(w)

\* PageStream::Next: the next page of the stream, or on to the next slot.
NextOfStream(stream, w) ==
    IF stream.page < Pages[TaskAt(stream, w).stage]
    THEN [stream EXCEPT !.page = @ + 1, !.prefetched = @ + 1]
    ELSE NextSlot(stream, w)

Prefetch(w) ==
    /\ InLookahead(w)
    /\ MorePages(w)
    /\ ahead' = [ahead EXCEPT ![w] = NextOfStream(@, w)]
    /\ UNCHANGED <<arrived, ticket, output, full, load, comp>>

\* Mutant: the look-ahead waits for the gate of the page it wants next.
EndLookaheadSpins(w) ==
    /\ InLookahead(w)
    /\ \/ ahead[w].step = Steps
       \/ ahead[w].prefetched >= ahead[w].loaded + Ahead
    /\ ahead' = [ahead EXCEPT ![w].loaded =
                    @ + (IF load[w].pc = "peek" /\ Ahead > 0 THEN 1 ELSE 0)]
    /\ load' = [load EXCEPT ![w].pc = IF @ = "peek" THEN "fill" ELSE "lag"]
    /\ UNCHANGED <<arrived, ticket, output, full, comp>>

\* Lookahead returns; a call made for a page counts it as loaded.
EndLookahead(w) ==
    /\ InLookahead(w)
    /\ ~MorePages(w)
    /\ ahead' = [ahead EXCEPT ![w].loaded =
                    @ + (IF load[w].pc = "peek" /\ Ahead > 0 THEN 1 ELSE 0)]
    /\ load' = [load EXCEPT ![w].pc = IF @ = "peek" THEN "fill" ELSE "lag"]
    /\ UNCHANGED <<arrived, ticket, output, full, comp>>

Lags(s) == {l \in Lag : l.consumer = s}

\* Mutant: the loader goes back to keys and values without a wait.
HistoryReadyAlways(w) == TRUE

\* Key/value pages of earlier steps; any other page is a weight page.
HistoryReady(w) ==
    LET s == TaskAt(load[w], w).stage
    IN  s # Embedding => \A l \in Lags(s) : Reached(Aggregate(l.producer), load[w].step)

NextPage(w) == load[w].page < Pages[TaskAt(load[w], w).stage]

WaitHistory(w) ==
    /\ load[w].pc = "lag"
    /\ HistoryReady(w)
    /\ load' = IF NextPage(w) THEN [load EXCEPT ![w].pc = "peek"] ELSE GoOn(load, w, "gate")
    /\ UNCHANGED <<arrived, ticket, output, full, comp, ahead>>

\* AcquireEmpty and the publication of one page.
Fill(w) ==
    /\ load[w].pc = "fill"
    /\ full[w] < Ring
    /\ full' = [full EXCEPT ![w] = @ + 1]
    /\ load' = IF load[w].page + 1 < Pages[TaskAt(load[w], w).stage]
               THEN [load EXCEPT ![w].page = @ + 1, ![w].pc = "peek"]
               ELSE GoOn(load, w, "gate")
    /\ UNCHANGED <<arrived, ticket, output, comp, ahead>>

LoaderStep(w) ==
    OpenGate(w) \/ Prefetch(w) \/ EndLookahead(w) \/ WaitHistory(w) \/ Fill(w)

-----------------------------------------------------------------------------
(***************************************************************************)
(* The compute warps.                                                      *)
(***************************************************************************)
WaitDependencies(w) == \A r \in TaskWaits[Cur(w)] : Reached(r, comp[w].step + 1)

\* Mutant: an embedding does not wait for the tokens of the step before.
TokensReadyAlways(w) == TRUE

TokensReady(w) ==
    Cur(w).stage = Embedding =>
        \A l \in Lags(Embedding) : Reached(Aggregate(l.producer), comp[w].step)

Begin(w) ==
    /\ comp[w].pc = "wait"
    /\ WaitDependencies(w)
    /\ TokensReady(w)
    /\ comp' = [comp EXCEPT ![w].pc = "run"]
    /\ UNCHANGED <<arrived, ticket, output, full, load, ahead>>

\* The body drains a page and releases it.
Drain(w) ==
    /\ comp[w].pc = "run"
    /\ comp[w].page < Pages[Cur(w).stage]
    /\ full[w] > 0
    /\ full' = [full EXCEPT ![w] = @ - 1]
    /\ comp' = [comp EXCEPT ![w].page = @ + 1]
    /\ UNCHANGED <<arrived, ticket, output, load, ahead>>

EndBody(w) ==
    /\ comp[w].pc = "run"
    /\ comp[w].page = Pages[Cur(w).stage]
    /\ output' = [output EXCEPT ![Cur(w)] = comp[w].step]
    /\ comp' = [comp EXCEPT ![w].pc =
                   IF Reducer[Cur(w).stage] = NoStage THEN "publish" ELSE "ticket"]
    /\ UNCHANGED <<arrived, ticket, full, load, ahead>>

\* LastArriver: a ticket beyond the last producer traps the kernel.
TakeTicket(w) ==
    LET tile == Reduced(Cur(w))
        previous == ticket[tile]
        producers == Cardinality(Producers(Cur(w)))
    IN  /\ comp[w].pc = "ticket"
        /\ ticket' = [ticket EXCEPT ![tile] = @ + 1]
        /\ comp' = [comp EXCEPT ![w].pc =
                       IF previous >= producers THEN "trap"
                       ELSE IF previous + 1 = producers THEN "reduce" ELSE "publish"]
        /\ UNCHANGED <<arrived, output, full, load, ahead>>

Reduce(w) ==
    LET tile == Reduced(Cur(w))
    IN  /\ comp[w].pc = "reduce"
        /\ output' = [x \in Task |-> IF x \in tile THEN comp[w].step ELSE output[x]]
        /\ ticket' = [ticket EXCEPT ![tile] = 0]
        /\ comp' = [comp EXCEPT ![w].pc = "announce"]
        /\ UNCHANGED <<arrived, full, load, ahead>>

ArriveAt(X) ==
    arrived' = [r \in LoopRow |-> arrived[r] + Cardinality({x \in X : r \in LoopNotify(x)})]

\* The last arriver publishes for the reducer; for tokens, one row per request.
Announce(w) ==
    /\ comp[w].pc = "announce"
    /\ ArriveAt(Reduced(Cur(w)))
    /\ comp' = [comp EXCEPT ![w].pc =
                   IF Reducer[Cur(w).stage] = Argmax THEN "stamp" ELSE "publish"]
    /\ UNCHANGED <<ticket, output, full, load, ahead>>

\* The worker that finished the first tile stamps the step's end time, when
\* every token of the step is there.
Stamp(w) ==
    /\ comp[w].pc = "stamp"
    /\ Reached(Aggregate(Argmax), comp[w].step + 1)
    /\ comp' = [comp EXCEPT ![w].pc = "publish"]
    /\ UNCHANGED <<arrived, ticket, output, full, load, ahead>>

Publish(w) ==
    /\ comp[w].pc = "publish"
    /\ ArriveAt({Cur(w)})
    /\ comp' = GoOn(comp, w, "wait")
    /\ UNCHANGED <<ticket, output, full, load, ahead>>

ComputeStep(w) ==
    \/ Begin(w) \/ Drain(w) \/ EndBody(w)
    \/ TakeTicket(w) \/ Reduce(w) \/ Announce(w) \/ Stamp(w)
    \/ Publish(w)

-----------------------------------------------------------------------------
PagedNext == \E w \in PagedWorker : LoaderStep(w) \/ ComputeStep(w)

PagedSpec == PagedInit /\ [][PagedNext]_pagedVars

\* The CTAs are resident together and each warp keeps being scheduled: the
\* kernel does not stop while some role can go on.  A loop has finitely many
\* steps, so no more than that is needed.
PagedFairSpec == PagedSpec /\ WF_pagedVars(PagedNext)

-----------------------------------------------------------------------------
BodyOf(w) ==
    CASE comp[w].pc = "run" -> {Cur(w)}
      [] comp[w].pc = "reduce" -> Reduced(Cur(w))
      [] OTHER -> {}

Loop == INSTANCE DecodeLoop WITH
            running <- UNION {BodyOf(w) : w \in PagedWorker},
            done <- [x \in Task |-> output[x] + 1]

\* Without a grid barrier, a task still runs on the results of its own step,
\* never on a mix of two steps, never over a result a reader of the step
\* before has yet to read, and an embedding on the tokens of the step before.
ImplementsDecodeLoop == Loop!Spec

\* When the loader copies key/value pages for step i, every task of the lag
\* producer has run for step i - 1: the history it copies has been written.
HistoryWritten ==
    \A w \in PagedWorker :
        load[w].pc \in {"peek", "fill"} /\ TaskAt(load[w], w).stage # Embedding =>
            \A l \in Lags(TaskAt(load[w], w).stage) :
                \A p \in TasksOf(l.producer) : output[p] >= load[w].step - 1

\* A page of a gated stage is prefetched only after the stage it is gated by
\* has published for the step the page belongs to: expert weights are looked
\* up with the routing of their own step.
PrefetchesOwnStep ==
    \A w \in PagedWorker :
        ahead[w].page > 0 =>
            LET g == Opaque[TaskAt(ahead[w], w).stage]
            IN  g # NoStage => \A p \in TasksOf(g) : output[p] >= ahead[w].step

\* Every worker gets through all the steps, its loader too.
LoopCompletes ==
    <>(\A w \in PagedWorker : load[w].pc = "done" /\ comp[w].pc = "done")
=============================================================================
