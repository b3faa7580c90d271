---------------------------- MODULE ElidedQueue ----------------------------
(***************************************************************************)
(* The queue loop of harness::Create with elided reducers                  *)
(* (TILEMEGA_NONPAGED_LA).  A task of an elided stage has a slot in the    *)
(* plan and none in the uploaded queue: the last of its producers to end   *)
(* runs it in place.  The distances by which the loop drops a poll are     *)
(* plan slots; the distances the device's window obeys are positions in    *)
(* the uploaded queue.                                                     *)
(***************************************************************************)
EXTENDS QueueMaterialize

CONSTANT Elided     \* stages with handoff_elided, some of Stage

\* An elided producer is always polled: its owner does not run it.
ElidedProducers(x) == {p \in RequiredTasks(x) : p.stage \in Elided}

QueuedDesired(x) ==
    Desired(x) \cup {[producer |-> p.stage, group |-> Group(p)] : p \in ElidedProducers(x)}

QueuedDistances(x) ==
    {plan.slot[x] - plan.slot[p] : p \in LocalTasks(x) \ ElidedProducers(x)}

QueuedWaits(x) == {r \in QueuedDesired(x) : MustEmit(r, x)}

\* One pass of the queue loop over a task that is queued.
MaterializeQueued(x) ==
    /\ status = "materializing"
    /\ x.stage \notin Elided
    /\ plan.owner[x] = cursor.worker
    /\ plan.slot[x] = cursor.slot
    /\ waits' = [waits EXCEPT ![x] = QueuedWaits(x)]
    /\ local' = [local EXCEPT ![x] = QueuedDistances(x)]
    /\ seen' = [seen EXCEPT ![cursor.worker] =
                  [r \in Row |-> IF r \in QueuedWaits(x) THEN plan.slot[x] ELSE @[r]]]
    /\ cursor' = [cursor EXCEPT !.slot = @ + 1]
    /\ UNCHANGED <<status, plan>>

\* handoff_elided: continue.
SkipElided(x) ==
    /\ status = "materializing"
    /\ x.stage \in Elided
    /\ plan.owner[x] = cursor.worker
    /\ plan.slot[x] = cursor.slot
    /\ cursor' = [cursor EXCEPT !.slot = @ + 1]
    /\ UNCHANGED <<status, plan, waits, local, seen>>

Next ==
    \/ /\ status = "planning"
       /\ \E mode \in PlacementMode : \E candidate \in MaterializePlanPlacement(mode) :
             AcceptPlan(candidate) \/ RejectPlan(candidate)
    \/ \E x \in Task : MaterializeQueued(x) \/ SkipElided(x)
    \/ NextWorker
    \/ UploadSchedule

Spec == HostInit /\ [][Next]_hostVars

-----------------------------------------------------------------------------
\* Where task x stands in the queue the device walks.
UploadedAt(x) ==
    Cardinality({y \in Task : /\ SameWorker(y, x)
                              /\ y.stage \notin Elided
                              /\ plan.slot[y] < plan.slot[x]})

\* The device can start x before p has ended only if nothing of this holds: p
\* is a window behind it, x has p's local bit, or x or a task a window behind
\* it polls a row p is a member of.
CoveredAsUploaded(p, x) ==
    LET behind(y) == BeyondWindow(UploadedAt(y), UploadedAt(x))
        queuedHere(y) == SameWorker(y, x) /\ y.stage \notin Elided
    IN  \/ queuedHere(p) /\ behind(p)
        \/ queuedHere(p) /\ (UploadedAt(x) - UploadedAt(p)) \in local[x]
        \/ \E y \in Task : \E r \in waits[y] :
              queuedHere(y) /\ (y = x \/ behind(y)) /\ p \in Members(r)

\* Every dependency of a queued task is settled in the queue the device
\* walks, with the elided tasks taken out of it.
LiftingSoundAsUploaded ==
    status = "idle" =>
        \A x \in Task : \A p \in Predecessors(x) :
            x.stage \notin Elided => CoveredAsUploaded(p, x)
=============================================================================
