-------------------------- MODULE EventRows_proofs --------------------------
(***************************************************************************)
(* Two executors that wait on event rows which are never cleared, and read *)
(* what a row has counted against a target that grows with the launches or *)
(* the steps: the sharded kernel and the persistent decode loop.           *)
(***************************************************************************)
EXTENDS ShardedFanIn, PagedLoop, RuntimeGraph_proofs

-----------------------------------------------------------------------------
(***************************************************************************)
(* Two levels of counters speak for every member of a row, for any graph,  *)
(* grid, cluster size, number of shards, owner table and number of         *)
(* launches: the inductive invariant of the sharded kernel, and what       *)
(* follows from it.                                                        *)
(***************************************************************************)

PC == {"load", "sync", "next", "wait", "run", "notify", "combine", "publish",
       "close", "save", "done"}

\* Between the two barriers of its cluster.
Busy == {"next", "wait", "run", "notify", "combine", "publish", "close"}

Launched == status = "launched"

FanTypeOK ==
    /\ build \in Builds
    /\ owner \in Owners
    /\ status \in {"idle", "launched"}
    /\ iteration \in Nat
    /\ global \in [Shard -> Nat]
    /\ local \in [Shard -> Nat]
    /\ arrivals \in [Row -> Nat]
    /\ epoch \in [Row -> Nat]
    /\ pc \in [Worker -> PC]
    /\ cur \in [Worker -> Task \cup {NoTask}]
    /\ rows \in [Worker -> SUBSET Row]
    /\ finished \subseteq Task

\* Rank 0 of a cluster.
Lead(w) == Cluster(w) * ClusterDim

\* Where a CTA can be, and with what.
Stands(w) ==
    /\ ~Launched => pc[w] = "done"
    /\ ~build.cluster => pc[w] \in (Busy \ {"close"}) \cup {"done"}
    /\ pc[w] \in {"load", "save"} => Rank(w) = 0
    /\ pc[w] \in {"load", "sync"} => cur[w] = NoTask
    /\ pc[w] \in {"wait", "run", "notify", "combine", "publish"} => cur[w] # NoTask
    /\ cur[w] # NoTask => cur[w] \in Queue(w)
    /\ rows[w] # {} => pc[w] \in {"notify", "combine", "publish"}
    /\ pc[w] \in {"combine", "publish"} => rows[w] # {}
    /\ rows[w] \subseteq NotifyRows(cur[w])
    /\ Launched /\ pc[w] \in {"close", "save", "done"} => Queue(w) \subseteq finished

\* A cluster enters and leaves its queue loops as one.
Together == build.cluster => \A w \in Worker : pc[w] \in Busy <=> pc[Lead(w)] \in Busy

Standing == Together /\ \A w \in Worker : Stands(w)

\* A queue is walked in node order.
History ==
    /\ Launched => \A x \in Task :
          x \in finished <=>
              /\ cur[owner[x]] # NoTask /\ ~NodeBefore(cur[owner[x]], x)
              /\ x = cur[owner[x]] => pc[owner[x]] \notin {"wait", "run"}
    /\ ~Launched => finished \in {{}, Task}

\* x has ended and has still to arrive at r.
Owes(x, r) ==
    /\ x = cur[owner[x]]
    /\ r \in rows[owner[x]]
    /\ pc[owner[x]] \in {"combine", "publish"} => r # RowOf(owner[x])

Arrived(r) == {x \in Members(r) : x \in finished /\ ~Owes(x, r)}

InShard(r, k) == {x \in Members(r) : ShardOf(r, owner[x]) = k}

ShardSet(r) == {ShardOf(r, owner[x]) : x \in Members(r)}

\* w was the last of its shard and has not reached the row yet.
Carries(w, r, k) == pc[w] = "combine" /\ RowOf(w) = r /\ ShardOf(r, w) = k

\* Who speaks to a row, and who of them has spoken in this launch.
Speakers(r) == IF TwoLevel(r) THEN ShardSet(r) ELSE Members(r)

Heard(r) ==
    IF TwoLevel(r)
    THEN {k \in ShardSet(r) : /\ InShard(r, k) \subseteq Arrived(r)
                              /\ \A w \in Worker : ~Carries(w, r, k)}
    ELSE Arrived(r)

\* The counter of a cluster's shard is in its shared memory from the fetch to
\* the store.
Fetched(w) == build.cluster /\ Launched /\ pc[Lead(w)] \notin {"load", "done"}

Value(r, x) ==
    LET k == <<r, ShardOf(r, owner[x])>>
    IN  IF Fetched(owner[x]) THEN local[k] ELSE global[k]

ShardInv ==
    \A r \in Row : TwoLevel(r) => \A x \in Members(r) :
        LET k == ShardOf(r, owner[x])
        IN  Value(r, x) = ShardTarget(r, k) * iteration
                            + (IF Launched THEN Cardinality(InShard(r, k) \cap Arrived(r)) ELSE 0)

\* One arriver carries a complete shard, and only one.
CarryInv ==
    \A w \in Worker : pc[w] = "combine" =>
        LET r == RowOf(w)
            k == ShardOf(r, w)
        IN  /\ TwoLevel(r)
            /\ InShard(r, k) \subseteq Arrived(r)
            /\ \A v \in Worker : Carries(v, r, k) => v = w

Uncounted(r) == build.publish = "solo" /\ EventTriggers(r) = 1

CountInv ==
    \A r \in Row :
        arrivals[r] = IF Uncounted(r) THEN 0
                      ELSE EventTriggers(r) * iteration
                             + (IF Launched THEN Cardinality(Heard(r)) ELSE 0)

EpochInv ==
    \A r \in Row :
        /\ epoch[r] <= iteration + 1
        /\ epoch[r] = iteration + 1 => Launched /\ Heard(r) = Speakers(r)

PublishInv ==
    \A w \in Worker : pc[w] = "publish" => Heard(RowOf(w)) = Speakers(RowOf(w))

FanInv ==
    /\ FanTypeOK
    /\ Standing
    /\ History
    /\ ShardInv
    /\ CarryInv
    /\ CountInv
    /\ EpochInv
    /\ PublishInv

-----------------------------------------------------------------------------
(***************************************************************************)
(* Facts about the tables and about one state.                             *)
(***************************************************************************)
LEMMA BuildFacts ==
    ASSUME FanTypeOK
    PROVE  /\ build.cluster \in BOOLEAN
           /\ build.shards \in Nat \ {0}
           /\ build.publish \in {"epoch", "solo", "red", "v3"}
           /\ owner \in [Task -> Worker]
           /\ \A x \in Task : owner[x] \in Worker
BY ShardAssumption DEF FanTypeOK

LEMMA NodeOrder ==
    ASSUME NEW x \in Task, NEW y \in Task
    PROVE  /\ ~NodeBefore(x, x)
           /\ NodeBefore(x, y) => ~NodeBefore(y, x) /\ x # y
           /\ NodeBefore(x, y) \/ NodeBefore(y, x) \/ x = y
           /\ \A z \in Task : NodeBefore(x, y) /\ NodeBefore(y, z) => NodeBefore(x, z)
<1>1. \A z \in Task : z.stage \in Int /\ z.logical \in Int
  BY TaskFields DEF Stage
<1>2. x.stage = y.stage /\ x.logical = y.logical => x = y
  BY TaskFields
<1> QED
  BY <1>1, <1>2 DEF NodeBefore

\* Rank 0 of a cluster is the one CTA of it whose rank is 0.
LEMMA HeadFacts ==
    ASSUME NEW w \in Worker
    PROVE  /\ Lead(w) \in Worker
           /\ Cluster(Lead(w)) = Cluster(w)
           /\ Lead(Lead(w)) = Lead(w)
           /\ Rank(w) = 0 <=> w = Lead(w)
           /\ Cluster(w) \in Nat /\ Cluster(w) <= w
           /\ \A v \in Worker : Cluster(v) = Cluster(w) => Lead(v) = Lead(w)
<1>1. w \in Nat /\ w < Grid /\ Grid \in Nat /\ ClusterDim \in Nat \ {0}
  BY ShardAssumption DEF Worker
<1>2. PICK c \in Nat, k \in Nat :
         c = Cluster(w) /\ k = Rank(w) /\ w = c * ClusterDim + k
  <2>1. w \div ClusterDim \in Nat /\ w % ClusterDim \in 0 .. (ClusterDim - 1)
        /\ w = (w \div ClusterDim) * ClusterDim + (w % ClusterDim)
    BY <1>1, Division
  <2>2. w % ClusterDim \in Nat
    BY <1>1, <2>1
  <2> QED
    BY <2>1, <2>2, Zenon DEF Cluster, Rank
<1>3. PICK h \in Nat : h = c * ClusterDim
  BY <1>1, <1>2, SMT
<1>9. w = h + k /\ k \in Nat
  <2>1. w = c * ClusterDim + k
    BY <1>2
  <2>2. w = h + k
    BY <1>3, <2>1, Zenon
  <2> QED
    BY <1>2, <2>2
<1>4. Lead(w) = h /\ h <= w
  <2>1. Lead(w) = h
    BY <1>2, <1>3 DEF Lead
  <2>2. h <= w
    BY <1>3, <1>9
  <2> QED
    BY <2>1, <2>2
<1>5. Lead(w) \in Worker
  BY <1>1, <1>3, <1>4 DEF Worker
<1>6. Cluster(h) = c
  <2>1. 0 \in 0 .. (ClusterDim - 1)
    BY <1>1
  <2>2. (c * ClusterDim + 0) \div ClusterDim = c
    BY <1>1, <1>2, <2>1, DivisionUnique
  <2>3. h = c * ClusterDim + 0
    BY <1>3
  <2> QED
    BY <2>2, <2>3 DEF Cluster
<1>7. c <= h
  BY <1>1, <1>3, SMT
<1>8. Rank(w) = 0 <=> w = Lead(w)
  <2>1. k = 0 <=> w = h
    BY <1>3, <1>9
  <2>2. Rank(w) = k /\ Lead(w) = h
    BY <1>2, <1>4
  <2> QED
    BY <2>1, <2>2
<1> QED
  BY <1>1, <1>2, <1>4, <1>5, <1>6, <1>7, <1>8 DEF Lead

LEMMA FirstClusterFacts ==
    ASSUME FanTypeOK, NEW r \in Row, NEW x \in Members(r)
    PROVE  /\ FirstCluster(r) \in Nat
           /\ FirstCluster(r) <= Cluster(owner[x])
<1> DEFINE C == {Cluster(owner[y]) : y \in Members(r)}
<1>1. \A y \in Members(r) : Cluster(owner[y]) \in Nat
  BY BuildFacts, MembersInTask, HeadFacts
<1>2. C \in SUBSET Nat /\ C # {}
  BY <1>1
<1>3. PICK m \in C : \A k \in C : m <= k
  <2> HIDE DEF C
  <2> QED
    BY <1>2, LeastNatural
<1>4. m \in C /\ \A y \in Members(r) : m <= Cluster(owner[y])
  BY <1>3
<1>5. FirstCluster(r) \in C /\ \A y \in Members(r) : FirstCluster(r) <= Cluster(owner[y])
  <2> HIDE DEF C
  <2> QED
    BY <1>4 DEF FirstCluster, C
<1> QED
  BY <1>2, <1>5

\* The device finds the shard the host tabulated, and it is in the table.
LEMMA ShardFacts ==
    ASSUME FanTypeOK, NEW r \in Row, TwoLevel(r), NEW x \in Members(r)
    PROVE  /\ ShardOf(r, owner[x]) \in 0 .. (Grid - 1)
           /\ <<r, ShardOf(r, owner[x])>> \in Shard
           /\ build.cluster => Cluster(owner[x]) = ShardOf(r, owner[x]) + FirstCluster(r)
<1>1. owner[x] \in Worker /\ owner[x] \in Nat /\ owner[x] < Grid /\ Grid \in Nat
  BY BuildFacts, MembersInTask, ShardAssumption DEF Worker
<1>2. CASE build.cluster
  <2>1. Cluster(owner[x]) \in Nat /\ Cluster(owner[x]) <= owner[x]
    BY <1>1, HeadFacts
  <2>2. FirstCluster(r) \in Nat /\ FirstCluster(r) <= Cluster(owner[x])
    BY FirstClusterFacts
  <2>3. ShardOf(r, owner[x]) = Cluster(owner[x]) - FirstCluster(r)
    BY <1>2 DEF ShardOf
  <2> QED
    BY <1>1, <2>1, <2>2, <2>3 DEF Shard
<1>3. CASE ~build.cluster
  <2>1. RawEventTriggers(r) \in Nat
    BY TriggersCountMembers, FS_CardinalityType
  <2>2. PICK m \in Nat \ {0} : m = Modulus(r)
    BY <1>3, <2>1, BuildFacts DEF Modulus, TwoLevel, ShardCount
  <2>3. owner[x] % m \in 0 .. (m - 1) /\ owner[x] % m <= owner[x]
    BY <1>1, <2>2, SMT
  <2>4. ShardOf(r, owner[x]) = owner[x] % m
    BY <1>3, <2>2 DEF ShardOf
  <2> QED
    BY <1>1, <1>3, <2>3, <2>4 DEF Shard
<1> QED
  BY <1>2, <1>3, BuildFacts

\* A consumer's target is the number of those that will speak to the row.
LEMMA SpeakersCounted ==
    ASSUME NEW r \in Row
    PROVE  /\ IsFiniteSet(Speakers(r))
           /\ Cardinality(Speakers(r)) = EventTriggers(r)
           /\ EventTriggers(r) \in Nat
<1>1. IsFiniteSet(Members(r)) /\ Cardinality(Members(r)) = RawEventTriggers(r)
  BY TriggersCountMembers
<1>2. IsFiniteSet(ShardSet(r))
  <2> DEFINE f == [x \in Members(r) |-> ShardOf(r, owner[x])]
  <2>1. f \in Surjection(Members(r), ShardSet(r))
    BY DEF Surjection, ShardSet
  <2> QED
    BY <1>1, <2>1, FS_Surjection
<1>3. Nonempty(r) = Cardinality(ShardSet(r))
  BY DEF Nonempty, ShardSet
<1>4. Cardinality(Speakers(r)) = EventTriggers(r) /\ IsFiniteSet(Speakers(r))
  BY <1>1, <1>2, <1>3 DEF Speakers, EventTriggers
<1> QED
  BY <1>4, FS_CardinalityType

LEMMA ShardCounted ==
    ASSUME NEW r \in Row, NEW k
    PROVE  /\ IsFiniteSet(InShard(r, k))
           /\ Cardinality(InShard(r, k)) = ShardTarget(r, k)
           /\ ShardTarget(r, k) \in Nat
<1>1. IsFiniteSet(Members(r)) /\ InShard(r, k) \in SUBSET Members(r)
  BY TriggersCountMembers DEF InShard
<1> QED
  BY <1>1, FS_Subset, FS_CardinalityType DEF InShard, ShardTarget

LEMMA RowOfHeld ==
    ASSUME FanTypeOK, Standing, NEW w \in Worker, rows[w] # {}
    PROVE  /\ RowOf(w) \in rows[w] /\ RowOf(w) \in Row
           /\ cur[w] \in Task /\ owner[cur[w]] = w /\ cur[w] \in Members(RowOf(w))
<1>1. cur[w] \in Task /\ owner[cur[w]] = w
  BY DEF Standing, Stands, FanTypeOK, Queue
<1>2. rows[w] \subseteq Row /\ rows[w] \subseteq NotifyRows(cur[w])
  BY DEF Standing, Stands, FanTypeOK
<1>4. \E r \in rows[w] : \A q \in rows[w] : q.group <= r.group
  <2>1. \A r \in rows[w] : r.group \in {WholeStage, Group(cur[w])}
    BY <1>2 DEF NotifyRows
  <2>2. PICK r \in rows[w] : TRUE
    OBVIOUS
  <2>3. CASE \E q \in rows[w] : q.group = Group(cur[w])
    BY <1>1, <2>1, <2>3, GroupIsNat DEF WholeStage
  <2>4. CASE \A q \in rows[w] : q.group # Group(cur[w])
    BY <2>1, <2>2, <2>4 DEF WholeStage
  <2> QED
    BY <2>3, <2>4
<1>5. RowOf(w) \in rows[w]
  BY <1>4 DEF RowOf
<1> QED
  BY <1>1, <1>2, <1>5 DEF Members


\* Once every speaker of a row has been heard, every member has arrived.
LEMMA HeardAll ==
    ASSUME FanTypeOK, NEW r \in Row, Heard(r) = Speakers(r)
    PROVE  Arrived(r) = Members(r) /\ Members(r) \subseteq finished
<1>1. Members(r) \subseteq Arrived(r)
  <2>1. CASE TwoLevel(r)
    <3> SUFFICES ASSUME NEW x \in Members(r)
                 PROVE  x \in Arrived(r)
      OBVIOUS
    <3> DEFINE k == ShardOf(r, owner[x])
    <3>1. k \in Heard(r)
      BY <2>1 DEF Speakers, ShardSet
    <3>2. x \in InShard(r, k)
      BY DEF InShard
    <3> QED
      BY <2>1, <3>1, <3>2 DEF Heard
  <2>2. CASE ~TwoLevel(r)
    BY <2>2 DEF Heard, Speakers
  <2> QED
    BY <2>1, <2>2
<1> QED
  BY <1>1 DEF Arrived

\* Nothing is heard that does not speak to the row.
LEMMA HeardFacts ==
    ASSUME NEW r \in Row
    PROVE  /\ Heard(r) \in SUBSET Speakers(r)
           /\ IsFiniteSet(Heard(r)) /\ Cardinality(Heard(r)) \in Nat
           /\ Cardinality(Heard(r)) <= EventTriggers(r)
           /\ Cardinality(Heard(r)) = EventTriggers(r) => Heard(r) = Speakers(r)
<1>1. Heard(r) \in SUBSET Speakers(r)
  BY DEF Heard, Speakers, Arrived
<1> QED
  BY <1>1, SpeakersCounted, FS_Subset, FS_CardinalityType

LEMMA ReadyIsComplete ==
    ASSUME FanInv, Launched, NEW r \in Row, EventReady(r)
    PROVE  Members(r) \subseteq finished
<1>1. /\ FanTypeOK /\ CountInv /\ EpochInv /\ iteration \in Nat /\ epoch[r] \in Nat
  BY DEF FanInv, FanTypeOK
<1>2. Heard(r) = Speakers(r)
  <2>1. CASE CountBased
    <3>1. PICK n \in Nat, t \in Nat : n = Cardinality(Heard(r)) /\ t = EventTriggers(r)
      BY HeardFacts, SpeakersCounted
    <3>2. n <= t /\ (n = t => Heard(r) = Speakers(r))
      BY <3>1, HeardFacts
    <3>3. arrivals[r] = t * iteration + n
      BY <1>1, <2>1, <3>1 DEF CountInv, Uncounted, CountBased
    <3>4. arrivals[r] >= t * (iteration + 1)
      BY <2>1, <3>1 DEF EventReady
    <3>5. n >= t
      BY <1>1, <3>1, <3>3, <3>4, SMT
    <3> QED
      BY <3>2, <3>5, <3>1
  <2>2. CASE ~CountBased
    <3>1. epoch[r] = iteration + 1
      BY <1>1, <2>2 DEF EpochInv, EventReady
    <3> QED
      BY <1>1, <3>1 DEF EpochInv
  <2> QED
    BY <2>1, <2>2
<1> QED
  BY <1>1, <1>2, HeardAll

LEMMA FanInv_RowMeansMembers ==
    ASSUME FanInv
    PROVE  RowMeansMembers
BY ReadyIsComplete DEF RowMeansMembers, Launched

\* A build with shards has arrivals that use them.
LEMMA ShardsUsed ==
    ASSUME ShardsAreUsed, FanTypeOK, NEW r \in Row, TwoLevel(r)
    PROVE  build.publish # "v3"
BY DEF ShardsAreUsed, FanTypeOK, TwoLevel, ShardCount

\* A CTA that has left its queue loop has run all of it and owes nothing, so
\* when all have, every row has heard everyone.
LEMMA AllDone ==
    ASSUME FanInv, Launched, \A w \in Worker : pc[w] = "done"
    PROVE  /\ finished = Task
           /\ \A r \in Row : Arrived(r) = Members(r) /\ Heard(r) = Speakers(r)
<1>1. FanTypeOK /\ Standing
  BY DEF FanInv
<1>2. \A x \in Task : x \in finished
  BY <1>1, BuildFacts DEF Standing, Stands, Queue
<1>3. finished = Task
  BY <1>1, <1>2 DEF FanTypeOK
<1>4. \A w \in Worker : rows[w] = {}
  BY <1>1 DEF Standing, Stands
<1>5. ASSUME NEW r \in Row
      PROVE  Arrived(r) = Members(r)
  BY <1>1, <1>2, <1>4, BuildFacts, MembersInTask DEF Arrived, Owes
<1>6. ASSUME NEW r \in Row
      PROVE  Heard(r) = Speakers(r)
  BY <1>5 DEF Heard, Speakers, InShard, Carries
<1> QED
  BY <1>3, <1>5, <1>6

-----------------------------------------------------------------------------
(***************************************************************************)
(* What a step leaves as it was.                                           *)
(***************************************************************************)
LEMMA TablesSame ==
    ASSUME UNCHANGED tableVars
    PROVE  /\ CountBased' <=> CountBased
           /\ \A w \in Worker : Queue(w)' = Queue(w)
           /\ \A r \in Row :
                /\ TwoLevel(r)' <=> TwoLevel(r)
                /\ Speakers(r)' = Speakers(r) /\ ShardSet(r)' = ShardSet(r)
                /\ EventTriggers(r)' = EventTriggers(r)
                /\ Uncounted(r)' <=> Uncounted(r)
                /\ FirstCluster(r)' = FirstCluster(r)
                /\ \A w : ShardOf(r, w)' = ShardOf(r, w)
                /\ \A k : InShard(r, k)' = InShard(r, k) /\ ShardTarget(r, k)' = ShardTarget(r, k)
<1>1. build' = build /\ owner' = owner
  BY DEF tableVars
<1>2. CountBased' <=> CountBased
  BY <1>1 DEF CountBased
<1>3. \A w \in Worker : Queue(w)' = Queue(w)
  BY <1>1 DEF Queue
<1>4. ASSUME NEW r \in Row
      PROVE  /\ TwoLevel(r)' <=> TwoLevel(r)
             /\ FirstCluster(r)' = FirstCluster(r)
             /\ \A w : ShardOf(r, w)' = ShardOf(r, w)
  <2>1. TwoLevel(r)' <=> TwoLevel(r)
    BY <1>1 DEF TwoLevel, ShardCount
  <2>2. FirstCluster(r)' = FirstCluster(r)
    BY <1>1 DEF FirstCluster
  <2>3. Modulus(r)' = Modulus(r)
    BY <1>1 DEF Modulus, ShardCount
  <2> QED
    BY <1>1, <2>1, <2>2, <2>3 DEF ShardOf
<1>5. ASSUME NEW r \in Row
      PROVE  /\ ShardSet(r)' = ShardSet(r)
             /\ \A k : InShard(r, k)' = InShard(r, k) /\ ShardTarget(r, k)' = ShardTarget(r, k)
             /\ Nonempty(r)' = Nonempty(r)
  BY <1>1, <1>4 DEF ShardSet, InShard, ShardTarget, Nonempty
<1>6. ASSUME NEW r \in Row
      PROVE  /\ Speakers(r)' = Speakers(r) /\ EventTriggers(r)' = EventTriggers(r)
             /\ Uncounted(r)' <=> Uncounted(r)
  BY <1>1, <1>4, <1>5 DEF Speakers, EventTriggers, Uncounted
<1> QED
  BY <1>2, <1>3, <1>4, <1>5, <1>6

LEMMA RowSame ==
    ASSUME NEW w, rows'[w] = rows[w]
    PROVE  RowOf(w)' = RowOf(w)
BY DEF RowOf

LEMMA HeardSame ==
    ASSUME UNCHANGED tableVars, NEW r \in Row, Arrived(r)' = Arrived(r),
           \A w \in Worker : \A k : Carries(w, r, k)' <=> Carries(w, r, k)
    PROVE  Heard(r)' = Heard(r)
<1>1. CASE TwoLevel(r)
  BY <1>1, TablesSame DEF Heard
<1>2. CASE ~TwoLevel(r)
  BY <1>2, TablesSame DEF Heard
<1> QED
  BY <1>1, <1>2

\* No arrival, at either level.
LEMMA Quiet ==
    ASSUME FanInv, UNCHANGED <<tableVars, launchVars, arrivals>>,
           \A r \in Row : Arrived(r)' = Arrived(r),
           \A r \in Row :
              \/ epoch'[r] = epoch[r]
              \/ epoch'[r] = iteration + 1 /\ Launched /\ Heard(r) = Speakers(r),
           \A w \in Worker :
              /\ pc'[w] = "combine" <=> pc[w] = "combine"
              /\ pc'[w] = "publish" => pc[w] = "publish"
              /\ pc'[w] \in {"combine", "publish"} => rows'[w] = rows[w],
           \A r \in Row : TwoLevel(r) => \A x \in Members(r) : Value(r, x)' = Value(r, x)
    PROVE  ShardInv' /\ CarryInv' /\ CountInv' /\ EpochInv' /\ PublishInv'
<1>1. /\ ShardInv /\ CarryInv /\ CountInv /\ EpochInv /\ PublishInv
      /\ iteration' = iteration /\ (Launched' <=> Launched) /\ arrivals' = arrivals
      /\ owner' = owner /\ iteration \in Nat
  BY DEF FanInv, launchVars, Launched, tableVars, FanTypeOK
<1>2. \A w \in Worker : pc'[w] \in {"combine", "publish"} => RowOf(w)' = RowOf(w)
  BY RowSame
<1>3. ASSUME NEW r \in Row, NEW w \in Worker, NEW k
      PROVE  Carries(w, r, k)' <=> Carries(w, r, k)
  BY <1>2, TablesSame DEF Carries
<1>4. \A r \in Row : Heard(r)' = Heard(r)
  BY <1>3, HeardSame
<1>5. ShardInv'
  <2> SUFFICES ASSUME NEW r \in Row, TwoLevel(r), NEW x \in Members(r)
               PROVE  (LET k == ShardOf(r, owner[x])
                       IN  Value(r, x) = ShardTarget(r, k) * iteration
                            + (IF Launched THEN Cardinality(InShard(r, k) \cap Arrived(r)) ELSE 0))'
    BY TablesSame DEF ShardInv
  <2> QED
    BY <1>1, TablesSame DEF ShardInv
<1>6. CarryInv'
  <2> SUFFICES ASSUME NEW w \in Worker, pc'[w] = "combine"
               PROVE  (LET r == RowOf(w)
                           k == ShardOf(r, w)
                       IN  /\ TwoLevel(r)
                           /\ InShard(r, k) \subseteq Arrived(r)
                           /\ \A v \in Worker : Carries(v, r, k) => v = w)'
    BY DEF CarryInv
  <2>1. PICK r : r = RowOf(w)
    OBVIOUS
  <2>2. r \in Row
    BY <2>1, RowOfHeld DEF FanInv, Standing, Stands
  <2>3. RowOf(w)' = r
    BY <1>2, <2>1
  <2>4. PICK k : k = ShardOf(r, w)
    OBVIOUS
  <2>5. /\ TwoLevel(r) /\ InShard(r, k) \subseteq Arrived(r)
        /\ \A v \in Worker : Carries(v, r, k) => v = w
    BY <1>1, <2>1, <2>4 DEF CarryInv
  <2>6. /\ TwoLevel(r)' /\ InShard(r, k)' \subseteq Arrived(r)' /\ ShardOf(r, w)' = k
        /\ \A v \in Worker : Carries(v, r, k)' => v = w
    BY <1>3, <2>2, <2>4, <2>5, TablesSame
  <2> QED
    BY <2>3, <2>6
<1>7. CountInv'
  BY <1>1, <1>4, TablesSame DEF CountInv
<1>8. EpochInv'
  BY <1>1, <1>4, TablesSame DEF EpochInv
<1>9. PublishInv'
  <2> SUFFICES ASSUME NEW w \in Worker, pc'[w] = "publish"
               PROVE  (Heard(RowOf(w)) = Speakers(RowOf(w)))'
    BY DEF PublishInv
  <2>1. PICK r : r = RowOf(w)
    OBVIOUS
  <2>2. r \in Row /\ Heard(r) = Speakers(r)
    BY <1>1, <2>1, RowOfHeld DEF FanInv, Standing, Stands, PublishInv
  <2>3. RowOf(w)' = r
    BY <1>2, <2>1
  <2>4. Heard(r)' = Speakers(r)'
    BY <1>4, <2>2, TablesSame
  <2> QED
    BY <2>3, <2>4
<1> QED
  BY <1>5, <1>6, <1>7, <1>8, <1>9


LEMMA ValueSame ==
    ASSUME FanTypeOK, UNCHANGED <<tableVars, launchVars, global, local>>,
           build.cluster => \A v \in Worker :
              pc'[v] \in {"load", "done"} <=> pc[v] \in {"load", "done"},
           NEW r \in Row, NEW x \in Members(r)
    PROVE  Value(r, x)' = Value(r, x)
<1>1. owner[x] \in Worker /\ Lead(owner[x]) \in Worker
  BY BuildFacts, MembersInTask, HeadFacts
<1>2. owner' = owner /\ build' = build /\ ShardOf(r, owner[x])' = ShardOf(r, owner[x])
  BY DEF tableVars, ShardOf, FirstCluster, Modulus, ShardCount
<1>3. Fetched(owner[x])' <=> Fetched(owner[x])
  BY <1>1, <1>2 DEF Fetched, Launched, launchVars
<1> QED
  BY <1>2, <1>3 DEF Value

\* A CTA moves inside its queue loop, or out of it where there is no barrier.
LEMMA WorkerKeeps ==
    ASSUME FanInv, NEW w \in Worker, NEW q \in Busy \cup {"done"}, build.cluster => q \in Busy,
           pc[w] \in Busy, pc' = [pc EXCEPT ![w] = q],
           UNCHANGED <<tableVars, launchVars>>,
           cur' \in [Worker -> Task \cup {NoTask}], rows' \in [Worker -> SUBSET Row],
           \A v \in Worker : v # w => cur'[v] = cur[v] /\ rows'[v] = rows[v],
           finished' \subseteq Task, finished \subseteq finished',
           \A x \in Task : owner[x] # w => (x \in finished' <=> x \in finished),
           global' \in [Shard -> Nat], local' \in [Shard -> Nat],
           arrivals' \in [Row -> Nat], epoch' \in [Row -> Nat],
           Stands(w)',
           \A x \in Queue(w) : x \in finished' <=>
              /\ cur'[w] # NoTask /\ ~NodeBefore(cur'[w], x)
              /\ x = cur'[w] => q \notin {"wait", "run"}
    PROVE  /\ FanTypeOK' /\ Standing' /\ History'
           /\ Launched /\ Launched'
           /\ pc'[w] = q /\ \A v \in Worker : v # w => pc'[v] = pc[v]
           /\ build.cluster => \A v \in Worker :
                pc'[v] \in {"load", "done"} <=> pc[v] \in {"load", "done"}
           /\ \A r \in Row : \A x \in Members(r) : owner[x] # w =>
                (x \in finished' /\ ~Owes(x, r)' <=> x \in finished /\ ~Owes(x, r))
<1>1. /\ FanTypeOK /\ Standing /\ History /\ pc \in [Worker -> PC]
      /\ build' = build /\ owner' = owner /\ status' = status /\ iteration' = iteration
  BY DEF FanInv, FanTypeOK, tableVars, launchVars
<1>2. q \in PC /\ pc' \in [Worker -> PC] /\ pc'[w] = q
      /\ \A v \in Worker : v # w => pc'[v] = pc[v]
  BY <1>1 DEF PC, Busy
<1>3. FanTypeOK'
  BY <1>1, <1>2 DEF FanTypeOK
<1>4. Launched /\ Launched'
  BY <1>1 DEF Standing, Stands, Launched, Busy
<1>5. Together'
  BY <1>1, <1>2, HeadFacts DEF Standing, Together
<1>6. ASSUME NEW v \in Worker, v # w
      PROVE  Stands(v)'
  <2>1. Stands(v)
    BY <1>1 DEF Standing
  <2>2. pc'[v] = pc[v] /\ cur'[v] = cur[v] /\ rows'[v] = rows[v]
    BY <1>2, <1>6
  <2> QED
    BY <1>1, <1>4, <2>1, <2>2 DEF Stands, Launched, Queue
<1>7. Standing'
  BY <1>5, <1>6 DEF Standing
<1>8. History'
  <2> SUFFICES ASSUME NEW x \in Task
               PROVE  x \in finished' <=>
                         /\ cur'[owner[x]] # NoTask /\ ~NodeBefore(cur'[owner[x]], x)
                         /\ x = cur'[owner[x]] => pc'[owner[x]] \notin {"wait", "run"}
    BY <1>1, <1>4 DEF History
  <2>1. PICK v \in Worker : v = owner[x]
    BY <1>1, BuildFacts
  <2>2. CASE v = w
    BY <1>2, <2>1, <2>2 DEF Queue
  <2>3. CASE v # w
    BY <1>1, <1>2, <1>4, <2>1, <2>3 DEF History
  <2> QED
    BY <2>2, <2>3
<1>9. build.cluster => \A v \in Worker :
                pc'[v] \in {"load", "done"} <=> pc[v] \in {"load", "done"}
  BY <1>2 DEF Busy
<1>10. ASSUME NEW r \in Row, NEW x \in Members(r), owner[x] # w
       PROVE  x \in finished' /\ ~Owes(x, r)' <=> x \in finished /\ ~Owes(x, r)
  <2>1. PICK v \in Worker : v = owner[x] /\ x \in Task
    BY <1>1, BuildFacts, MembersInTask
  <2>2. pc'[v] = pc[v] /\ cur'[v] = cur[v] /\ rows'[v] = rows[v] /\ v # w
    BY <1>2, <1>10, <2>1
  <2>3. RowOf(v)' = RowOf(v)
    BY <2>2, RowSame
  <2>4. Owes(x, r) <=> x = cur[v] /\ r \in rows[v] /\ (pc[v] \in {"combine", "publish"} => r # RowOf(v))
    BY <2>1 DEF Owes
  <2>5. Owes(x, r)' <=> x = cur'[v] /\ r \in rows'[v]
                        /\ (pc'[v] \in {"combine", "publish"} => r # RowOf(v)')
    BY <1>1, <2>1 DEF Owes
  <2> QED
    BY <1>10, <2>1, <2>2, <2>3, <2>4, <2>5
<1> QED
  BY <1>2, <1>3, <1>4, <1>7, <1>8, <1>9, <1>10

LEMMA ArrivedSame ==
    ASSUME NEW r \in Row,
           \A x \in Members(r) :
              x \in finished' /\ ~Owes(x, r)' <=> x \in finished /\ ~Owes(x, r)
    PROVE  Arrived(r)' = Arrived(r)
BY DEF Arrived

\* A step that arrives nowhere: what is left to check of it.
LEMMA QuietWorker ==
    ASSUME FanInv, NEW w \in Worker, NEW q \in Busy \cup {"done"}, build.cluster => q \in Busy,
           pc[w] \in Busy \ {"combine", "publish"}, q \notin {"combine", "publish"},
           pc' = [pc EXCEPT ![w] = q],
           UNCHANGED <<tableVars, launchVars, counterVars>>,
           cur' \in [Worker -> Task \cup {NoTask}], rows' \in [Worker -> SUBSET Row],
           \A v \in Worker : v # w => cur'[v] = cur[v] /\ rows'[v] = rows[v],
           finished' \subseteq Task, finished \subseteq finished',
           \A x \in Task : owner[x] # w => (x \in finished' <=> x \in finished),
           Stands(w)',
           \A x \in Queue(w) : x \in finished' <=>
              /\ cur'[w] # NoTask /\ ~NodeBefore(cur'[w], x)
              /\ x = cur'[w] => q \notin {"wait", "run"},
           \A x \in Queue(w) : \A r \in NotifyRows(x) :
              x \in finished' /\ ~(x = cur'[w] /\ r \in rows'[w])
                <=> x \in finished /\ ~(x = cur[w] /\ r \in rows[w])
    PROVE  FanInv'
<1>1. FanTypeOK /\ UNCHANGED <<global, local, arrivals, epoch>> /\ owner' = owner
  BY DEF FanInv, counterVars, tableVars
<1>2. /\ FanTypeOK' /\ Standing' /\ History'
      /\ pc'[w] = q /\ \A v \in Worker : v # w => pc'[v] = pc[v]
      /\ build.cluster => \A v \in Worker :
                pc'[v] \in {"load", "done"} <=> pc[v] \in {"load", "done"}
      /\ \A r \in Row : \A x \in Members(r) : owner[x] # w =>
                (x \in finished' /\ ~Owes(x, r)' <=> x \in finished /\ ~Owes(x, r))
  BY <1>1, WorkerKeeps DEF FanTypeOK
<1>3. ASSUME NEW r \in Row
      PROVE  Arrived(r)' = Arrived(r)
  <2>1. ASSUME NEW x \in Members(r), owner[x] = w
        PROVE  x \in finished' /\ ~Owes(x, r)' <=> x \in finished /\ ~Owes(x, r)
    <3>1. x \in Queue(w) /\ r \in NotifyRows(x)
      BY <2>1, MembersInTask DEF Queue, Members
    <3>2. Owes(x, r) <=> x = cur[w] /\ r \in rows[w]
      BY <2>1 DEF Owes
    <3>3. Owes(x, r)' <=> x = cur'[w] /\ r \in rows'[w]
      BY <1>1, <1>2, <2>1 DEF Owes
    <3> QED
      BY <3>1, <3>2, <3>3
  <2> QED
    BY <1>2, <2>1, ArrivedSame
<1>4. \A r \in Row : TwoLevel(r) => \A x \in Members(r) : Value(r, x)' = Value(r, x)
  BY <1>1, <1>2, ValueSame
<1>5. ShardInv' /\ CarryInv' /\ CountInv' /\ EpochInv' /\ PublishInv'
  <2>1. UNCHANGED <<tableVars, launchVars, arrivals>>
    BY <1>1
  <2>2. \A r \in Row :
          \/ epoch'[r] = epoch[r]
          \/ epoch'[r] = iteration + 1 /\ Launched /\ Heard(r) = Speakers(r)
    BY <1>1
  <2>3. \A v \in Worker :
          /\ pc'[v] = "combine" <=> pc[v] = "combine"
          /\ pc'[v] = "publish" => pc[v] = "publish"
          /\ pc'[v] \in {"combine", "publish"} => rows'[v] = rows[v]
    BY <1>2
  <2> QED
    BY <1>3, <1>4, <2>1, <2>2, <2>3, Quiet, Zenon
<1> QED
  BY <1>2, <1>5 DEF FanInv


-----------------------------------------------------------------------------
(***************************************************************************)
(* One step of a CTA that arrives nowhere.                                 *)
(***************************************************************************)
\* Where a CTA stands, and what its queue has run, in a state of a launch.
LEMMA WorkerFacts ==
    ASSUME FanInv, NEW w \in Worker, pc[w] # "done"
    PROVE  /\ FanTypeOK /\ Launched /\ Stands(w) /\ w \in Worker
           /\ cur[w] \in Task \cup {NoTask} /\ (cur[w] # NoTask => cur[w] \in Task)
           /\ owner \in [Task -> Worker]
           /\ \A x \in Queue(w) : x \in finished <=>
                /\ cur[w] # NoTask /\ ~NodeBefore(cur[w], x)
                /\ x = cur[w] => pc[w] \notin {"wait", "run"}
           /\ rows \in [Worker -> SUBSET Row] /\ cur \in [Worker -> Task \cup {NoTask}]
           /\ finished \subseteq Task /\ pc \in [Worker -> PC]
<1>1. FanTypeOK /\ Standing /\ History
  BY DEF FanInv
<1>2. Stands(w) /\ Launched
  BY <1>1 DEF Standing, Stands
<1> QED
  BY <1>1, <1>2, BuildFacts DEF FanTypeOK, History, Queue

LEMMA NextTask_FanInv ==
    ASSUME FanInv, NEW w \in Worker, NextTask(w)
    PROVE  FanInv'
<1>1. pc[w] = "next" /\ pc' = [pc EXCEPT ![w] = "wait"]
      /\ UNCHANGED <<tableVars, launchVars, counterVars, rows, finished>>
  BY DEF NextTask
<1>2. PICK x \in Queue(w) :
          /\ cur[w] = NoTask \/ NodeBefore(cur[w], x)
          /\ \A y \in Queue(w) :
                NodeBefore(y, x) => cur[w] # NoTask /\ ~NodeBefore(cur[w], y)
          /\ cur' = [cur EXCEPT ![w] = x]
  BY DEF NextTask
<1>3. /\ FanTypeOK /\ Launched /\ Stands(w) /\ x \in Task /\ x # NoTask
      /\ cur[w] \in Task \cup {NoTask} /\ (cur[w] # NoTask => cur[w] \in Task)
      /\ rows \in [Worker -> SUBSET Row] /\ cur \in [Worker -> Task \cup {NoTask}]
      /\ finished \subseteq Task
      /\ \A y \in Queue(w) : y \in Task /\ (y \in finished <=>
                cur[w] # NoTask /\ ~NodeBefore(cur[w], y))
  <2>1. x \in Task /\ x # NoTask
    BY <1>2, TaskFields DEF Queue, NoTask, Stage
  <2> QED
    BY <1>1, <2>1, WorkerFacts DEF Queue
<1>4. /\ cur' \in [Worker -> Task \cup {NoTask}] /\ cur'[w] = x
      /\ \A v \in Worker : v # w => cur'[v] = cur[v]
  BY <1>2, <1>3
<1>5. rows[w] = {}
  BY <1>1, <1>3 DEF Stands
<1>6. ASSUME NEW y \in Queue(w)
      PROVE  y \in finished <=> ~NodeBefore(x, y) /\ y # x
  <2>1. y \in Task
    BY <1>3
  <2>2. y \in finished <=> cur[w] # NoTask /\ ~NodeBefore(cur[w], y)
    BY <1>3
  <2>3. NodeBefore(y, x) <=> ~NodeBefore(x, y) /\ y # x
    BY <1>3, <2>1, NodeOrder
  <2>4. cur[w] # NoTask /\ ~NodeBefore(cur[w], y) => NodeBefore(y, x)
    BY <1>2, <1>3, <2>1, NodeOrder
  <2> QED
    BY <1>2, <2>2, <2>3, <2>4
<1>7. pc'[w] = "wait" /\ rows' = rows
  BY <1>1, <1>3 DEF FanTypeOK
<1>8. Stands(w)'
  <2>1. Launched' /\ build' = build /\ Queue(w)' = Queue(w)
    BY <1>1, <1>3, TablesSame DEF Launched, launchVars, tableVars
  <2> QED
    BY <1>2, <1>3, <1>4, <1>5, <1>7, <2>1 DEF Stands, Busy
<1>9. /\ pc[w] \in Busy \ {"combine", "publish"} /\ "wait" \in Busy \cup {"done"}
      /\ "wait" \notin {"combine", "publish"} /\ "wait" \in Busy
  BY <1>1 DEF Busy
<1>10. \A y \in Queue(w) : \A r \in NotifyRows(y) :
              y \in finished' /\ ~(y = cur'[w] /\ r \in rows'[w])
                <=> y \in finished /\ ~(y = cur[w] /\ r \in rows[w])
  BY <1>1, <1>5, <1>7
<1>11. \A y \in Queue(w) : y \in finished' <=>
              /\ cur'[w] # NoTask /\ ~NodeBefore(cur'[w], y)
              /\ y = cur'[w] => "wait" \notin {"wait", "run"}
  BY <1>1, <1>3, <1>4, <1>6
<1> QED
  BY <1>1, <1>3, <1>4, <1>7, <1>8, <1>9, <1>10, <1>11, QuietWorker

LEMMA QueueEmpty_FanInv ==
    ASSUME FanInv, NEW w \in Worker, QueueEmpty(w)
    PROVE  FanInv'
<1>1. PICK q : q = IF build.cluster THEN "close" ELSE "done"
  OBVIOUS
<1>2. pc[w] = "next" /\ pc' = [pc EXCEPT ![w] = q]
      /\ UNCHANGED <<tableVars, launchVars, counterVars, cur, rows, finished>>
  BY <1>1 DEF QueueEmpty
<1>3. /\ FanTypeOK /\ Launched /\ Stands(w)
      /\ rows \in [Worker -> SUBSET Row] /\ cur \in [Worker -> Task \cup {NoTask}]
      /\ finished \subseteq Task /\ pc \in [Worker -> PC]
      /\ \A y \in Queue(w) : y \in finished <=>
                cur[w] # NoTask /\ ~NodeBefore(cur[w], y)
  BY <1>2, WorkerFacts
<1>4. Queue(w) \subseteq finished
  BY <1>3 DEF QueueEmpty
<1>5. pc'[w] = q
  BY <1>2, <1>3
<1>6. Stands(w)'
  <2>1. Launched' /\ build' = build /\ Queue(w)' = Queue(w)
    BY <1>2, <1>3, TablesSame DEF Launched, launchVars, tableVars
  <2> QED
    BY <1>1, <1>2, <1>3, <1>4, <1>5, <2>1 DEF Stands, Busy
<1>7. /\ q \in Busy \cup {"done"} /\ (build.cluster => q \in Busy)
      /\ pc[w] \in Busy \ {"combine", "publish"}
      /\ q \notin {"combine", "publish"} /\ q \notin {"wait", "run"}
  BY <1>1, <1>2 DEF Busy
<1> QED
  BY <1>2, <1>3, <1>6, <1>7, QuietWorker

LEMMA Wait_FanInv ==
    ASSUME FanInv, NEW w \in Worker, WaitTaskDependencies(w)
    PROVE  FanInv'
<1>2. pc[w] = "wait" /\ pc' = [pc EXCEPT ![w] = "run"]
      /\ UNCHANGED <<tableVars, launchVars, counterVars, cur, rows, finished>>
  BY DEF WaitTaskDependencies
<1>3. /\ FanTypeOK /\ Launched /\ Stands(w)
      /\ rows \in [Worker -> SUBSET Row] /\ cur \in [Worker -> Task \cup {NoTask}]
      /\ finished \subseteq Task /\ pc \in [Worker -> PC]
      /\ \A x \in Queue(w) : x \in finished <=>
                /\ cur[w] # NoTask /\ ~NodeBefore(cur[w], x)
                /\ x = cur[w] => pc[w] \notin {"wait", "run"}
  BY <1>2, WorkerFacts
<1>5. pc'[w] = "run"
  BY <1>2, <1>3
<1>6. Stands(w)'
  <2>1. Launched' /\ build' = build /\ Queue(w)' = Queue(w)
    BY <1>2, <1>3, TablesSame DEF Launched, launchVars, tableVars
  <2> QED
    BY <1>2, <1>3, <1>5, <2>1 DEF Stands, Busy
<1>7. /\ "run" \in Busy /\ pc[w] \in Busy \ {"combine", "publish"}
      /\ "run" \notin {"combine", "publish"} 
  BY <1>2 DEF Busy
<1> QED
  BY <1>2, <1>3, <1>6, <1>7, QuietWorker

LEMMA NotifyDone_FanInv ==
    ASSUME FanInv, NEW w \in Worker, NotifyDone(w)
    PROVE  FanInv'
<1>2. pc[w] = "notify" /\ rows[w] = {} /\ pc' = [pc EXCEPT ![w] = "next"]
      /\ UNCHANGED <<tableVars, launchVars, counterVars, cur, rows, finished>>
  BY DEF NotifyDone
<1>3. /\ FanTypeOK /\ Launched /\ Stands(w)
      /\ rows \in [Worker -> SUBSET Row] /\ cur \in [Worker -> Task \cup {NoTask}]
      /\ finished \subseteq Task /\ pc \in [Worker -> PC]
      /\ \A x \in Queue(w) : x \in finished <=>
                /\ cur[w] # NoTask /\ ~NodeBefore(cur[w], x)
                /\ x = cur[w] => pc[w] \notin {"wait", "run"}
  BY <1>2, WorkerFacts
<1>5. pc'[w] = "next"
  BY <1>2, <1>3
<1>6. Stands(w)'
  <2>1. Launched' /\ build' = build /\ Queue(w)' = Queue(w)
    BY <1>2, <1>3, TablesSame DEF Launched, launchVars, tableVars
  <2> QED
    BY <1>2, <1>3, <1>5, <2>1 DEF Stands, Busy
<1>7. /\ "next" \in Busy /\ pc[w] \in Busy \ {"combine", "publish"}
      /\ "next" \notin {"combine", "publish", "wait", "run"} /\ pc[w] \notin {"wait", "run"}
  BY <1>2 DEF Busy
<1> QED
  BY <1>2, <1>3, <1>6, <1>7, QuietWorker

\* The task that ends owes all its rows.
LEMMA RunTask_FanInv ==
    ASSUME FanInv, NEW w \in Worker, RunTask(w)
    PROVE  FanInv'
<1>2. /\ pc[w] = "run" /\ pc' = [pc EXCEPT ![w] = "notify"]
      /\ finished' = finished \cup {cur[w]} /\ rows' = [rows EXCEPT ![w] = NotifyRows(cur[w])]
      /\ UNCHANGED <<tableVars, launchVars, counterVars, cur>>
  BY DEF RunTask
<1>3. /\ FanTypeOK /\ Launched /\ Stands(w) /\ owner \in [Task -> Worker]
      /\ rows \in [Worker -> SUBSET Row] /\ cur \in [Worker -> Task \cup {NoTask}]
      /\ finished \subseteq Task /\ pc \in [Worker -> PC]
      /\ \A x \in Queue(w) : x \in finished <=>
                /\ cur[w] # NoTask /\ ~NodeBefore(cur[w], x)
                /\ x = cur[w] => pc[w] \notin {"wait", "run"}
  BY <1>2, WorkerFacts
<1>4. cur[w] \in Queue(w) /\ cur[w] \in Task /\ owner[cur[w]] = w /\ cur[w] \notin finished
      /\ cur[w] # NoTask
  BY <1>2, <1>3 DEF Stands, Queue
<1>5. /\ pc'[w] = "notify" /\ rows'[w] = NotifyRows(cur[w]) /\ rows' \in [Worker -> SUBSET Row]
      /\ \A v \in Worker : v # w => rows'[v] = rows[v]
      /\ cur' = cur
  <2>1. NotifyRows(cur[w]) \in SUBSET Row
    BY DEF NotifyRows
  <2> QED
    BY <1>2, <1>3, <2>1
<1>6. Stands(w)'
  <2>1. Launched' /\ build' = build /\ Queue(w)' = Queue(w)
    BY <1>2, <1>3, TablesSame DEF Launched, launchVars, tableVars
  <2> QED
    BY <1>2, <1>3, <1>4, <1>5, <2>1 DEF Stands, Busy
<1>7. /\ "notify" \in Busy /\ pc[w] \in Busy \ {"combine", "publish"}
      /\ "notify" \notin {"combine", "publish", "wait", "run"}
  BY <1>2 DEF Busy
<1>8. \A x \in Queue(w) : x \in finished' <=>
              /\ cur'[w] # NoTask /\ ~NodeBefore(cur'[w], x)
              /\ x = cur'[w] => "notify" \notin {"wait", "run"}
  BY <1>2, <1>3, <1>4, <1>5, NodeOrder
<1>9. \A x \in Queue(w) : \A r \in NotifyRows(x) :
              x \in finished' /\ ~(x = cur'[w] /\ r \in rows'[w])
                <=> x \in finished /\ ~(x = cur[w] /\ r \in rows[w])
  BY <1>2, <1>4, <1>5
<1>10. finished' \subseteq Task /\ finished \subseteq finished'
       /\ \A x \in Task : owner[x] # w => (x \in finished' <=> x \in finished)
  BY <1>2, <1>3, <1>4
<1>11. /\ UNCHANGED <<tableVars, launchVars, counterVars>> /\ pc' = [pc EXCEPT ![w] = "notify"]
       /\ cur' \in [Worker -> Task \cup {NoTask}]
       /\ \A v \in Worker : v # w => cur'[v] = cur[v] /\ rows'[v] = rows[v]
  BY <1>2, <1>3, <1>5
<1> QED
  BY <1>5, <1>6, <1>7, <1>8, <1>9, <1>10, <1>11, QuietWorker


-----------------------------------------------------------------------------
(***************************************************************************)
(* The first level: an arrival at a shard.                                 *)
(***************************************************************************)
\* While a CTA is in its queue loop the counters of its cluster are fetched.
LEMMA CounterOfShard ==
    ASSUME FanInv, NEW w \in Worker, pc[w] \in Busy, NEW r \in Row, TwoLevel(r),
           NEW x \in Members(r), NEW k, k = ShardOf(r, w), ShardOf(r, owner[x]) = k,
           NEW z \in Members(r), owner[z] = w
    PROVE  Value(r, x) = ShardCounter(<<r, k>>)
<1>1. FanTypeOK /\ Launched /\ Together
  BY WorkerFacts DEF FanInv, Standing, Busy
<1>2. owner[x] \in Worker
  BY <1>1, BuildFacts, MembersInTask
<1>3. CASE build.cluster
  <2>1. Cluster(owner[x]) = ShardOf(r, owner[x]) + FirstCluster(r)
    BY <1>1, <1>3, ShardFacts
  <2>2. Cluster(w) = ShardOf(r, w) + FirstCluster(r)
    BY <1>1, <1>3, ShardFacts
  <2>3. Lead(owner[x]) = Lead(w)
    BY <1>2, <2>1, <2>2, HeadFacts
  <2>4. pc[Lead(w)] \in Busy
    BY <1>1, <1>3 DEF Together
  <2>5. Fetched(owner[x])
    BY <1>1, <1>3, <2>3, <2>4 DEF Fetched, Busy
  <2> QED
    BY <1>3, <2>5 DEF Value, ShardCounter
<1>4. CASE ~build.cluster
  BY <1>4 DEF Value, ShardCounter, Fetched
<1> QED
  BY <1>3, <1>4

\* What an arrival of w at shard k of row r does, for its task x.
ShardArrival(w, r, k, x) ==
    /\ FanTypeOK' /\ Standing' /\ History' /\ Launched /\ Launched'
    /\ UNCHANGED <<tableVars, launchVars, arrivals, epoch>>
    /\ owner[x] = w /\ x \in Members(r) /\ TwoLevel(r)
    /\ pc[w] = "notify" /\ pc'[w] \in {"combine", "notify"}
    /\ \A v \in Worker : v # w => pc'[v] = pc[v] /\ rows'[v] = rows[v]
    /\ pc'[w] = "combine" => rows'[w] = rows[w]
    /\ x \notin Arrived(r) /\ Arrived(r)' = Arrived(r) \cup {x}
    /\ \A q \in Row : q # r => Arrived(q)' = Arrived(q)
    /\ pc'[w] = "combine" <=>
          ShardCounter(<<r, k>>) + 1 = ShardTarget(r, k) * (iteration + 1)
    /\ build.cluster => \A v \in Worker :
          pc'[v] \in {"load", "done"} <=> pc[v] \in {"load", "done"}

LEMMA ArriveShard_Keeps ==
    ASSUME FanInv, NEW w \in Worker, ArriveShard(w), NEW r \in Row, r = RowOf(w),
           NEW k, k = ShardOf(r, w), NEW x \in Task, x = cur[w]
    PROVE  ShardArrival(w, r, k, x)
<1> DEFINE last == ShardCounter(<<r, k>>) + 1 = ShardTarget(r, k) * (iteration + 1)
<1>1. /\ pc[w] = "notify" /\ rows[w] # {} /\ TwoLevel(r)
      /\ CountShard(<<r, k>>)
      /\ IF last THEN pc' = [pc EXCEPT ![w] = "combine"] /\ rows' = rows
         ELSE rows' = [rows EXCEPT ![w] = rows[w] \ {r}] /\ pc' = pc
      /\ UNCHANGED <<tableVars, launchVars, arrivals, epoch, cur, finished>>
  BY DEF ArriveShard, ArrivesAtShard, RowDone
<1> HIDE DEF last
<1>2. /\ FanTypeOK /\ Launched /\ Stands(w) /\ owner \in [Task -> Worker]
      /\ rows \in [Worker -> SUBSET Row] /\ cur \in [Worker -> Task \cup {NoTask}]
      /\ finished \subseteq Task /\ pc \in [Worker -> PC] /\ Standing
      /\ \A y \in Queue(w) : y \in finished <=>
                /\ cur[w] # NoTask /\ ~NodeBefore(cur[w], y)
                /\ y = cur[w] => pc[w] \notin {"wait", "run"}
  BY <1>1, WorkerFacts DEF FanInv
<1>3. r \in rows[w] /\ owner[x] = w /\ x \in Members(r) /\ x \in Queue(w)
      /\ x # NoTask
  BY <1>1, <1>2, RowOfHeld DEF Stands, Queue
<1>4. PICK q \in {"combine", "notify"} : q = IF last THEN "combine" ELSE "notify"
  OBVIOUS
<1>5. /\ pc' = [pc EXCEPT ![w] = q] /\ rows' \in [Worker -> SUBSET Row]
      /\ \A v \in Worker : v # w => rows'[v] = rows[v]
      /\ rows'[w] = IF last THEN rows[w] ELSE rows[w] \ {r}
      /\ pc'[w] = q
  <2>1. CASE last
    BY <1>1, <1>2, <1>4, <2>1
  <2>2. CASE ~last
    <3>1. pc' = pc /\ pc[w] = q /\ rows' = [rows EXCEPT ![w] = rows[w] \ {r}]
      BY <1>1, <1>4, <2>2
    <3>2. pc' = [pc EXCEPT ![w] = q]
      BY <1>2, <3>1
    <3>3. /\ rows' \in [Worker -> SUBSET Row] /\ rows'[w] = rows[w] \ {r}
          /\ \A v \in Worker : v # w => rows'[v] = rows[v]
      BY <1>2, <3>1
    <3> QED
      BY <2>2, <3>1, <3>2, <3>3
  <2> QED
    BY <2>1, <2>2
<1>6. <<r, k>> \in Shard
  BY <1>1, <1>2, <1>3, ShardFacts
<1>7. global' \in [Shard -> Nat] /\ local' \in [Shard -> Nat]
  <2>1. global \in [Shard -> Nat] /\ local \in [Shard -> Nat]
    BY <1>2 DEF FanTypeOK
  <2>2. PICK i \in Shard : i = <<r, k>>
    BY <1>6
  <2>3. \/ local' = [local EXCEPT ![i] = @ + 1] /\ global' = global
        \/ global' = [global EXCEPT ![i] = @ + 1] /\ local' = local
    BY <1>1, <2>2 DEF CountShard
  <2> QED
    BY <2>1, <2>2, <2>3
<1>8. Stands(w)'
  <2>1. Launched' /\ build' = build /\ Queue(w)' = Queue(w)
    BY <1>1, <1>2, TablesSame DEF Launched, launchVars, tableVars
  <2> QED
    BY <1>1, <1>2, <1>3, <1>4, <1>5, <2>1 DEF Stands, Busy
<1>9. /\ q \in Busy /\ pc[w] \in Busy /\ q \notin {"wait", "run"} /\ pc[w] \notin {"wait", "run"}
  BY <1>1 DEF Busy
<1>10. arrivals' \in [Row -> Nat] /\ epoch' \in [Row -> Nat]
  BY <1>1, <1>2 DEF FanTypeOK
<1>11. \A y \in Queue(w) : y \in finished' <=>
              /\ cur'[w] # NoTask /\ ~NodeBefore(cur'[w], y)
              /\ y = cur'[w] => q \notin {"wait", "run"}
  BY <1>1, <1>2, <1>9
<1>12. /\ FanTypeOK' /\ Standing' /\ History' /\ Launched /\ Launched'
       /\ \A v \in Worker : v # w => pc'[v] = pc[v]
       /\ build.cluster => \A v \in Worker :
                pc'[v] \in {"load", "done"} <=> pc[v] \in {"load", "done"}
       /\ \A p \in Row : \A y \in Members(p) : owner[y] # w =>
                (y \in finished' /\ ~Owes(y, p)' <=> y \in finished /\ ~Owes(y, p))
  <2>1. cur' \in [Worker -> Task \cup {NoTask}] /\ finished' \subseteq Task /\ finished \subseteq finished'
        /\ (\A v \in Worker : v # w => cur'[v] = cur[v] /\ rows'[v] = rows[v])
        /\ (\A y \in Task : owner[y] # w => (y \in finished' <=> y \in finished))
    BY <1>1, <1>2, <1>5
  <2> QED
    BY <1>1, <1>5, <1>7, <1>8, <1>9, <1>10, <1>11, <2>1, WorkerKeeps
<1>13. owner' = owner /\ cur' = cur /\ finished' = finished
  BY <1>1 DEF tableVars
<1>14. x \in finished
  BY <1>1, <1>2, <1>3, NodeOrder
<1>15. ASSUME NEW p \in Row, NEW y \in Members(p), owner[y] = w
       PROVE  /\ Owes(y, p) <=> y = x /\ p \in rows[w]
              /\ Owes(y, p)' <=> y = x /\ p \in rows[w] /\ p # r
  <2>1. Owes(y, p) <=> y = x /\ p \in rows[w]
    BY <1>1, <1>15 DEF Owes
  <2>2. CASE last
    <3>1. RowOf(w)' = r /\ q = "combine" /\ rows'[w] = rows[w]
      BY <1>1, <1>4, <2>2, RowSame
    <3> QED
      BY <1>5, <1>13, <1>15, <2>1, <3>1 DEF Owes
  <2>3. CASE ~last
    <3>1. q = "notify" /\ rows'[w] = rows[w] \ {r}
      BY <1>4, <1>5, <2>3
    <3> QED
      BY <1>5, <1>13, <1>15, <2>1, <3>1 DEF Owes
  <2> QED
    BY <2>2, <2>3
<1>16. x \notin Arrived(r) /\ Arrived(r)' = Arrived(r) \cup {x}
  <2>1. x \notin Arrived(r)
    BY <1>3, <1>15 DEF Arrived
  <2>2. ASSUME NEW y \in Members(r)
        PROVE  y \in finished' /\ ~Owes(y, r)' <=> (y \in finished /\ ~Owes(y, r)) \/ y = x
    <3>1. CASE owner[y] = w
      BY <1>3, <1>13, <1>14, <1>15, <3>1
    <3>2. CASE owner[y] # w
      BY <1>3, <1>12, <3>2
    <3> QED
      BY <3>1, <3>2
  <2> QED
    BY <1>3, <2>1, <2>2 DEF Arrived
<1>17. ASSUME NEW p \in Row, p # r
       PROVE  Arrived(p)' = Arrived(p)
  <2>1. ASSUME NEW y \in Members(p)
        PROVE  y \in finished' /\ ~Owes(y, p)' <=> y \in finished /\ ~Owes(y, p)
    BY <1>12, <1>13, <1>15, <1>17
  <2> QED
    BY <2>1, ArrivedSame
<1>18. pc'[w] = "combine" <=> last
  BY <1>4, <1>5
<1> QED
  BY <1>1, <1>3, <1>4, <1>5, <1>12, <1>16, <1>17, <1>18 DEF last, ShardArrival


LEMMA FetchedInLoop ==
    ASSUME FanInv, NEW w \in Worker, pc[w] \in Busy, build.cluster, NEW r \in Row, TwoLevel(r),
           NEW x \in Members(r), ShardOf(r, owner[x]) = ShardOf(r, w),
           NEW z \in Members(r), owner[z] = w
    PROVE  Fetched(owner[x])
<1>1. FanTypeOK /\ Launched /\ Together
  BY WorkerFacts DEF FanInv, Standing, Busy
<1>2. owner[x] \in Worker
  BY <1>1, BuildFacts, MembersInTask
<1>3. Cluster(owner[x]) = ShardOf(r, owner[x]) + FirstCluster(r)
  BY <1>1, ShardFacts
<1>4. Cluster(w) = ShardOf(r, w) + FirstCluster(r)
  BY <1>1, ShardFacts
<1>5. Lead(owner[x]) = Lead(w)
  BY <1>2, <1>3, <1>4, HeadFacts
<1>6. pc[Lead(w)] \in Busy
  BY <1>1 DEF Together
<1> QED
  BY <1>1, <1>5, <1>6 DEF Fetched, Busy

\* The counters of one shard go up by one.
LEMMA ArriveShard_Values ==
    ASSUME FanInv, NEW w \in Worker, ArriveShard(w), NEW r \in Row, r = RowOf(w),
           NEW k, k = ShardOf(r, w), NEW x \in Task, x = cur[w],
           NEW p \in Row, TwoLevel(p), NEW y \in Members(p)
    PROVE  /\ p = r /\ ShardOf(p, owner[y]) = k => Value(p, y)' = Value(p, y) + 1
           /\ ~(p = r /\ ShardOf(p, owner[y]) = k) => Value(p, y)' = Value(p, y)
<1>1. /\ FanTypeOK /\ UNCHANGED <<tableVars, launchVars>> /\ owner[x] = w /\ x \in Members(r)
      /\ TwoLevel(r) /\ pc[w] \in Busy
      /\ build.cluster => \A v \in Worker :
            pc'[v] \in {"load", "done"} <=> pc[v] \in {"load", "done"}
  <2>1. FanTypeOK
    BY DEF FanInv
  <2>2. /\ UNCHANGED <<tableVars, launchVars, arrivals, epoch>> /\ owner[x] = w /\ x \in Members(r)
        /\ TwoLevel(r) /\ pc[w] = "notify"
        /\ build.cluster => \A v \in Worker :
              pc'[v] \in {"load", "done"} <=> pc[v] \in {"load", "done"}
    <3>1. ShardArrival(w, r, k, x)
      BY ArriveShard_Keeps
    <3> QED
      BY <3>1 DEF ShardArrival
  <2> QED
    BY <2>1, <2>2 DEF Busy
<1>2. owner[y] \in Worker /\ Lead(owner[y]) \in Worker
  BY <1>1, BuildFacts, MembersInTask, HeadFacts
<1>3. owner' = owner /\ build' = build /\ ShardOf(p, owner[y])' = ShardOf(p, owner[y])
  BY <1>1 DEF tableVars, ShardOf, FirstCluster, Modulus, ShardCount
<1>4. Fetched(owner[y])' <=> Fetched(owner[y])
  BY <1>1, <1>2, <1>3 DEF Fetched, Launched, launchVars
<1>5. PICK i \in Shard : i = <<p, ShardOf(p, owner[y])>>
  BY <1>1, ShardFacts
<1>6. PICK j \in Shard : j = <<r, k>>
  BY <1>1, ShardFacts
<1>7. i = j <=> p = r /\ ShardOf(p, owner[y]) = k
  BY <1>5, <1>6
<1>8. global \in [Shard -> Nat] /\ local \in [Shard -> Nat]
  BY <1>1 DEF FanTypeOK
<1>9. IF build.cluster THEN local' = [local EXCEPT ![j] = @ + 1] /\ global' = global
      ELSE global' = [global EXCEPT ![j] = @ + 1] /\ local' = local
  BY <1>6 DEF ArriveShard, CountShard
<1>10. /\ Value(p, y) = IF Fetched(owner[y]) THEN local[i] ELSE global[i]
       /\ Value(p, y)' = IF Fetched(owner[y]) THEN local'[i] ELSE global'[i]
  BY <1>3, <1>4, <1>5 DEF Value
<1>11. i # j => Value(p, y)' = Value(p, y)
  BY <1>8, <1>9, <1>10
<1>12. i = j => Value(p, y)' = Value(p, y) + 1
  <2>1. i = j /\ build.cluster => Fetched(owner[y])
    BY <1>1, <1>7, FetchedInLoop
  <2>2. ~build.cluster => ~Fetched(owner[y])
    BY DEF Fetched
  <2> QED
    BY <1>8, <1>9, <1>10, <2>1, <2>2
<1> QED
  BY <1>7, <1>11, <1>12

LEMMA ArriveShard_FanInv ==
    ASSUME FanInv, NEW w \in Worker, ArriveShard(w)
    PROVE  FanInv'
<1>1. /\ FanTypeOK /\ Standing /\ ShardInv /\ CarryInv /\ CountInv /\ EpochInv /\ PublishInv
      /\ rows[w] # {}
  BY DEF FanInv, ArriveShard, ArrivesAtShard
<1>2. PICK r \in Row : r = RowOf(w)
  BY <1>1, RowOfHeld
<1>3. PICK k : k = ShardOf(r, w)
  OBVIOUS
<1>4. PICK x \in Task : x = cur[w]
  BY <1>1, RowOfHeld
<1>5. PICK last \in BOOLEAN : last <=> pc'[w] = "combine"
  OBVIOUS
<1>6. /\ FanTypeOK' /\ Standing' /\ History' /\ Launched /\ Launched'
      /\ UNCHANGED <<tableVars, launchVars, arrivals, epoch>>
      /\ owner[x] = w /\ x \in Members(r) /\ TwoLevel(r)
      /\ pc[w] = "notify" /\ pc'[w] \in {"combine", "notify"}
      /\ \A v \in Worker : v # w => pc'[v] = pc[v] /\ rows'[v] = rows[v]
      /\ last => rows'[w] = rows[w]
      /\ x \notin Arrived(r) /\ Arrived(r)' = Arrived(r) \cup {x}
      /\ \A q \in Row : q # r => Arrived(q)' = Arrived(q)
  <2>1. ShardArrival(w, r, k, x)
    BY <1>2, <1>3, <1>4, ArriveShard_Keeps
  <2> QED
    BY <1>5, <2>1 DEF ShardArrival
<1>7. last <=> ShardCounter(<<r, k>>) + 1 = ShardTarget(r, k) * (iteration + 1)
  <2>1. ShardArrival(w, r, k, x)
    BY <1>2, <1>3, <1>4, ArriveShard_Keeps
  <2> QED
    BY <1>5, <2>1, Zenon DEF ShardArrival
<1>8. owner' = owner /\ iteration' = iteration /\ iteration \in Nat
  BY <1>1, <1>6 DEF tableVars, launchVars, FanTypeOK
<1>9. PICK S : S = InShard(r, k)
  OBVIOUS
<1>10. IsFiniteSet(S) /\ Cardinality(S) = ShardTarget(r, k) /\ ShardTarget(r, k) \in Nat /\ x \in S
  <2>1. x \in S
    BY <1>3, <1>6, <1>9 DEF InShard
  <2> QED
    BY <1>9, <2>1, ShardCounted
<1>11. PICK n \in Nat : n = Cardinality(S \cap Arrived(r)) /\ Cardinality(S \cap Arrived(r)') = n + 1
  <2>1. S \cap Arrived(r) \in SUBSET S /\ S \cap Arrived(r)' = (S \cap Arrived(r)) \cup {x}
    BY <1>6, <1>10
  <2>2. IsFiniteSet(S \cap Arrived(r)) /\ x \notin S \cap Arrived(r)
    BY <1>6, <1>10, <2>1, FS_Subset
  <2>3. Cardinality((S \cap Arrived(r)) \cup {x}) = Cardinality(S \cap Arrived(r)) + 1
    BY <2>2, FS_AddElement
  <2> QED
    BY <2>1, <2>2, <2>3, FS_CardinalityType
<1>12. last <=> n + 1 = ShardTarget(r, k)
  <2>1. PICK m \in Nat : m = ShardTarget(r, k)
    BY <1>10
  <2>2. ShardCounter(<<r, k>>) = Value(r, x)
    BY <1>3, <1>6, CounterOfShard DEF Busy
  <2>3. ShardOf(r, owner[x]) = k /\ Launched /\ InShard(r, k) = S
    BY <1>3, <1>6, <1>9
  <2>4. Value(r, x) = m * iteration + n
    BY <1>1, <1>6, <1>11, <2>1, <2>3 DEF ShardInv
  <2>5. last <=> m * iteration + n + 1 = m * (iteration + 1)
    BY <1>7, <2>1, <2>2, <2>4
  <2>6. m * (iteration + 1) = m * iteration + m /\ m * iteration \in Nat
    BY <1>8, <2>1, SMT
  <2> QED
    BY <1>8, <2>1, <2>5, <2>6
<1>13. last <=> S \subseteq Arrived(r)'
  <2>1. PICK B : B = S \cap Arrived(r)'
    OBVIOUS
  <2>2. B \in SUBSET S /\ Cardinality(B) = n + 1
    BY <1>11, <2>1
  <2>3. Cardinality(B) = Cardinality(S) <=> B = S
    BY <1>10, <2>2, FS_Subset
  <2> QED
    BY <1>10, <1>12, <2>1, <2>2, <2>3
<1>14. \A v \in Worker : ~Carries(v, r, k)
  BY <1>1, <1>6, <1>9, <1>10 DEF CarryInv, Carries
<1>15. ASSUME NEW v \in Worker, NEW p \in Row, NEW j
       PROVE  Carries(v, p, j)' <=> IF v = w THEN last /\ p = r /\ j = k ELSE Carries(v, p, j)
  <2>1. CASE v = w
    <3>1. last => RowOf(w)' = r /\ ShardOf(p, w)' = ShardOf(p, w)
      BY <1>2, <1>6, RowSame, TablesSame
    <3> QED
      BY <1>3, <1>5, <2>1, <3>1 DEF Carries
  <2>2. CASE v # w
    <3>1. RowOf(v)' = RowOf(v) /\ pc'[v] = pc[v] /\ ShardOf(p, v)' = ShardOf(p, v)
      BY <1>6, <2>2, RowSame, TablesSame
    <3> QED
      BY <2>2, <3>1 DEF Carries
  <2> QED
    BY <2>1, <2>2
<1>16. \A p \in Row : \A j : ~Carries(w, p, j)
  BY <1>6 DEF Carries
<1>17. ASSUME NEW p \in Row
       PROVE  Heard(p)' = Heard(p)
  <2>1. CASE p # r
    <3>1. \A v \in Worker : \A j : Carries(v, p, j)' <=> Carries(v, p, j)
      BY <1>15, <1>16, <2>1
    <3> QED
      BY <1>6, <2>1, <3>1, HeardSame
  <2>2. CASE p = r
    <3>1. ASSUME NEW j \in ShardSet(r)
          PROVE  (InShard(r, j) \subseteq Arrived(r)' /\ \A v \in Worker : ~Carries(v, r, j)')
                 <=> (InShard(r, j) \subseteq Arrived(r) /\ \A v \in Worker : ~Carries(v, r, j))
      <4>1. CASE j = k
        <5>1. ~(S \subseteq Arrived(r))
          BY <1>6, <1>10
        <5>2. S \subseteq Arrived(r)' => Carries(w, r, k)'
          BY <1>13, <1>15
        <5> QED
          BY <1>9, <4>1, <5>1, <5>2
      <4>2. CASE j # k
        <5>1. x \notin InShard(r, j)
          BY <1>3, <1>6, <4>2 DEF InShard
        <5>2. InShard(r, j) \subseteq Arrived(r)' <=> InShard(r, j) \subseteq Arrived(r)
          BY <1>6, <5>1
        <5>3. \A v \in Worker : Carries(v, r, j)' <=> Carries(v, r, j)
          BY <1>15, <1>16, <4>2
        <5> QED
          BY <5>2, <5>3
      <4> QED
        BY <4>1, <4>2
    <3>2. /\ ShardSet(r)' = ShardSet(r) /\ (TwoLevel(r)' <=> TwoLevel(r))
          /\ \A j : InShard(r, j)' = InShard(r, j)
      BY <1>6, TablesSame
    <3> QED
      BY <1>6, <2>2, <3>1, <3>2 DEF Heard
  <2> QED
    BY <2>1, <2>2
<1>18. ShardInv'
  <2> SUFFICES ASSUME NEW p \in Row, TwoLevel(p), NEW y \in Members(p)
               PROVE  (LET j == ShardOf(p, owner[y])
                       IN  Value(p, y) = ShardTarget(p, j) * iteration
                            + (IF Launched THEN Cardinality(InShard(p, j) \cap Arrived(p)) ELSE 0))'
    BY <1>6, TablesSame DEF ShardInv
  <2>1. PICK j : j = ShardOf(p, owner[y])
    OBVIOUS
  <2>2. /\ ShardOf(p, owner[y])' = j /\ InShard(p, j)' = InShard(p, j)
        /\ ShardTarget(p, j)' = ShardTarget(p, j)
    BY <1>6, <1>8, <2>1, TablesSame
  <2>3. PICK c \in Nat : c = Cardinality(InShard(p, j) \cap Arrived(p))
    <3>1. InShard(p, j) \cap Arrived(p) \in SUBSET InShard(p, j)
      OBVIOUS
    <3> QED
      BY <3>1, ShardCounted, FS_Subset, FS_CardinalityType
  <2>4. PICK h \in Nat : h = ShardTarget(p, j) * iteration
    <3>1. ShardTarget(p, j) \in Nat
      BY ShardCounted
    <3> QED
      BY <1>8, <3>1, SMT
  <2>5. Value(p, y) = h + c
    BY <1>1, <1>6, <2>1, <2>3, <2>4 DEF ShardInv
  <2>6. Value(p, y)' = h + Cardinality(InShard(p, j) \cap Arrived(p)')
    <3>1. CASE p = r /\ j = k
      <4>1. Value(p, y)' = Value(p, y) + 1
        BY <1>2, <1>3, <1>4, <2>1, <3>1, ArriveShard_Values
      <4>2. c = n /\ Cardinality(InShard(p, j) \cap Arrived(p)') = n + 1
        BY <1>9, <1>11, <2>3, <3>1
      <4> QED
        BY <2>4, <2>5, <4>1, <4>2
    <3>2. CASE p = r /\ j # k
      <4>1. Value(p, y)' = Value(p, y)
        BY <1>2, <1>3, <1>4, <2>1, <3>2, ArriveShard_Values
      <4>2. x \notin InShard(p, j)
        BY <1>3, <1>6, <3>2 DEF InShard
      <4>3. InShard(p, j) \cap Arrived(p)' = InShard(p, j) \cap Arrived(p)
        BY <1>6, <3>2, <4>2
      <4> QED
        BY <2>3, <2>5, <4>1, <4>3
    <3>3. CASE p # r
      <4>1. Value(p, y)' = Value(p, y)
        BY <1>2, <1>3, <1>4, <2>1, <3>3, ArriveShard_Values
      <4> QED
        BY <1>6, <2>3, <2>5, <3>3, <4>1
    <3> QED
      BY <3>1, <3>2, <3>3
  <2>7. h = (ShardTarget(p, j) * iteration)'
    BY <1>8, <2>2, <2>4
  <2> QED
    BY <1>6, <2>2, <2>6, <2>7
<1>19. CarryInv'
  <2> SUFFICES ASSUME NEW u \in Worker, pc'[u] = "combine"
               PROVE  (LET q == RowOf(u)
                           j == ShardOf(q, u)
                       IN  /\ TwoLevel(q)
                           /\ InShard(q, j) \subseteq Arrived(q)
                           /\ \A v \in Worker : Carries(v, q, j) => v = u)'
    BY DEF CarryInv
  <2>1. CASE u = w
    <3>1. last /\ RowOf(w)' = r /\ ShardOf(r, w)' = k
      BY <1>2, <1>3, <1>5, <1>6, <2>1, RowSame, TablesSame
    <3>2. InShard(r, k)' = S /\ TwoLevel(r)'
      BY <1>6, <1>9, TablesSame
    <3>3. \A v \in Worker : Carries(v, r, k)' => v = w
      BY <1>14, <1>15
    <3> QED
      BY <1>13, <2>1, <3>1, <3>2, <3>3
  <2>2. CASE u # w
    <3>1. pc[u] = "combine" /\ rows'[u] = rows[u]
      BY <1>6, <2>2
    <3>2. PICK q \in Row : q = RowOf(u)
      BY <1>1, <3>1, RowOfHeld DEF Standing, Stands
    <3>3. PICK j : j = ShardOf(q, u)
      OBVIOUS
    <3>4. RowOf(u)' = q /\ ShardOf(q, u)' = j /\ InShard(q, j)' = InShard(q, j)
          /\ (TwoLevel(q)' <=> TwoLevel(q))
      BY <1>6, <3>1, <3>2, <3>3, RowSame, TablesSame
    <3>5. /\ TwoLevel(q) /\ InShard(q, j) \subseteq Arrived(q)
          /\ \A v \in Worker : Carries(v, q, j) => v = u
      BY <1>1, <3>1, <3>2, <3>3 DEF CarryInv
    <3>6. Carries(u, q, j)
      BY <3>1, <3>2, <3>3 DEF Carries
    <3>7. ~(q = r /\ j = k)
      BY <1>14, <3>6
    <3>8. \A v \in Worker : Carries(v, q, j)' => v = u
      BY <1>15, <3>5, <3>7
    <3>9. InShard(q, j) \subseteq Arrived(q)'
      BY <1>6, <3>5
    <3> QED
      BY <3>4, <3>5, <3>8, <3>9
  <2> QED
    BY <2>1, <2>2
<1>20. CountInv'
  BY <1>1, <1>6, <1>8, <1>17, TablesSame DEF CountInv
<1>21. EpochInv'
  BY <1>1, <1>6, <1>8, <1>17, TablesSame DEF EpochInv
<1>22. PublishInv'
  <2> SUFFICES ASSUME NEW u \in Worker, pc'[u] = "publish"
               PROVE  (Heard(RowOf(u)) = Speakers(RowOf(u)))'
    BY DEF PublishInv
  <2>1. u # w /\ pc[u] = "publish" /\ rows'[u] = rows[u]
    BY <1>6
  <2>2. PICK q \in Row : q = RowOf(u)
    BY <1>1, <2>1, RowOfHeld DEF Standing, Stands
  <2>3. RowOf(u)' = q /\ Heard(q) = Speakers(q) /\ Heard(q)' = Heard(q) /\ Speakers(q)' = Speakers(q)
    BY <1>1, <1>6, <1>17, <2>1, <2>2, RowSame, TablesSame DEF PublishInv
  <2> QED
    BY <2>3
<1> QED
  BY <1>6, <1>18, <1>19, <1>20, <1>21, <1>22 DEF FanInv


-----------------------------------------------------------------------------
(***************************************************************************)
(* The row: a member that speaks for itself, or one that carries a shard.  *)
(***************************************************************************)
\* What an arrival of w at row r does, published or still to be.
Spoken(w, r) ==
    /\ FanTypeOK' /\ Standing' /\ History' /\ ShardInv' /\ CarryInv'
    /\ Launched /\ Launched'
    /\ Triggers(w) = EventTriggers(r)
    /\ \E u \in Speakers(r) : u \notin Heard(r) /\ Heard(r)' = Heard(r) \cup {u}
    /\ \A p \in Row : p # r => Heard(p)' = Heard(p)
    /\ \A v \in Worker : v # w => pc'[v] = pc[v] /\ rows'[v] = rows[v]

LEMMA Speak ==
    ASSUME ShardsAreUsed, FanInv, NEW w \in Worker, AtRow(w), NEW r \in Row, r = RowOf(w),
           NEW q \in {"publish", "notify"}, pc' = [pc EXCEPT ![w] = q],
           q = "publish" => rows' = rows, q = "notify" => RowDone(w),
           UNCHANGED <<tableVars, launchVars, global, local, epoch, cur, finished>>,
           arrivals' \in [Row -> Nat]
    PROVE  Spoken(w, r) /\ pc'[w] = q
<1>1. /\ FanTypeOK /\ Standing /\ ShardInv /\ CarryInv /\ owner' = owner /\ cur' = cur
      /\ finished' = finished /\ iteration' = iteration
  BY DEF FanInv, tableVars, launchVars
<1>2. pc[w] \in {"combine", "notify"} /\ rows[w] # {}
  BY <1>1 DEF AtRow, Standing, Stands
<1>3. PICK x \in Task : x = cur[w] /\ owner[x] = w /\ x \in Members(r) /\ x \in Queue(w) /\ r \in rows[w]
  BY <1>1, <1>2, RowOfHeld DEF Queue
<1>4. /\ Launched /\ Stands(w) /\ owner \in [Task -> Worker]
      /\ rows \in [Worker -> SUBSET Row] /\ cur \in [Worker -> Task \cup {NoTask}]
      /\ finished \subseteq Task /\ pc \in [Worker -> PC]
      /\ \A y \in Queue(w) : y \in finished <=>
                /\ cur[w] # NoTask /\ ~NodeBefore(cur[w], y)
                /\ y = cur[w] => pc[w] \notin {"wait", "run"}
  BY <1>2, WorkerFacts
<1>5. pc[w] = "combine" <=> TwoLevel(r)
  <2>1. pc[w] = "combine" => TwoLevel(r)
    BY <1>1 DEF CarryInv
  <2>2. ASSUME pc[w] # "combine", TwoLevel(r)
        PROVE  FALSE
    BY <1>1, <1>2, <2>2, ShardsUsed DEF AtRow, ArrivesAtShard
  <2> QED
    BY <2>1, <2>2
<1>6. /\ rows' \in [Worker -> SUBSET Row] /\ pc'[w] = q
      /\ \A v \in Worker : v # w => rows'[v] = rows[v] /\ pc'[v] = pc[v]
      /\ q = "publish" => rows'[w] = rows[w]
      /\ q = "notify" => rows'[w] = rows[w] \ {r}
  BY <1>4 DEF RowDone
<1>7. Stands(w)'
  <2>1. Launched' /\ build' = build /\ Queue(w)' = Queue(w)
    BY <1>4, TablesSame DEF Launched, launchVars, tableVars
  <2>2. cur[w] # NoTask
    BY <1>2, <1>4 DEF Stands
  <2> QED
    BY <1>1, <1>2, <1>4, <1>6, <2>1, <2>2 DEF Stands, Busy
<1>8. /\ FanTypeOK' /\ Standing' /\ History' /\ Launched'
      /\ build.cluster => \A v \in Worker :
                pc'[v] \in {"load", "done"} <=> pc[v] \in {"load", "done"}
      /\ \A p \in Row : \A y \in Members(p) : owner[y] # w =>
                (y \in finished' /\ ~Owes(y, p)' <=> y \in finished /\ ~Owes(y, p))
  <2>1. /\ q \in Busy /\ pc[w] \in Busy
        /\ \A y \in Queue(w) : y \in finished' <=>
              /\ cur'[w] # NoTask /\ ~NodeBefore(cur'[w], y)
              /\ y = cur'[w] => q \notin {"wait", "run"}
    BY <1>1, <1>2, <1>4 DEF Busy
  <2>2. cur' \in [Worker -> Task \cup {NoTask}] /\ finished' \subseteq Task /\ finished \subseteq finished'
        /\ (\A v \in Worker : v # w => cur'[v] = cur[v] /\ rows'[v] = rows[v])
        /\ (\A y \in Task : owner[y] # w => (y \in finished' <=> y \in finished))
    BY <1>1, <1>4, <1>6
  <2>3. global' \in [Shard -> Nat] /\ local' \in [Shard -> Nat] /\ epoch' \in [Row -> Nat]
    BY <1>1 DEF FanTypeOK
  <2> QED
    BY <1>6, <1>7, <2>1, <2>2, <2>3, WorkerKeeps
<1>9. ASSUME NEW p \in Row, NEW y \in Members(p), owner[y] = w
      PROVE  /\ Owes(y, p) <=> y = x /\ p \in rows[w] /\ (TwoLevel(r) => p # r)
             /\ Owes(y, p)' <=> y = x /\ p \in rows[w] /\ p # r
  <2>1. Owes(y, p) <=> y = x /\ p \in rows[w] /\ (TwoLevel(r) => p # r)
    BY <1>2, <1>3, <1>5, <1>9 DEF Owes
  <2>2. CASE q = "publish"
    <3>1. RowOf(w)' = r
      BY <1>6, <2>2, RowSame
    <3> QED
      BY <1>1, <1>3, <1>6, <1>9, <2>1, <2>2, <3>1 DEF Owes
  <2>3. CASE q = "notify"
    BY <1>1, <1>3, <1>6, <1>9, <2>1, <2>3 DEF Owes
  <2> QED
    BY <2>2, <2>3
<1>10. ASSUME NEW p \in Row, p # r \/ TwoLevel(r)
       PROVE  Arrived(p)' = Arrived(p)
  <2>1. ASSUME NEW y \in Members(p)
        PROVE  y \in finished' /\ ~Owes(y, p)' <=> y \in finished /\ ~Owes(y, p)
    BY <1>1, <1>8, <1>9, <1>10
  <2> QED
    BY <2>1, ArrivedSame
<1>11. ASSUME ~TwoLevel(r)
       PROVE  x \notin Arrived(r) /\ Arrived(r)' = Arrived(r) \cup {x}
  <2>1. x \in finished
    BY <1>2, <1>3, <1>4, NodeOrder DEF Stands
  <2>2. x \notin Arrived(r)
    BY <1>3, <1>9, <1>11 DEF Arrived
  <2>3. ASSUME NEW y \in Members(r)
        PROVE  y \in finished' /\ ~Owes(y, r)' <=> (y \in finished /\ ~Owes(y, r)) \/ y = x
    <3>1. CASE owner[y] = w
      BY <1>1, <1>3, <1>9, <1>11, <2>1, <3>1
    <3>2. CASE owner[y] # w
      BY <1>3, <1>8, <3>2
    <3> QED
      BY <3>1, <3>2
  <2> QED
    BY <1>3, <2>2, <2>3 DEF Arrived
<1>12. ASSUME NEW p \in Row, NEW v \in Worker, NEW j
       PROVE  Carries(v, p, j)' <=> v # w /\ Carries(v, p, j)
  <2>1. CASE v = w
    BY <1>6, <2>1 DEF Carries
  <2>2. CASE v # w
    <3>1. RowOf(v)' = RowOf(v) /\ pc'[v] = pc[v] /\ ShardOf(p, v)' = ShardOf(p, v)
      BY <1>6, <2>2, RowSame, TablesSame
    <3> QED
      BY <2>2, <3>1 DEF Carries
  <2> QED
    BY <2>1, <2>2
<1>13. ASSUME NEW p \in Row, p # r
       PROVE  Heard(p)' = Heard(p)
  <2>1. \A v \in Worker : \A j : Carries(v, p, j)' <=> Carries(v, p, j)
    BY <1>12, <1>13 DEF Carries
  <2> QED
    BY <1>10, <1>13, <2>1, HeardSame
<1>14. \E u \in Speakers(r) : u \notin Heard(r) /\ Heard(r)' = Heard(r) \cup {u}
  <2>1. CASE ~TwoLevel(r)
    <3>1. Heard(r) = Arrived(r) /\ Heard(r)' = Arrived(r)' /\ Speakers(r) = Members(r)
      BY <2>1, TablesSame DEF Heard, Speakers
    <3> QED
      BY <1>3, <1>11, <2>1, <3>1
  <2>2. CASE TwoLevel(r)
    <3>1. PICK k : k = ShardOf(r, w)
      OBVIOUS
    <3>2. k \in ShardSet(r) /\ Speakers(r) = ShardSet(r)
      BY <1>3, <2>2, <3>1 DEF ShardSet, Speakers
    <3>3. /\ InShard(r, k) \subseteq Arrived(r)
          /\ \A v \in Worker : Carries(v, r, k) => v = w
      BY <1>1, <1>5, <2>2, <3>1 DEF CarryInv
    <3>4. Carries(w, r, k) /\ \A j : Carries(w, r, j) => j = k
      BY <1>5, <2>2, <3>1 DEF Carries
    <3>5. Arrived(r)' = Arrived(r) /\ (TwoLevel(r)' <=> TwoLevel(r)) /\ ShardSet(r)' = ShardSet(r)
          /\ \A j : InShard(r, j)' = InShard(r, j)
      BY <1>10, <2>2, TablesSame
    <3>6. ASSUME NEW j \in ShardSet(r)
          PROVE  (InShard(r, j) \subseteq Arrived(r)' /\ \A v \in Worker : ~Carries(v, r, j)')
                 <=> j = k \/ (InShard(r, j) \subseteq Arrived(r) /\ \A v \in Worker : ~Carries(v, r, j))
      <4>1. CASE j = k
        BY <1>12, <3>3, <3>5, <4>1
      <4>2. CASE j # k
        <5>1. \A v \in Worker : Carries(v, r, j)' <=> Carries(v, r, j)
          BY <1>12, <3>4, <4>2
        <5> QED
          BY <3>5, <4>2, <5>1
      <4> QED
        BY <4>1, <4>2
    <3>7. Heard(r)' = {j \in ShardSet(r) : InShard(r, j) \subseteq Arrived(r)'
                                            /\ \A v \in Worker : ~Carries(v, r, j)'}
      BY <2>2, <3>5 DEF Heard
    <3>8. Heard(r) = {j \in ShardSet(r) : InShard(r, j) \subseteq Arrived(r)
                                            /\ \A v \in Worker : ~Carries(v, r, j)}
      BY <2>2 DEF Heard
    <3>9. k \notin Heard(r)
      BY <3>4, <3>8
    <3>10. Heard(r)' = Heard(r) \cup {k}
      BY <3>2, <3>6, <3>7, <3>8
    <3> QED
      BY <3>2, <3>9, <3>10
  <2> QED
    BY <2>1, <2>2
<1>15. ShardInv'
  <2> SUFFICES ASSUME NEW p \in Row, TwoLevel(p), NEW y \in Members(p)
               PROVE  (LET j == ShardOf(p, owner[y])
                       IN  Value(p, y) = ShardTarget(p, j) * iteration
                            + (IF Launched THEN Cardinality(InShard(p, j) \cap Arrived(p)) ELSE 0))'
    BY TablesSame DEF ShardInv
  <2>1. Value(p, y)' = Value(p, y)
    BY <1>1, <1>8, ValueSame
  <2>2. Arrived(p)' = Arrived(p)
    BY <1>10
  <2>3. /\ ShardOf(p, owner[y])' = ShardOf(p, owner[y])
        /\ \A j : InShard(p, j)' = InShard(p, j) /\ ShardTarget(p, j)' = ShardTarget(p, j)
    BY <1>1, TablesSame
  <2> QED
    BY <1>1, <1>4, <1>8, <2>1, <2>2, <2>3 DEF ShardInv
<1>16. CarryInv'
  <2> SUFFICES ASSUME NEW u \in Worker, pc'[u] = "combine"
               PROVE  (LET p == RowOf(u)
                           j == ShardOf(p, u)
                       IN  /\ TwoLevel(p)
                           /\ InShard(p, j) \subseteq Arrived(p)
                           /\ \A v \in Worker : Carries(v, p, j) => v = u)'
    BY DEF CarryInv
  <2>1. u # w /\ pc[u] = "combine" /\ rows'[u] = rows[u]
    BY <1>6
  <2>2. PICK p \in Row : p = RowOf(u)
    BY <1>1, <2>1, RowOfHeld DEF Standing, Stands
  <2>3. PICK j : j = ShardOf(p, u)
    OBVIOUS
  <2>4. RowOf(u)' = p /\ ShardOf(p, u)' = j /\ InShard(p, j)' = InShard(p, j)
        /\ (TwoLevel(p)' <=> TwoLevel(p))
    BY <2>1, <2>2, <2>3, RowSame, TablesSame
  <2>5. /\ TwoLevel(p) /\ InShard(p, j) \subseteq Arrived(p)
        /\ \A v \in Worker : Carries(v, p, j) => v = u
    BY <1>1, <2>1, <2>2, <2>3 DEF CarryInv
  <2>6. \A v \in Worker : Carries(v, p, j)' => v = u
    BY <1>12, <2>5
  <2>7. Arrived(p)' = Arrived(p)
    BY <1>10, <2>5
  <2> QED
    BY <2>4, <2>5, <2>6, <2>7
<1>17. Triggers(w) = EventTriggers(r)
  BY <1>5 DEF Triggers, EventTriggers
<1> QED
  BY <1>4, <1>6, <1>8, <1>13, <1>14, <1>15, <1>16, <1>17 DEF Spoken

\* One more has been heard: it was the last iff the count is the target.
LEMMA OneMoreHeard ==
    ASSUME NEW w \in Worker, NEW r \in Row, Spoken(w, r), UNCHANGED tableVars
    PROVE  /\ Cardinality(Heard(r)') = Cardinality(Heard(r)) + 1
           /\ Cardinality(Heard(r)) \in Nat
           /\ Cardinality(Heard(r)) + 1 <= EventTriggers(r)
           /\ Cardinality(Heard(r)) + 1 = EventTriggers(r) => Heard(r)' = Speakers(r)
           /\ Heard(r) # Speakers(r)
<1>1. PICK u \in Speakers(r) : u \notin Heard(r) /\ Heard(r)' = Heard(r) \cup {u}
  BY DEF Spoken
<1>2. PICK H : H = Heard(r)
  OBVIOUS
<1>3. H \in SUBSET Speakers(r) /\ IsFiniteSet(H) /\ u \notin H /\ Heard(r)' = H \cup {u}
      /\ Cardinality(H) \in Nat
  BY <1>1, <1>2, HeardFacts
<1>4. Cardinality(H \cup {u}) = Cardinality(H) + 1
  BY <1>3, FS_AddElement
<1>5. H \cup {u} \in SUBSET Speakers(r)
  BY <1>1, <1>3
<1>6. /\ Cardinality(H \cup {u}) <= Cardinality(Speakers(r))
      /\ Cardinality(H \cup {u}) = Cardinality(Speakers(r)) => H \cup {u} = Speakers(r)
  BY <1>5, SpeakersCounted, FS_Subset
<1> QED
  BY <1>1, <1>2, <1>3, <1>4, <1>6, SpeakersCounted


LEMMA Spoken_FanInv ==
    ASSUME FanInv, NEW w \in Worker, NEW r \in Row, r = RowOf(w), Spoken(w, r),
           UNCHANGED <<tableVars, launchVars, epoch>>,
           arrivals' = IF Uncounted(r) THEN arrivals ELSE [arrivals EXCEPT ![r] = @ + 1],
           pc'[w] = "publish" => Heard(r)' = Speakers(r) /\ rows'[w] = rows[w]
    PROVE  FanInv'
<1>1. /\ CountInv /\ EpochInv /\ PublishInv /\ FanTypeOK /\ Standing
      /\ iteration' = iteration /\ iteration \in Nat /\ arrivals \in [Row -> Nat]
      /\ epoch' = epoch
  BY DEF FanInv, FanTypeOK, launchVars
<1>2. /\ Launched /\ Launched'
      /\ \A p \in Row : p # r => Heard(p)' = Heard(p)
      /\ \A v \in Worker : v # w => pc'[v] = pc[v] /\ rows'[v] = rows[v]
      /\ FanTypeOK' /\ Standing' /\ History' /\ ShardInv' /\ CarryInv'
  BY DEF Spoken
<1>3. CountInv'
  <2> SUFFICES ASSUME NEW p \in Row
               PROVE  arrivals'[p] = IF Uncounted(p)' THEN 0
                                     ELSE EventTriggers(p)' * iteration' + Cardinality(Heard(p)')
    BY <1>2 DEF CountInv
  <2>1. PICK h \in Nat : h = EventTriggers(p) * iteration
    <3>1. EventTriggers(p) \in Nat
      BY SpeakersCounted
    <3> QED
      BY <1>1, <3>1, SMT
  <2>2. EventTriggers(p)' * iteration' = h /\ (Uncounted(p)' <=> Uncounted(p))
    BY <1>1, <2>1, TablesSame
  <2>3. arrivals[p] = IF Uncounted(p) THEN 0 ELSE h + Cardinality(Heard(p))
    BY <1>1, <1>2, <2>1 DEF CountInv
  <2>4. CASE p # r
    <3>1. arrivals'[p] = arrivals[p] /\ Heard(p)' = Heard(p)
      BY <1>1, <1>2, <2>4
    <3> QED
      BY <2>2, <2>3, <3>1
  <2>5. CASE p = r
    <3>1. PICK n \in Nat : n = Cardinality(Heard(r)) /\ Cardinality(Heard(r)') = n + 1
      BY OneMoreHeard
    <3>2. arrivals'[p] = IF Uncounted(p) THEN arrivals[p] ELSE arrivals[p] + 1
      BY <1>1, <2>5
    <3> QED
      BY <2>1, <2>2, <2>3, <2>5, <3>1, <3>2
  <2> QED
    BY <2>4, <2>5
<1>4. Heard(r) # Speakers(r)
  BY OneMoreHeard
<1>5. EpochInv'
  BY <1>1, <1>2, <1>4, TablesSame DEF EpochInv
<1>6. PublishInv'
  <2> SUFFICES ASSUME NEW u \in Worker, pc'[u] = "publish"
               PROVE  (Heard(RowOf(u)) = Speakers(RowOf(u)))'
    BY DEF PublishInv
  <2>1. CASE u = w
    <3>1. RowOf(u)' = r /\ Heard(r)' = Speakers(r) /\ Speakers(r)' = Speakers(r)
      BY <2>1, RowSame, TablesSame
    <3> QED
      BY <3>1
  <2>2. CASE u # w
    <3>1. pc[u] = "publish" /\ rows'[u] = rows[u]
      BY <1>2, <2>2
    <3>2. PICK p \in Row : p = RowOf(u)
      BY <1>1, <3>1, RowOfHeld DEF Standing, Stands
    <3>3. RowOf(u)' = p /\ Heard(p) = Speakers(p) /\ Speakers(p)' = Speakers(p)
      BY <1>1, <3>1, <3>2, RowSame, TablesSame DEF PublishInv
    <3>4. Heard(p)' = Heard(p)
      BY <1>2, <1>4, <3>3
    <3> QED
      BY <3>3, <3>4
  <2> QED
    BY <2>1, <2>2
<1> QED
  BY <1>2, <1>3, <1>5, <1>6 DEF FanInv

\* Whoever stands at a row stands at one of its own.
LEMMA AtRowFacts ==
    ASSUME FanInv, NEW w \in Worker, AtRow(w)
    PROVE  RowOf(w) \in Row /\ FanTypeOK /\ arrivals \in [Row -> Nat] /\ iteration \in Nat
<1>1. FanTypeOK /\ Standing
  BY DEF FanInv
<1>2. rows[w] # {}
  BY <1>1 DEF AtRow, Standing, Stands
<1> QED
  BY <1>1, <1>2, RowOfHeld DEF FanTypeOK

LEMMA ArriveRed_FanInv ==
    ASSUME ShardsAreUsed, FanInv, NEW w \in Worker, ArriveRed(w)
    PROVE  FanInv'
<1>1. PICK r \in Row : r = RowOf(w)
  BY AtRowFacts DEF ArriveRed
<1>2. /\ AtRow(w) /\ CountBased /\ arrivals' = [arrivals EXCEPT ![r] = @ + 1] /\ RowDone(w)
      /\ pc' = [pc EXCEPT ![w] = "notify"]
      /\ UNCHANGED <<tableVars, launchVars, global, local, epoch, cur, finished>>
  BY <1>1 DEF ArriveRed
<1>3. ~Uncounted(r) /\ arrivals' \in [Row -> Nat]
  BY <1>2, AtRowFacts DEF CountBased, Uncounted
<1>4. Spoken(w, r) /\ pc'[w] = "notify"
  BY <1>1, <1>2, <1>3, Speak
<1> QED
  BY <1>1, <1>2, <1>3, <1>4, Spoken_FanInv

LEMMA ArriveSolo_FanInv ==
    ASSUME ShardsAreUsed, FanInv, NEW w \in Worker, ArriveSolo(w)
    PROVE  FanInv'
<1>1. PICK r \in Row : r = RowOf(w)
  BY AtRowFacts DEF ArriveSolo
<1>2. /\ AtRow(w) /\ Solo(w) /\ pc' = [pc EXCEPT ![w] = "publish"] /\ rows' = rows /\ arrivals' = arrivals
      /\ UNCHANGED <<tableVars, launchVars, global, local, epoch, cur, finished>>
  BY DEF ArriveSolo, counterVars
<1>3. arrivals' \in [Row -> Nat]
  BY <1>2, AtRowFacts
<1>4. Spoken(w, r) /\ pc'[w] = "publish"
  BY <1>1, <1>2, <1>3, Speak
<1>5. EventTriggers(r) = 1 /\ Uncounted(r)
  BY <1>2, <1>4 DEF Spoken, Solo, Uncounted
<1>6. Heard(r)' = Speakers(r)
  <2>1. PICK n \in Nat : n = Cardinality(Heard(r))
    BY <1>2, <1>4, OneMoreHeard
  <2>2. n + 1 <= 1 /\ (n + 1 = 1 => Heard(r)' = Speakers(r))
    BY <1>2, <1>4, <1>5, <2>1, OneMoreHeard
  <2> QED
    BY <2>1, <2>2
<1> QED
  BY <1>1, <1>2, <1>4, <1>5, <1>6, Spoken_FanInv

LEMMA ArriveTicket_FanInv ==
    ASSUME ShardsAreUsed, FanInv, NEW w \in Worker, ArriveTicket(w)
    PROVE  FanInv'
<1> DEFINE last == arrivals[RowOf(w)] + 1 = Triggers(w) * (iteration + 1)
<1>1. PICK r \in Row : r = RowOf(w)
  BY AtRowFacts DEF ArriveTicket
<1>2. /\ AtRow(w) /\ ~CountBased /\ ~Solo(w) /\ arrivals' = [arrivals EXCEPT ![r] = @ + 1]
      /\ IF last THEN pc' = [pc EXCEPT ![w] = "publish"] /\ rows' = rows
         ELSE pc' = [pc EXCEPT ![w] = "notify"] /\ RowDone(w)
      /\ UNCHANGED <<tableVars, launchVars, global, local, epoch, cur, finished>>
  BY <1>1 DEF ArriveTicket
<1>3. arrivals \in [Row -> Nat] /\ arrivals' \in [Row -> Nat] /\ iteration \in Nat
  BY <1>2, AtRowFacts
<1> HIDE DEF last
<1>4. PICK q \in {"publish", "notify"} : q = IF last THEN "publish" ELSE "notify"
  OBVIOUS
<1>5. pc' = [pc EXCEPT ![w] = q] /\ (q = "publish" => rows' = rows) /\ (q = "notify" => RowDone(w))
  BY <1>2, <1>4
<1>6. Spoken(w, r) /\ pc'[w] = q
  BY <1>1, <1>2, <1>3, <1>5, Speak
<1>7. ~Uncounted(r) /\ Triggers(w) = EventTriggers(r)
  BY <1>2, <1>6 DEF Spoken, Solo, Uncounted
<1>8. last => Heard(r)' = Speakers(r)
  <2>1. PICK n \in Nat, t \in Nat : n = Cardinality(Heard(r)) /\ t = EventTriggers(r)
    BY <1>2, <1>6, OneMoreHeard, SpeakersCounted
  <2>2. arrivals[r] = t * iteration + n
    BY <1>6, <1>7, <2>1 DEF FanInv, CountInv, Spoken
  <2>3. last => t * iteration + n + 1 = t * (iteration + 1)
    BY <1>1, <1>7, <2>1, <2>2 DEF last
  <2>4. t * (iteration + 1) = t * iteration + t /\ t * iteration \in Nat
    BY <1>3, <2>1, SMT
  <2>5. last => n + 1 = t
    BY <2>1, <2>3, <2>4
  <2> QED
    BY <1>2, <1>6, <2>1, <2>5, OneMoreHeard
<1>9. pc'[w] = "publish" => Heard(r)' = Speakers(r) /\ rows'[w] = rows[w]
  BY <1>2, <1>4, <1>6, <1>8
<1> QED
  BY <1>1, <1>2, <1>6, <1>7, <1>9, Spoken_FanInv

LEMMA PublishEpoch_FanInv ==
    ASSUME FanInv, NEW w \in Worker, PublishEpoch(w)
    PROVE  FanInv'
<1>1. /\ FanTypeOK /\ Standing /\ PublishInv /\ pc[w] = "publish" /\ rows[w] # {}
  BY DEF FanInv, PublishEpoch, Standing, Stands
<1>2. PICK r \in Row : r = RowOf(w) /\ r \in rows[w]
  BY <1>1, RowOfHeld
<1>3. PICK x \in Task : x = cur[w] /\ x # NoTask
  BY <1>1, RowOfHeld DEF Standing, Stands
<1>4. /\ epoch' = [epoch EXCEPT ![r] = iteration + 1]
      /\ rows' = [rows EXCEPT ![w] = rows[w] \ {r}]
      /\ pc' = [pc EXCEPT ![w] = "notify"]
      /\ UNCHANGED <<tableVars, launchVars, global, local, arrivals, cur, finished>>
  BY <1>2 DEF PublishEpoch, RowDone
<1>5. /\ Launched /\ Stands(w) /\ owner \in [Task -> Worker]
      /\ rows \in [Worker -> SUBSET Row] /\ cur \in [Worker -> Task \cup {NoTask}]
      /\ finished \subseteq Task /\ pc \in [Worker -> PC]
      /\ \A y \in Queue(w) : y \in finished <=>
                /\ cur[w] # NoTask /\ ~NodeBefore(cur[w], y)
                /\ y = cur[w] => pc[w] \notin {"wait", "run"}
  BY <1>1, WorkerFacts
<1>6. /\ rows' \in [Worker -> SUBSET Row] /\ pc'[w] = "notify" /\ rows'[w] = rows[w] \ {r}
      /\ \A v \in Worker : v # w => rows'[v] = rows[v] /\ pc'[v] = pc[v]
      /\ epoch \in [Row -> Nat] /\ iteration \in Nat /\ epoch' \in [Row -> Nat]
  BY <1>1, <1>4, <1>5 DEF FanTypeOK
<1>7. Stands(w)'
  <2>1. Launched' /\ build' = build /\ Queue(w)' = Queue(w)
    BY <1>4, <1>5, TablesSame DEF Launched, launchVars, tableVars
  <2> QED
    BY <1>1, <1>3, <1>4, <1>5, <1>6, <2>1 DEF Stands, Busy
<1>8. /\ FanTypeOK' /\ Standing' /\ History' /\ Launched'
      /\ build.cluster => \A v \in Worker :
                pc'[v] \in {"load", "done"} <=> pc[v] \in {"load", "done"}
      /\ \A p \in Row : \A y \in Members(p) : owner[y] # w =>
                (y \in finished' /\ ~Owes(y, p)' <=> y \in finished /\ ~Owes(y, p))
  <2>1. /\ "notify" \in Busy /\ pc[w] \in Busy
        /\ \A y \in Queue(w) : y \in finished' <=>
              /\ cur'[w] # NoTask /\ ~NodeBefore(cur'[w], y)
              /\ y = cur'[w] => "notify" \notin {"wait", "run"}
    BY <1>1, <1>4, <1>5 DEF Busy
  <2>2. cur' \in [Worker -> Task \cup {NoTask}] /\ finished' \subseteq Task /\ finished \subseteq finished'
        /\ (\A v \in Worker : v # w => cur'[v] = cur[v] /\ rows'[v] = rows[v])
        /\ (\A y \in Task : owner[y] # w => (y \in finished' <=> y \in finished))
    BY <1>4, <1>5, <1>6
  <2>3. global' \in [Shard -> Nat] /\ local' \in [Shard -> Nat] /\ arrivals' \in [Row -> Nat]
    BY <1>1, <1>4 DEF FanTypeOK
  <2> QED
    BY <1>4, <1>6, <1>7, <2>1, <2>2, <2>3, WorkerKeeps
<1>9. ASSUME NEW p \in Row
      PROVE  Arrived(p)' = Arrived(p)
  <2>1. ASSUME NEW y \in Members(p), owner[y] = w
        PROVE  y \in finished' /\ ~Owes(y, p)' <=> y \in finished /\ ~Owes(y, p)
    <3>1. Owes(y, p) <=> y = x /\ p \in rows[w] /\ p # r
      BY <1>1, <1>2, <1>3, <2>1 DEF Owes
    <3>2. Owes(y, p)' <=> y = x /\ p \in rows[w] /\ p # r
      BY <1>3, <1>4, <1>6, <2>1 DEF Owes, tableVars
    <3> QED
      BY <1>4, <3>1, <3>2
  <2> QED
    BY <1>8, <2>1, ArrivedSame
<1>10. Heard(r) = Speakers(r)
  BY <1>1, <1>2 DEF PublishInv
<1>11. \A p \in Row :
          \/ epoch'[p] = epoch[p]
          \/ epoch'[p] = iteration + 1 /\ Launched /\ Heard(p) = Speakers(p)
  BY <1>4, <1>5, <1>6, <1>10
<1>12. \A p \in Row : TwoLevel(p) => \A y \in Members(p) : Value(p, y)' = Value(p, y)
  BY <1>1, <1>4, <1>8, ValueSame
<1>13. \A v \in Worker :
          /\ pc'[v] = "combine" <=> pc[v] = "combine"
          /\ pc'[v] = "publish" => pc[v] = "publish"
          /\ pc'[v] \in {"combine", "publish"} => rows'[v] = rows[v]
  BY <1>1, <1>6
<1>14. ShardInv' /\ CarryInv' /\ CountInv' /\ EpochInv' /\ PublishInv'
  <2>1. UNCHANGED <<tableVars, launchVars, arrivals>>
    BY <1>4
  <2> QED
    BY <1>9, <1>11, <1>12, <1>13, <2>1, Quiet, Zenon
<1> QED
  BY <1>8, <1>14 DEF FanInv


-----------------------------------------------------------------------------
(***************************************************************************)
(* Around a launch: the counters of a cluster come and go, and stay what   *)
(* they were.                                                              *)
(***************************************************************************)
Idle == {"load", "sync", "next", "close", "save", "done"}

LEMMA Barrier ==
    ASSUME FanInv, UNCHANGED <<tableVars, launchVars, arrivals, epoch, cur, rows, finished>>,
           pc' \in [Worker -> PC],
           \A v \in Worker : pc'[v] = pc[v] \/ {pc[v], pc'[v]} \subseteq Idle,
           Standing', global' \in [Shard -> Nat], local' \in [Shard -> Nat],
           \A r \in Row : TwoLevel(r) => \A x \in Members(r) : Value(r, x)' = Value(r, x)
    PROVE  FanInv'
<1>1. /\ FanTypeOK /\ Standing /\ History /\ owner' = owner /\ cur' = cur /\ rows' = rows
      /\ finished' = finished /\ (Launched' <=> Launched) /\ epoch' = epoch
  BY DEF FanInv, tableVars, launchVars, Launched
<1>2. FanTypeOK'
  BY <1>1 DEF FanTypeOK, tableVars, launchVars
<1>3. \A v \in Worker : pc'[v] \in {"wait", "run"} <=> pc[v] \in {"wait", "run"}
  BY DEF Idle
<1>4. History'
  BY <1>1, <1>3, BuildFacts DEF History
<1>5. ASSUME NEW r \in Row
      PROVE  Arrived(r)' = Arrived(r)
  <2>1. ASSUME NEW x \in Members(r)
        PROVE  Owes(x, r)' <=> Owes(x, r)
    <3>1. PICK v \in Worker : v = owner[x]
      BY <1>1, BuildFacts, MembersInTask
    <3>2. RowOf(v)' = RowOf(v)
      BY <1>1, RowSame
    <3>3. pc'[v] = pc[v] \/ rows[v] = {}
      BY <1>1 DEF Idle, Standing, Stands
    <3> QED
      BY <1>1, <3>1, <3>2, <3>3 DEF Owes
  <2> QED
    BY <1>1, <2>1, ArrivedSame
<1>6. ShardInv' /\ CarryInv' /\ CountInv' /\ EpochInv' /\ PublishInv'
  <2>1. UNCHANGED <<tableVars, launchVars, arrivals>>
    OBVIOUS
  <2>2. \A r \in Row :
          \/ epoch'[r] = epoch[r]
          \/ epoch'[r] = iteration + 1 /\ Launched /\ Heard(r) = Speakers(r)
    BY <1>1
  <2>3. \A v \in Worker :
          /\ pc'[v] = "combine" <=> pc[v] = "combine"
          /\ pc'[v] = "publish" => pc[v] = "publish"
          /\ pc'[v] \in {"combine", "publish"} => rows'[v] = rows[v]
    BY <1>1 DEF Idle
  <2> QED
    BY <1>5, <2>1, <2>2, <2>3, Quiet, Zenon
<1> QED
  BY <1>1, <1>2, <1>4, <1>6 DEF FanInv

\* The shards of a cluster are those its CTAs arrive at.
LEMMA ClusterShards ==
    ASSUME FanTypeOK, build.cluster, NEW w \in Worker, NEW r \in Row, TwoLevel(r),
           NEW x \in Members(r)
    PROVE  /\ owner[x] \in Worker /\ Lead(owner[x]) \in Worker
           /\ <<r, ShardOf(r, owner[x])>> \in Shard
           /\ <<r, ShardOf(r, owner[x])>> \in ShardsOf(Cluster(w)) <=> Lead(owner[x]) = Lead(w)
<1>1. owner[x] \in Worker /\ Lead(owner[x]) \in Worker
  BY BuildFacts, MembersInTask, HeadFacts
<1>2. PICK c \in Nat, f \in Nat, d \in Nat, k \in 0 .. (Grid - 1) :
         c = Cluster(owner[x]) /\ f = FirstCluster(r) /\ d = Cluster(w) /\ k = ShardOf(r, owner[x])
  BY <1>1, HeadFacts, FirstClusterFacts, ShardFacts
<1>3. c = k + f /\ k \in Int
  <2>1. Cluster(owner[x]) = ShardOf(r, owner[x]) + FirstCluster(r)
    BY ShardFacts
  <2>2. Grid \in Nat
    BY ShardAssumption
  <2>3. c = k + f
    BY <1>2, <2>1, Zenon
  <2> QED
    BY <1>2, <2>2, <2>3
<1>4. <<r, k>> \in Shard
  BY <1>2 DEF Shard
<1>5. <<r, k>> \in ShardsOf(Cluster(w)) <=> k = d - f
  BY <1>2, <1>4 DEF ShardsOf
<1>6. k = d - f <=> c = d
  BY <1>2, <1>3
<1>7. c = d <=> Lead(owner[x]) = Lead(w)
  <2>1. c = d => Lead(owner[x]) = Lead(w)
    BY <1>1, <1>2, HeadFacts
  <2>2. Lead(owner[x]) = Lead(w) => c = d
    <3>1. Cluster(Lead(owner[x])) = c /\ Cluster(Lead(w)) = d
      BY <1>1, <1>2, HeadFacts
    <3> QED
      BY <3>1
  <2> QED
    BY <2>1, <2>2
<1> QED
  BY <1>1, <1>2, <1>4, <1>5, <1>6, <1>7

LEMMA LoadCounters_FanInv ==
    ASSUME FanInv, NEW w \in Worker, LoadCounters(w)
    PROVE  FanInv'
<1>1. /\ pc[w] = "load" /\ pc' = [pc EXCEPT ![w] = "sync"]
      /\ local' = [i \in Shard |-> IF i \in ShardsOf(Cluster(w)) THEN global[i] ELSE local[i]]
      /\ UNCHANGED <<tableVars, launchVars, global, arrivals, epoch, cur, rows, finished>>
  BY DEF LoadCounters
<1>2. /\ FanTypeOK /\ Standing /\ pc \in [Worker -> PC] /\ local \in [Shard -> Nat]
      /\ global \in [Shard -> Nat]
  BY DEF FanInv, FanTypeOK
<1>3. /\ Launched /\ Launched' /\ build.cluster /\ Rank(w) = 0 /\ w = Lead(w)
      /\ build' = build /\ owner' = owner /\ status' = status
      /\ cur' = cur /\ rows' = rows /\ finished' = finished /\ global' = global
  BY <1>1, <1>2, HeadFacts, BuildFacts DEF Standing, Stands, Busy, Launched, launchVars, tableVars
<1>4. pc' \in [Worker -> PC] /\ pc'[w] = "sync" /\ \A v \in Worker : v # w => pc'[v] = pc[v]
  BY <1>1, <1>2 DEF PC
<1>5. Standing'
  <2>1. Together'
    BY <1>1, <1>2, <1>3, <1>4, HeadFacts DEF Standing, Together, Busy
  <2>2. ASSUME NEW v \in Worker
        PROVE  Stands(v)'
    <3>1. CASE v = w
      BY <1>1, <1>2, <1>3, <1>4, <3>1 DEF Standing, Stands, Queue, Launched
    <3>2. CASE v # w
      BY <1>2, <1>3, <1>4, <3>2 DEF Standing, Stands, Queue, Launched
    <3> QED
      BY <3>1, <3>2
  <2> QED
    BY <2>1, <2>2 DEF Standing
<1>6. ASSUME NEW r \in Row, TwoLevel(r), NEW x \in Members(r)
      PROVE  Value(r, x)' = Value(r, x)
  <2>1. PICK i \in Shard : i = <<r, ShardOf(r, owner[x])>>
    BY <1>2, <1>3, <1>6, ClusterShards
  <2>2. i \in ShardsOf(Cluster(w)) <=> Lead(owner[x]) = w
    BY <1>2, <1>3, <1>6, <2>1, ClusterShards
  <2>3. Lead(owner[x]) \in Worker
    BY <1>2, <1>3, <1>6, ClusterShards
  <2>4. <<r, ShardOf(r, owner[x])>>' = i
    BY <1>1, <1>3, <2>1, TablesSame
  <2>5. /\ Fetched(owner[x]) <=> pc[Lead(owner[x])] \notin {"load", "done"}
        /\ Fetched(owner[x])' <=> pc'[Lead(owner[x])] \notin {"load", "done"}
    BY <1>3 DEF Fetched
  <2>6. local'[i] = IF Lead(owner[x]) = w THEN global[i] ELSE local[i]
    BY <1>1, <2>1, <2>2
  <2>7. /\ Value(r, x) = IF Fetched(owner[x]) THEN local[i] ELSE global[i]
        /\ Value(r, x)' = IF Fetched(owner[x])' THEN local'[i] ELSE global[i]
    BY <1>3, <2>1, <2>4 DEF Value
  <2>8. CASE Lead(owner[x]) = w
    BY <1>1, <1>4, <2>5, <2>6, <2>7, <2>8
  <2>9. CASE Lead(owner[x]) # w
    BY <1>4, <2>3, <2>5, <2>6, <2>7, <2>9
  <2> QED
    BY <2>8, <2>9
<1>7. \A v \in Worker : pc'[v] = pc[v] \/ {pc[v], pc'[v]} \subseteq Idle
  BY <1>1, <1>4 DEF Idle
<1>8. local' \in [Shard -> Nat] /\ global' \in [Shard -> Nat]
  BY <1>1, <1>2
<1>9. UNCHANGED <<tableVars, launchVars, arrivals, epoch, cur, rows, finished>>
  BY <1>1
<1> QED
  BY <1>4, <1>5, <1>6, <1>7, <1>8, <1>9, Barrier

LEMMA SaveCounters_FanInv ==
    ASSUME FanInv, NEW w \in Worker, SaveCounters(w)
    PROVE  FanInv'
<1>1. /\ pc[w] = "save" /\ pc' = [pc EXCEPT ![w] = "done"]
      /\ global' = [i \in Shard |-> IF i \in ShardsOf(Cluster(w)) THEN local[i] ELSE global[i]]
      /\ UNCHANGED <<tableVars, launchVars, local, arrivals, epoch, cur, rows, finished>>
  BY DEF SaveCounters
<1>2. /\ FanTypeOK /\ Standing /\ pc \in [Worker -> PC] /\ local \in [Shard -> Nat]
      /\ global \in [Shard -> Nat]
  BY DEF FanInv, FanTypeOK
<1>3. /\ Launched /\ Launched' /\ build.cluster /\ Rank(w) = 0 /\ w = Lead(w)
      /\ build' = build /\ owner' = owner /\ status' = status
      /\ cur' = cur /\ rows' = rows /\ finished' = finished /\ local' = local
  BY <1>1, <1>2, HeadFacts, BuildFacts DEF Standing, Stands, Busy, Launched, launchVars, tableVars
<1>4. pc' \in [Worker -> PC] /\ pc'[w] = "done" /\ \A v \in Worker : v # w => pc'[v] = pc[v]
  BY <1>1, <1>2 DEF PC
<1>5. Standing'
  <2>1. Together'
    BY <1>1, <1>2, <1>3, <1>4, HeadFacts DEF Standing, Together, Busy
  <2>2. ASSUME NEW v \in Worker
        PROVE  Stands(v)'
    <3>1. CASE v = w
      BY <1>1, <1>2, <1>3, <1>4, <3>1 DEF Standing, Stands, Queue, Launched
    <3>2. CASE v # w
      BY <1>2, <1>3, <1>4, <3>2 DEF Standing, Stands, Queue, Launched
    <3> QED
      BY <3>1, <3>2
  <2> QED
    BY <2>1, <2>2 DEF Standing
<1>6. ASSUME NEW r \in Row, TwoLevel(r), NEW x \in Members(r)
      PROVE  Value(r, x)' = Value(r, x)
  <2>1. PICK i \in Shard : i = <<r, ShardOf(r, owner[x])>>
    BY <1>2, <1>3, <1>6, ClusterShards
  <2>2. i \in ShardsOf(Cluster(w)) <=> Lead(owner[x]) = w
    BY <1>2, <1>3, <1>6, <2>1, ClusterShards
  <2>3. Lead(owner[x]) \in Worker
    BY <1>2, <1>3, <1>6, ClusterShards
  <2>4. <<r, ShardOf(r, owner[x])>>' = i
    BY <1>1, <1>3, <2>1, TablesSame
  <2>5. /\ Fetched(owner[x]) <=> pc[Lead(owner[x])] \notin {"load", "done"}
        /\ Fetched(owner[x])' <=> pc'[Lead(owner[x])] \notin {"load", "done"}
    BY <1>3 DEF Fetched
  <2>6. global'[i] = IF Lead(owner[x]) = w THEN local[i] ELSE global[i]
    BY <1>1, <2>1, <2>2
  <2>7. /\ Value(r, x) = IF Fetched(owner[x]) THEN local[i] ELSE global[i]
        /\ Value(r, x)' = IF Fetched(owner[x])' THEN local[i] ELSE global'[i]
    BY <1>3, <2>1, <2>4 DEF Value
  <2>8. CASE Lead(owner[x]) = w
    BY <1>1, <1>4, <2>5, <2>6, <2>7, <2>8
  <2>9. CASE Lead(owner[x]) # w
    BY <1>4, <2>3, <2>5, <2>6, <2>7, <2>9
  <2> QED
    BY <2>8, <2>9
<1>7. \A v \in Worker : pc'[v] = pc[v] \/ {pc[v], pc'[v]} \subseteq Idle
  BY <1>1, <1>4 DEF Idle
<1>8. local' \in [Shard -> Nat] /\ global' \in [Shard -> Nat]
  BY <1>1, <1>2
<1>9. UNCHANGED <<tableVars, launchVars, arrivals, epoch, cur, rows, finished>>
  BY <1>1
<1> QED
  BY <1>4, <1>5, <1>6, <1>7, <1>8, <1>9, Barrier

LEMMA SyncIn_FanInv ==
    ASSUME FanInv, NEW u \in Worker, NEW c, c = Cluster(u), SyncIn(c)
    PROVE  FanInv'
<1>1. /\ \A w \in Worker : Cluster(w) = c => pc[w] = "sync"
      /\ pc' = [w \in Worker |-> IF Cluster(w) = c THEN "next" ELSE pc[w]]
      /\ UNCHANGED <<tableVars, launchVars, counterVars, cur, rows, finished>>
  BY DEF SyncIn
<1>2. /\ FanTypeOK /\ Standing /\ pc \in [Worker -> PC] /\ local \in [Shard -> Nat]
      /\ global \in [Shard -> Nat]
  BY DEF FanInv, FanTypeOK
<1>3. /\ Launched /\ Launched' /\ build.cluster /\ build' = build /\ owner' = owner
      /\ status' = status /\ cur' = cur /\ rows' = rows /\ finished' = finished
      /\ global' = global /\ local' = local
  <2>1. pc[u] = "sync"
    BY <1>1
  <2> QED
    BY <1>1, <1>2, <2>1, BuildFacts
    DEF Standing, Stands, Busy, Launched, launchVars, tableVars, counterVars
<1>4. /\ pc' \in [Worker -> PC]
      /\ \A v \in Worker : IF Cluster(v) = c THEN pc[v] = "sync" /\ pc'[v] = "next" ELSE pc'[v] = pc[v]
  BY <1>1, <1>2 DEF PC
<1>5. Standing'
  <2>1. Together'
    <3> SUFFICES ASSUME NEW v \in Worker
                 PROVE  pc'[v] \in Busy <=> pc'[Lead(v)] \in Busy
      BY DEF Together, Lead, Cluster
    <3>1. Lead(v) \in Worker /\ Cluster(Lead(v)) = Cluster(v)
      BY HeadFacts
    <3>2. pc[v] \in Busy <=> pc[Lead(v)] \in Busy
      BY <1>2, <1>3 DEF Standing, Together
    <3> QED
      BY <1>4, <3>1, <3>2 DEF Busy
  <2>2. ASSUME NEW v \in Worker
        PROVE  Stands(v)'
    <3>1. CASE Cluster(v) = c
      BY <1>1, <1>2, <1>3, <1>4, <3>1 DEF Standing, Stands, Queue, Launched, Busy
    <3>2. CASE Cluster(v) # c
      BY <1>2, <1>3, <1>4, <3>2 DEF Standing, Stands, Queue, Launched
    <3> QED
      BY <3>1, <3>2
  <2> QED
    BY <2>1, <2>2 DEF Standing
<1>6. \A r \in Row : TwoLevel(r) => \A x \in Members(r) : Value(r, x)' = Value(r, x)
  <2>1. \A v \in Worker : pc'[v] \in {"load", "done"} <=> pc[v] \in {"load", "done"}
    BY <1>4
  <2>2. UNCHANGED <<tableVars, launchVars, global, local>>
    BY <1>1, <1>3
  <2> QED
    BY <1>2, <2>1, <2>2, ValueSame
<1>7. \A v \in Worker : pc'[v] = pc[v] \/ {pc[v], pc'[v]} \subseteq Idle
  BY <1>4 DEF Idle
<1>8. local' \in [Shard -> Nat] /\ global' \in [Shard -> Nat]
  BY <1>2, <1>3
<1>9. UNCHANGED <<tableVars, launchVars, arrivals, epoch, cur, rows, finished>>
  BY <1>1 DEF counterVars
<1> QED
  BY <1>4, <1>5, <1>6, <1>7, <1>8, <1>9, Barrier

LEMMA SyncOut_FanInv ==
    ASSUME FanInv, NEW u \in Worker, NEW c, c = Cluster(u), SyncOut(c)
    PROVE  FanInv'
<1>1. /\ \A w \in Worker : Cluster(w) = c => pc[w] = "close"
      /\ pc' = [w \in Worker |->
                IF Cluster(w) # c THEN pc[w]
                ELSE IF Rank(w) = 0 THEN "save" ELSE "done"]
      /\ UNCHANGED <<tableVars, launchVars, counterVars, cur, rows, finished>>
  BY DEF SyncOut
<1>2. /\ FanTypeOK /\ Standing /\ pc \in [Worker -> PC] /\ local \in [Shard -> Nat]
      /\ global \in [Shard -> Nat]
  BY DEF FanInv, FanTypeOK
<1>3. /\ Launched /\ Launched' /\ build.cluster /\ build' = build /\ owner' = owner
      /\ status' = status /\ cur' = cur /\ rows' = rows /\ finished' = finished
      /\ global' = global /\ local' = local
  <2>1. pc[u] = "close"
    BY <1>1
  <2> QED
    BY <1>1, <1>2, <2>1, BuildFacts
    DEF Standing, Stands, Busy, Launched, launchVars, tableVars, counterVars
<1>4. /\ pc' \in [Worker -> PC]
      /\ \A v \in Worker :
            IF Cluster(v) = c THEN pc[v] = "close" /\ pc'[v] = (IF Rank(v) = 0 THEN "save" ELSE "done")
            ELSE pc'[v] = pc[v]
  BY <1>1, <1>2 DEF PC
<1>5. Standing'
  <2>1. Together'
    <3> SUFFICES ASSUME NEW v \in Worker
                 PROVE  pc'[v] \in Busy <=> pc'[Lead(v)] \in Busy
      BY DEF Together, Lead, Cluster
    <3>1. Lead(v) \in Worker /\ Cluster(Lead(v)) = Cluster(v)
      BY HeadFacts
    <3>2. pc[v] \in Busy <=> pc[Lead(v)] \in Busy
      BY <1>2, <1>3 DEF Standing, Together
    <3> QED
      BY <1>4, <3>1, <3>2 DEF Busy
  <2>2. ASSUME NEW v \in Worker
        PROVE  Stands(v)'
    <3>1. CASE Cluster(v) = c
      BY <1>1, <1>2, <1>3, <1>4, <3>1 DEF Standing, Stands, Queue, Launched, Busy
    <3>2. CASE Cluster(v) # c
      BY <1>2, <1>3, <1>4, <3>2 DEF Standing, Stands, Queue, Launched
    <3> QED
      BY <3>1, <3>2
  <2> QED
    BY <2>1, <2>2 DEF Standing
<1>6. ASSUME NEW r \in Row, TwoLevel(r), NEW x \in Members(r)
      PROVE  Value(r, x)' = Value(r, x)
  <2>1. PICK v \in Worker : v = owner[x] /\ Lead(v) \in Worker
    BY <1>2, BuildFacts, MembersInTask, HeadFacts
  <2>2. Rank(Lead(v)) = 0
    BY <2>1, HeadFacts
  <2>3. pc'[Lead(v)] \in {"load", "done"} <=> pc[Lead(v)] \in {"load", "done"}
    BY <1>4, <2>1, <2>2
  <2>4. Fetched(owner[x])' <=> Fetched(owner[x])
    BY <1>3, <2>1, <2>3 DEF Fetched
  <2>5. ShardOf(r, owner[x])' = ShardOf(r, owner[x])
    BY <1>1, <1>3, TablesSame
  <2> QED
    BY <1>3, <2>4, <2>5 DEF Value
<1>7. \A v \in Worker : pc'[v] = pc[v] \/ {pc[v], pc'[v]} \subseteq Idle
  BY <1>4 DEF Idle
<1>8. local' \in [Shard -> Nat] /\ global' \in [Shard -> Nat]
  BY <1>2, <1>3
<1>9. UNCHANGED <<tableVars, launchVars, arrivals, epoch, cur, rows, finished>>
  BY <1>1 DEF counterVars
<1> QED
  BY <1>4, <1>5, <1>6, <1>7, <1>8, <1>9, Barrier


LEMMA Init_FanInv ==
    ASSUME Init
    PROVE  FanInv
<1>1. /\ build \in Builds /\ owner \in Owners /\ status = "idle" /\ iteration = 0
      /\ global = [k \in Shard |-> 0] /\ local = [k \in Shard |-> 0]
      /\ arrivals = [r \in Row |-> 0] /\ epoch = [r \in Row |-> 0]
      /\ pc = [w \in Worker |-> "done"] /\ cur = [w \in Worker |-> NoTask]
      /\ rows = [w \in Worker |-> {}] /\ finished = {}
  BY DEF Init
<1>2. FanTypeOK
  BY <1>1 DEF FanTypeOK, PC
<1>3. Standing
  BY <1>1, HeadFacts DEF Standing, Together, Stands, Busy, Launched
<1>4. History
  BY <1>1 DEF History, Launched
<1>5. ShardInv
  <2> SUFFICES ASSUME NEW r \in Row, TwoLevel(r), NEW x \in Members(r)
               PROVE  Value(r, x) = ShardTarget(r, ShardOf(r, owner[x])) * iteration + 0
    BY <1>1 DEF ShardInv, Launched
  <2>1. PICK k \in Shard : k = <<r, ShardOf(r, owner[x])>>
    BY <1>2, ShardFacts
  <2>2. Value(r, x) = 0
    BY <1>1, <2>1 DEF Value
  <2>3. ShardTarget(r, ShardOf(r, owner[x])) \in Nat
    BY ShardCounted
  <2>4. ShardTarget(r, ShardOf(r, owner[x])) * iteration + 0 = 0
    BY <1>1, <2>3
  <2> QED
    BY <2>2, <2>4
<1>6. CountInv
  <2> SUFFICES ASSUME NEW r \in Row
               PROVE  0 = EventTriggers(r) * 0
    BY <1>1 DEF CountInv, Launched
  <2> QED
    BY SpeakersCounted
<1>7. CarryInv /\ EpochInv /\ PublishInv
  BY <1>1 DEF CarryInv, EpochInv, PublishInv
<1> QED
  BY <1>2, <1>3, <1>4, <1>5, <1>6, <1>7 DEF FanInv

\* Nothing has arrived yet, and the counters say so.
LEMMA Launch_FanInv ==
    ASSUME FanInv, Launch
    PROVE  FanInv'
<1>1. /\ status = "idle" /\ status' = "launched" /\ cur' = [w \in Worker |-> NoTask] /\ finished' = {}
      /\ pc' = [w \in Worker |->
                IF ~build.cluster THEN "next"
                ELSE IF Rank(w) = 0 THEN "load" ELSE "sync"]
      /\ UNCHANGED <<tableVars, iteration, counterVars, rows>>
  BY DEF Launch
<1>2. FanTypeOK /\ Standing /\ ShardInv /\ CountInv /\ EpochInv /\ ~Launched /\ iteration \in Nat
  BY <1>1 DEF FanInv, Launched, FanTypeOK
<1>3. /\ build' = build /\ owner' = owner /\ iteration' = iteration /\ global' = global
      /\ local' = local /\ arrivals' = arrivals /\ epoch' = epoch /\ rows' = rows /\ Launched'
  BY <1>1 DEF tableVars, counterVars, Launched
<1>4. \A w \in Worker : rows[w] = {} /\ cur'[w] = NoTask
         /\ pc'[w] = IF ~build.cluster THEN "next" ELSE IF Rank(w) = 0 THEN "load" ELSE "sync"
  BY <1>1, <1>2 DEF Standing, Stands
<1>5. FanTypeOK'
  <2>1. pc' \in [Worker -> PC] /\ cur' \in [Worker -> Task \cup {NoTask}]
    BY <1>1 DEF PC
  <2> QED
    BY <1>1, <1>2, <1>3, <2>1 DEF FanTypeOK
<1>6. Standing'
  <2>1. Together'
    <3> SUFFICES ASSUME build.cluster, NEW v \in Worker
                 PROVE  pc'[v] \in Busy <=> pc'[Lead(v)] \in Busy
      BY <1>3 DEF Together, Lead, Cluster
    <3> QED
      BY <1>4, HeadFacts DEF Busy
  <2>2. ASSUME NEW v \in Worker
        PROVE  Stands(v)'
    BY <1>3, <1>4 DEF Stands, Busy
  <2> QED
    BY <2>1, <2>2 DEF Standing
<1>7. History'
  <2>1. \A x \in Task : owner[x] \in Worker
    BY <1>2, BuildFacts
  <2> QED
    BY <1>1, <1>3, <1>4, <2>1 DEF History
<1>8. \A r \in Row : Arrived(r)' = {}
  BY <1>1 DEF Arrived
<1>9. ASSUME NEW r \in Row
      PROVE  Heard(r)' = {}
  <2>1. CASE TwoLevel(r)
    <3>1. /\ (TwoLevel(r)' <=> TwoLevel(r)) /\ ShardSet(r)' = ShardSet(r)
          /\ \A j : InShard(r, j)' = InShard(r, j)
      BY <1>1, TablesSame
    <3>2. \A j \in ShardSet(r) : ~(InShard(r, j) \subseteq {})
      BY DEF ShardSet, InShard
    <3> QED
      BY <1>8, <2>1, <3>1, <3>2 DEF Heard
  <2>2. CASE ~TwoLevel(r)
    BY <1>1, <1>8, <2>2, TablesSame DEF Heard
  <2> QED
    BY <2>1, <2>2
<1>10. ShardInv'
  <2> SUFFICES ASSUME NEW r \in Row, TwoLevel(r), NEW x \in Members(r)
               PROVE  (LET k == ShardOf(r, owner[x])
                       IN  Value(r, x) = ShardTarget(r, k) * iteration
                            + (IF Launched THEN Cardinality(InShard(r, k) \cap Arrived(r)) ELSE 0))'
    BY <1>1, TablesSame DEF ShardInv
  <2>1. PICK k : k = ShardOf(r, owner[x])
    OBVIOUS
  <2>2. ShardOf(r, owner[x])' = k /\ ShardTarget(r, k)' = ShardTarget(r, k)
    BY <1>1, <1>3, <2>1, TablesSame
  <2>3. ~Fetched(owner[x]) /\ ~Fetched(owner[x])'
    <3>1. owner[x] \in Worker /\ Lead(owner[x]) \in Worker /\ Rank(Lead(owner[x])) = 0
      BY <1>2, BuildFacts, MembersInTask, HeadFacts
    <3> QED
      BY <1>2, <1>3, <1>4, <3>1 DEF Fetched
  <2>4. Value(r, x)' = Value(r, x)
    BY <1>3, <2>1, <2>2, <2>3 DEF Value
  <2>5. PICK h \in Nat : h = ShardTarget(r, k) * iteration
    <3>1. ShardTarget(r, k) \in Nat
      BY ShardCounted
    <3> QED
      BY <1>2, <3>1, SMT
  <2>6. Value(r, x) = h
    BY <1>2, <2>1, <2>5 DEF ShardInv
  <2>7. Cardinality(InShard(r, k)' \cap Arrived(r)') = 0
    <3>1. InShard(r, k)' \cap Arrived(r)' = {}
      BY <1>8
    <3> QED
      BY <3>1, FS_EmptySet
  <2>8. (ShardTarget(r, k) * iteration)' = h
    BY <1>3, <2>2, <2>5
  <2> QED
    BY <1>3, <2>2, <2>4, <2>5, <2>6, <2>7, <2>8
<1>11. CountInv'
  <2> SUFFICES ASSUME NEW r \in Row
               PROVE  arrivals'[r] = IF Uncounted(r)' THEN 0
                                     ELSE EventTriggers(r)' * iteration' + Cardinality(Heard(r)')
    BY <1>3 DEF CountInv
  <2>1. PICK h \in Nat : h = EventTriggers(r) * iteration
    <3>1. EventTriggers(r) \in Nat
      BY SpeakersCounted
    <3> QED
      BY <1>2, <3>1, SMT
  <2>2. EventTriggers(r)' * iteration' = h /\ (Uncounted(r)' <=> Uncounted(r))
    BY <1>1, <1>3, <2>1, TablesSame
  <2>3. arrivals[r] = IF Uncounted(r) THEN 0 ELSE h
    BY <1>2, <2>1 DEF CountInv
  <2>4. Cardinality(Heard(r)') = 0
    BY <1>9, FS_EmptySet
  <2> QED
    BY <1>3, <2>1, <2>2, <2>3, <2>4
<1>12. EpochInv'
  BY <1>2, <1>3 DEF EpochInv
<1>13. CarryInv' /\ PublishInv'
  BY <1>4 DEF CarryInv, PublishInv
<1> QED
  BY <1>5, <1>6, <1>7, <1>10, <1>11, <1>12, <1>13 DEF FanInv

\* Every speaker has been heard, and every counter has gone up by its target.
LEMMA EndLaunch_FanInv ==
    ASSUME FanInv, EndLaunch
    PROVE  FanInv'
<1>1. /\ status = "launched" /\ status' = "idle" /\ iteration' = iteration + 1
      /\ \A w \in Worker : pc[w] = "done"
      /\ local' = [k \in Shard |-> 0]
      /\ UNCHANGED <<tableVars, global, arrivals, epoch, pc, cur, rows, finished>>
  BY DEF EndLaunch
<1>2. /\ FanTypeOK /\ Standing /\ ShardInv /\ CountInv /\ EpochInv /\ Launched /\ iteration \in Nat
      /\ ~Launched' /\ build' = build /\ owner' = owner
  BY <1>1 DEF FanInv, Launched, FanTypeOK, tableVars
<1>3. /\ finished = Task
      /\ \A r \in Row : Arrived(r) = Members(r) /\ Heard(r) = Speakers(r)
  BY <1>1, <1>2, AllDone
<1>4. FanTypeOK'
  BY <1>1, <1>2 DEF FanTypeOK
<1>5. Standing'
  <2>1. Together'
    <3> SUFFICES ASSUME NEW v \in Worker
                 PROVE  pc'[v] \in Busy <=> pc'[Lead(v)] \in Busy
      BY DEF Together, Lead, Cluster
    <3> QED
      BY <1>1, HeadFacts
  <2>2. ASSUME NEW v \in Worker
        PROVE  Stands(v)'
    BY <1>1, <1>2 DEF Standing, Stands, Queue, Busy
  <2> QED
    BY <2>1, <2>2 DEF Standing
<1>6. History'
  BY <1>1, <1>2, <1>3 DEF History
<1>7. ShardInv'
  <2> SUFFICES ASSUME NEW r \in Row, TwoLevel(r), NEW x \in Members(r)
               PROVE  (LET k == ShardOf(r, owner[x])
                       IN  Value(r, x) = ShardTarget(r, k) * iteration
                            + (IF Launched THEN Cardinality(InShard(r, k) \cap Arrived(r)) ELSE 0))'
    BY <1>1, TablesSame DEF ShardInv
  <2>1. PICK k : k = ShardOf(r, owner[x])
    OBVIOUS
  <2>2. ShardOf(r, owner[x])' = k /\ ShardTarget(r, k)' = ShardTarget(r, k)
    BY <1>1, <1>2, <2>1, TablesSame
  <2>3. ~Fetched(owner[x]) /\ ~Fetched(owner[x])'
    <3>1. Lead(owner[x]) \in Worker
      BY <1>2, BuildFacts, MembersInTask, HeadFacts
    <3> QED
      BY <1>1, <1>2, <3>1 DEF Fetched
  <2>4. Value(r, x)' = Value(r, x)
    BY <1>1, <2>1, <2>2, <2>3 DEF Value
  <2>5. PICK m \in Nat : m = ShardTarget(r, k) /\ Cardinality(InShard(r, k)) = m
    BY ShardCounted
  <2>6. InShard(r, k) \cap Arrived(r) = InShard(r, k)
    BY <1>3 DEF InShard
  <2>7. Value(r, x) = m * iteration + m
    BY <1>2, <2>1, <2>5, <2>6 DEF ShardInv
  <2>8. m * (iteration + 1) = m * iteration + m
    BY <1>2, <2>5, SMT
  <2>9. (ShardTarget(r, k) * iteration)' = m * (iteration + 1)
    BY <1>1, <2>2, <2>5
  <2>10. PICK h : h = m * (iteration + 1) /\ h \in Nat
    BY <1>2, <2>5, SMT
  <2>11. Value(r, x)' = h /\ (ShardTarget(r, k) * iteration)' = h
    BY <2>4, <2>7, <2>8, <2>9, <2>10, Zenon
  <2> QED
    BY <1>2, <2>2, <2>10, <2>11
<1>8. CountInv'
  <2> SUFFICES ASSUME NEW r \in Row
               PROVE  arrivals'[r] = IF Uncounted(r)' THEN 0 ELSE EventTriggers(r)' * iteration' + 0
    BY <1>2 DEF CountInv
  <2>1. PICK t \in Nat : t = EventTriggers(r) /\ Cardinality(Heard(r)) = t
    BY <1>3, SpeakersCounted
  <2>2. EventTriggers(r)' = t /\ (Uncounted(r)' <=> Uncounted(r))
    BY <1>1, <2>1, TablesSame
  <2>3. arrivals[r] = IF Uncounted(r) THEN 0 ELSE t * iteration + t
    BY <1>2, <2>1 DEF CountInv
  <2>4. t * (iteration + 1) + 0 = t * iteration + t
    BY <1>2, <2>1, SMT
  <2> QED
    BY <1>1, <2>2, <2>3, <2>4, Zenon
<1>9. EpochInv'
  <2>1. epoch \in [Row -> Nat]
    BY <1>2 DEF FanTypeOK
  <2>2. \A r \in Row : epoch'[r] <= iteration' + 1 /\ epoch'[r] # iteration' + 1
    BY <1>1, <1>2, <2>1 DEF EpochInv
  <2> QED
    BY <2>2 DEF EpochInv
<1>10. CarryInv' /\ PublishInv'
  BY <1>1 DEF CarryInv, PublishInv
<1> QED
  BY <1>4, <1>5, <1>6, <1>7, <1>8, <1>9, <1>10 DEF FanInv

LEMMA Stutter_FanInv ==
    ASSUME FanInv, UNCHANGED vars
    PROVE  FanInv'
<1>1. UNCHANGED <<tableVars, launchVars, arrivals, epoch, cur, rows, finished>>
      /\ build' = build /\ owner' = owner /\ status' = status
      /\ pc' = pc /\ global' = global /\ local' = local /\ cur' = cur /\ rows' = rows
      /\ finished' = finished
  BY DEF vars, counterVars, tableVars, launchVars
<1>2. FanTypeOK /\ Standing
  BY DEF FanInv
<1>3. Standing'
  BY <1>1, <1>2 DEF Standing, Together, Stands, Launched, Queue, RowOf, Lead, Cluster, Rank
<1>4. \A r \in Row : TwoLevel(r) => \A x \in Members(r) : Value(r, x)' = Value(r, x)
  <2>1. UNCHANGED <<tableVars, launchVars, global, local>>
    BY <1>1
  <2> QED
    BY <1>1, <1>2, <2>1, ValueSame
<1>5. pc' \in [Worker -> PC] /\ global' \in [Shard -> Nat] /\ local' \in [Shard -> Nat]
  BY <1>1, <1>2 DEF FanTypeOK
<1> QED
  BY <1>1, <1>3, <1>4, <1>5, Barrier

LEMMA Next_FanInv ==
    ASSUME ShardsAreUsed, FanInv, [Next]_vars
    PROVE  FanInv'
<1>1. CASE Launch
  BY <1>1, Launch_FanInv
<1>2. CASE EndLaunch
  BY <1>2, EndLaunch_FanInv
<1>3. ASSUME NEW w \in Worker, WorkerStep(w)
      PROVE  FanInv'
  BY <1>3, LoadCounters_FanInv, SaveCounters_FanInv, NextTask_FanInv, QueueEmpty_FanInv,
     Wait_FanInv, RunTask_FanInv, NotifyDone_FanInv, ArriveShard_FanInv, ArriveRed_FanInv,
     ArriveSolo_FanInv, ArriveTicket_FanInv, PublishEpoch_FanInv DEF WorkerStep
<1>4. ASSUME NEW w \in Worker, ClusterStep(Cluster(w))
      PROVE  FanInv'
  BY <1>4, SyncIn_FanInv, SyncOut_FanInv DEF ClusterStep
<1>5. CASE UNCHANGED vars
  BY <1>5, Stutter_FanInv
<1> QED
  BY <1>1, <1>2, <1>3, <1>4, <1>5 DEF Next


-----------------------------------------------------------------------------
(***************************************************************************)
(* Every step of the sharded kernel is a step of the task graph, or a      *)
(* stutter.                                                                *)
(***************************************************************************)
RunningNow == {cur[w] : w \in {v \in Worker : pc[v] = "run"}}

LEMMA SameGraph ==
    /\ Graph!Task = Task
    /\ \A x : Graph!Predecessors(x) = Predecessors(x)
<1>1. Graph!Task = Task
  BY DEF Graph!Task, Task, Graph!Stage, Stage
<1>2. ASSUME NEW x
      PROVE  Graph!Predecessors(x) = Predecessors(x)
  BY <1>1 DEF Graph!Predecessors, Predecessors, Graph!Incoming, Incoming,
              Graph!RuntimeDependencyBounds, RuntimeDependencyBounds
<1> QED
  BY <1>1, <1>2

LEMMA GraphStutter ==
    ASSUME finished' = finished,
           \A v \in Worker : (pc'[v] = "run" <=> pc[v] = "run")
                             /\ (pc[v] = "run" => cur'[v] = cur[v])
    PROVE  [Graph!Next]_(Graph!graphVars)
<1>1. RunningNow' = RunningNow
  BY DEF RunningNow
<1> QED
  BY <1>1 DEF RunningNow, Graph!graphVars

\* Among the rows a task polls is one of every producer it has.
LEMMA PolledRows ==
    ASSUME NEW x \in Task, NEW p \in Predecessors(x)
    PROVE  \E r \in Desired(x) : p \in Members(r)
<1>1. PICK d \in Incoming(x.stage) :
         p.stage = d.producer /\ p.logical \in RuntimeDependencyBounds(d, x.logical)
  BY DEF Predecessors
<1>2. p \in Task /\ d \in Dependencies /\ p.stage \in Stage
  BY TaskFields DEF Predecessors, Incoming
<1>3. CASE d.all
  <2>1. PICK r : r = [producer |-> p.stage, group |-> WholeStage]
    OBVIOUS
  <2>2. r \in Row
    BY <1>1, <1>2, <1>3, <2>1 DEF Row, NeedsAggregateEvent
  <2>3. r \in Desired(x)
    BY <1>1, <1>3, <2>1, <2>2 DEF Desired
  <2>4. p \in Members(r)
    BY <1>2, <2>1, <2>2 DEF Members, NotifyRows
  <2> QED
    BY <2>3, <2>4
<1>4. CASE ~d.all
  <2>1. PICK r : r = [producer |-> p.stage, group |-> Group(p)]
    OBVIOUS
  <2>2. r \in Row
    BY <1>1, <1>2, <1>4, <2>1 DEF Row, NeedsFineEvents
  <2>3. r \in Desired(x)
    BY <1>1, <1>4, <2>1, <2>2 DEF Desired, Group
  <2>4. p \in Members(r)
    BY <1>2, <2>1, <2>2 DEF Members, NotifyRows
  <2> QED
    BY <2>3, <2>4
<1> QED
  BY <1>3, <1>4

LEMMA Wait_Start ==
    ASSUME FanInv, NEW w \in Worker, WaitTaskDependencies(w)
    PROVE  [Graph!Next]_(Graph!graphVars)
<1>1. /\ pc[w] = "wait" /\ pc' = [pc EXCEPT ![w] = "run"] /\ cur' = cur /\ finished' = finished
      /\ \A r \in Desired(cur[w]) : EventReady(r)
  BY DEF WaitTaskDependencies
<1>2. PICK x \in Task : x = cur[w] /\ owner[x] = w
  BY <1>1, WorkerFacts DEF Stands, Queue
<1>3. /\ Launched /\ pc \in [Worker -> PC]
      /\ x \notin finished
  BY <1>1, <1>2, WorkerFacts DEF Queue
<1>4. pc'[w] = "run" /\ \A v \in Worker : v # w => pc'[v] = pc[v]
  BY <1>1, <1>3
<1>5. RunningNow' = RunningNow \cup {x}
  BY <1>1, <1>2, <1>4 DEF RunningNow
<1>6. Predecessors(x) \subseteq finished
  <2> SUFFICES ASSUME NEW p \in Predecessors(x)
               PROVE  p \in finished
    OBVIOUS
  <2>1. PICK r \in Desired(x) : p \in Members(r)
    BY PolledRows
  <2>2. r \in Row /\ EventReady(r)
    BY <1>1, <1>2 DEF Desired
  <2> QED
    BY <1>3, <2>1, <2>2, ReadyIsComplete
<1>7. x \notin RunningNow
  <2>1. \A v \in Worker : pc[v] = "run" => owner[cur[v]] = v
    BY WorkerFacts DEF Stands, Queue
  <2> QED
    BY <1>1, <1>2, <2>1 DEF RunningNow
<1>8. Graph!Start(x)
  BY <1>1, <1>3, <1>5, <1>6, <1>7, SameGraph DEF Graph!Start, RunningNow
<1> QED
  BY <1>8, SameGraph DEF Graph!Next

LEMMA RunTask_Finish ==
    ASSUME FanInv, NEW w \in Worker, RunTask(w)
    PROVE  [Graph!Next]_(Graph!graphVars)
<1>1. /\ pc[w] = "run" /\ pc' = [pc EXCEPT ![w] = "notify"] /\ cur' = cur
      /\ finished' = finished \cup {cur[w]}
  BY DEF RunTask
<1>2. PICK x \in Task : x = cur[w] /\ owner[x] = w
  BY <1>1, WorkerFacts DEF Stands, Queue
<1>3. \A v \in Worker : pc[v] = "run" /\ v # w => cur[v] # x
  <2>1. \A v \in Worker : pc[v] = "run" => owner[cur[v]] = v
    BY WorkerFacts DEF Stands, Queue
  <2> QED
    BY <1>2, <2>1
<1>4. pc'[w] = "notify" /\ \A v \in Worker : v # w => pc'[v] = pc[v]
  BY <1>1, WorkerFacts
<1>5. RunningNow' = RunningNow \ {x} /\ x \in RunningNow
  BY <1>1, <1>2, <1>3, <1>4 DEF RunningNow
<1>6. Graph!Finish(x)
  BY <1>1, <1>2, <1>5 DEF Graph!Finish, RunningNow
<1> QED
  BY <1>6, SameGraph DEF Graph!Next

LEMMA Launch_NextIteration ==
    ASSUME FanInv, Launch
    PROVE  [Graph!Next]_(Graph!graphVars)
<1>1. /\ finished \in {{}, Task} /\ finished' = {}
      /\ \A w \in Worker : pc[w] = "done" /\ pc'[w] # "run"
  BY DEF FanInv, History, Standing, Stands, Launch, Launched
<1>2. RunningNow = {} /\ RunningNow' = {}
  BY <1>1 DEF RunningNow
<1>3. CASE finished = {}
  BY <1>1, <1>3, GraphStutter
<1>4. CASE finished = Task
  <2>1. Graph!NextIteration
    BY <1>1, <1>2, <1>4, SameGraph DEF Graph!NextIteration, RunningNow
  <2> QED
    BY <2>1 DEF Graph!Next
<1> QED
  BY <1>1, <1>3, <1>4

\* A step of one CTA that neither starts nor ends a body.
LEMMA OtherStep ==
    ASSUME FanInv, NEW w \in Worker, finished' = finished, NEW q, q # "run", pc[w] # "run",
           pc' = [pc EXCEPT ![w] = q] \/ pc' = pc,
           \A v \in Worker : v # w => cur'[v] = cur[v]
    PROVE  [Graph!Next]_(Graph!graphVars)
<1>1. pc \in [Worker -> PC]
  BY DEF FanInv, FanTypeOK
<1>2. \A v \in Worker : (pc'[v] = "run" <=> pc[v] = "run") /\ (pc[v] = "run" => cur'[v] = cur[v])
  BY <1>1
<1> QED
  BY <1>2, GraphStutter

LEMMA WorkerStep_Refines ==
    ASSUME FanInv, NEW w \in Worker, WorkerStep(w)
    PROVE  [Graph!Next]_(Graph!graphVars)
<1>1. CASE WaitTaskDependencies(w)
  BY <1>1, Wait_Start
<1>2. CASE RunTask(w)
  BY <1>2, RunTask_Finish
<1>3. CASE NextTask(w)
  <2>1. /\ pc[w] # "run" /\ pc' = [pc EXCEPT ![w] = "wait"] /\ finished' = finished
        /\ \A v \in Worker : v # w => cur'[v] = cur[v]
    <3>1. cur \in [Worker -> Task \cup {NoTask}]
      BY DEF FanInv, FanTypeOK
    <3> QED
      BY <1>3, <3>1 DEF NextTask
  <2> QED
    BY <2>1, OtherStep
<1>4. CASE LoadCounters(w)
  BY <1>4, OtherStep DEF LoadCounters
<1>5. CASE SaveCounters(w)
  BY <1>5, OtherStep DEF SaveCounters
<1>6. CASE QueueEmpty(w)
  BY <1>6, OtherStep DEF QueueEmpty
<1>7. CASE NotifyDone(w)
  BY <1>7, OtherStep DEF NotifyDone
<1>8. CASE ArriveShard(w)
  BY <1>8, OtherStep DEF ArriveShard, ArrivesAtShard
<1>9. CASE ArriveRed(w)
  BY <1>9, OtherStep DEF ArriveRed, AtRow
<1>10. CASE ArriveSolo(w)
  BY <1>10, OtherStep DEF ArriveSolo, AtRow
<1>11. CASE ArriveTicket(w)
  BY <1>11, OtherStep DEF ArriveTicket, AtRow
<1>12. CASE PublishEpoch(w)
  BY <1>12, OtherStep DEF PublishEpoch
<1> QED
  BY <1>1, <1>2, <1>3, <1>4, <1>5, <1>6, <1>7, <1>8, <1>9, <1>10, <1>11, <1>12 DEF WorkerStep

LEMMA Step_Refines ==
    ASSUME FanInv, [Next]_vars
    PROVE  [Graph!Next]_(Graph!graphVars)
<1>1. CASE Launch
  BY <1>1, Launch_NextIteration
<1>2. CASE EndLaunch
  BY <1>2, GraphStutter DEF EndLaunch
<1>3. ASSUME NEW w \in Worker, WorkerStep(w)
      PROVE  [Graph!Next]_(Graph!graphVars)
  BY <1>3, WorkerStep_Refines
<1>4. ASSUME NEW c, SyncIn(c) \/ SyncOut(c)
      PROVE  [Graph!Next]_(Graph!graphVars)
  <2>1. \A v \in Worker : (pc'[v] = "run" <=> pc[v] = "run")
    BY <1>4 DEF SyncIn, SyncOut
  <2>2. finished' = finished /\ cur' = cur
    BY <1>4 DEF SyncIn, SyncOut
  <2> QED
    BY <2>1, <2>2, GraphStutter
<1>5. CASE UNCHANGED vars
  BY <1>5, GraphStutter DEF vars
<1> QED
  BY <1>1, <1>2, <1>3, <1>4, <1>5 DEF Next, ClusterStep

-----------------------------------------------------------------------------
(***************************************************************************)
(* Theorems of the specification.                                          *)
(***************************************************************************)
\* Both levels of counters, the history of the queues and the fetched copies
\* of a cluster agree in every reachable state.
THEOREM FanInductive ==
    ASSUME ShardsAreUsed
    PROVE  Spec => []FanInv
<1>1. Init => FanInv
  BY Init_FanInv
<1>2. FanInv /\ [Next]_vars => FanInv'
  BY Next_FanInv
<1> QED
  BY <1>1, <1>2, PTL DEF Spec

\* A row that satisfies its consumer has heard of every member of this launch
\* (EventReady over EventTriggers, ArriveEvent).
THEOREM RowsMeanMembers ==
    ASSUME ShardsAreUsed
    PROVE  Spec => []RowMeansMembers
BY FanInductive, FanInv_RowMeansMembers, PTL

\* Between launches every counter stands at its target times the launches that
\* have ended, and the counters of a cluster are back in global memory.
CountersSettled ==
    status = "idle" =>
        \A r \in Row :
            /\ ~Uncounted(r) => arrivals[r] = EventTriggers(r) * iteration
            /\ TwoLevel(r) => \A x \in Members(r) :
                  LET k == ShardOf(r, owner[x])
                  IN  global[<<r, k>>] = ShardTarget(r, k) * iteration

\* No arrival is lost by the fetch and the store of a cluster's counters
\* (cluster_shard_indices): the next launch begins with exact counts.
THEOREM CountersSettle ==
    ASSUME ShardsAreUsed
    PROVE  Spec => []CountersSettled
<1>1. ASSUME FanInv
      PROVE  CountersSettled
  <2> SUFFICES ASSUME status = "idle", NEW r \in Row
               PROVE  /\ ~Uncounted(r) => arrivals[r] = EventTriggers(r) * iteration
                      /\ TwoLevel(r) => \A x \in Members(r) :
                           LET k == ShardOf(r, owner[x])
                           IN  global[<<r, k>>] = ShardTarget(r, k) * iteration
    BY DEF CountersSettled
  <2>1. ~Launched /\ ShardInv /\ CountInv /\ iteration \in Nat
    BY <1>1 DEF FanInv, Launched, FanTypeOK
  <2>2. ~Uncounted(r) => arrivals[r] = EventTriggers(r) * iteration
    <3>1. PICK h \in Nat : h = EventTriggers(r) * iteration
      <4>1. EventTriggers(r) \in Nat
        BY SpeakersCounted
      <4> QED
        BY <2>1, <4>1, SMT
    <3>2. ~Uncounted(r) => arrivals[r] = h + 0
      BY <2>1, <3>1 DEF CountInv
    <3> QED
      BY <3>1, <3>2
  <2>3. ASSUME TwoLevel(r), NEW x \in Members(r), NEW k, k = ShardOf(r, owner[x])
        PROVE  global[<<r, k>>] = ShardTarget(r, k) * iteration
    <3>1. PICK h \in Nat : h = ShardTarget(r, k) * iteration
      <4>1. ShardTarget(r, k) \in Nat
        BY ShardCounted
      <4> QED
        BY <2>1, <4>1, SMT
    <3>2. Value(r, x) = h + 0
      BY <2>1, <2>3, <3>1 DEF ShardInv
    <3>3. Value(r, x) = global[<<r, k>>]
      BY <2>1, <2>3 DEF Value, Fetched
    <3> QED
      BY <3>1, <3>2, <3>3
  <2> QED
    BY <2>2, <2>3
<1> QED
  BY <1>1, FanInductive, PTL

\* Two levels of counters release every consumer as one counter would: tasks
\* run once per launch, after their producers.
THEOREM ShardedRefinement ==
    ASSUME ShardsAreUsed
    PROVE  Spec => ImplementsTaskGraph
<1>1. Init => Graph!Init
  BY DEF Init, Graph!Init
<1>2. FanInv /\ [Next]_vars => [Graph!Next]_(Graph!graphVars)
  BY Step_Refines
<1> QED
  BY <1>1, <1>2, FanInductive, PTL DEF Spec, ImplementsTaskGraph, Graph!Spec

-----------------------------------------------------------------------------
(***************************************************************************)
(* The persistent decode loop keeps its steps apart, for every plan, every *)
(* placement and every number of steps.                                    *)
(*                                                                         *)
(* Nothing in the loop stops a worker but its waits, and these count       *)
(* arrivals of all steps together.  The argument is that all tasks are     *)
(* always within one step of each other (StepInv): an embedding begins the *)
(* next step only when the tokens of this one are there, each result is    *)
(* read on the way to a token, and a body begins only behind what it       *)
(* reads (OrderInv).  Then a row that has reached n + 1 rounds can only    *)
(* have got there with one arrival of each member in each of these steps.  *)
(***************************************************************************)

-----------------------------------------------------------------------------
(***************************************************************************)
(* Progress in rounds.  Of a task in a queue, the rounds are the steps     *)
(* that its worker is past, and this step once the worker is at the task   *)
(* with one of the given program counters.                                 *)
(***************************************************************************)
Rounds(x, at) ==
    LET cursor == comp[OwnerOf(x)]
    IN  cursor.step + (IF \/ SlotOf(x) < cursor.slot
                          \/ SlotOf(x) = cursor.slot /\ cursor.pc \in at
                       THEN 1 ELSE 0)

AtPublish == {"reduce", "announce", "stamp", "publish"}
AtEnd == AtPublish \cup {"ticket"}
InReducer == {"reduce", "announce"}
AtBody == AtEnd \cup {"run"}

Elided(x) == x.stage \in ElidedStage
HandsOff(x) == Reducer[x.stage] # NoStage
InHand(y, at) == \E w \in PagedWorker : comp[w].pc = at /\ y \in Reduced(Cur(w))

\* Begun: how often the body has been started.  Done: how often its readers
\* may take it for done.  Shown: how often it has arrived at its rows.
Begun(x) ==
    IF Elided(x) THEN output[x] + 1 + (IF InHand(x, "reduce") THEN 1 ELSE 0)
    ELSE Rounds(x, AtBody)
Shown(x) ==
    IF Elided(x) THEN output[x] + 1 - (IF InHand(x, "announce") THEN 1 ELSE 0)
    ELSE Rounds(x, {})
Done(x) ==
    IF Elided(x) THEN Shown(x)
    ELSE IF HandsOff(x) THEN Rounds(x, AtPublish)
    ELSE Shown(x)

LoopMembers(r) == {x \in Task : r \in LoopNotify(x)}

-----------------------------------------------------------------------------
Placed(cursor, w) ==
    IF cursor.pc = "done" THEN Schedule[w] # <<>> => cursor.step = Steps /\ cursor.slot = 1
    ELSE cursor.slot \in DOMAIN Schedule[w] /\ cursor.step < Steps

LoopType ==
    /\ comp \in [PagedWorker -> [step : Nat, slot : Nat, page : Nat,
                            pc : AtBody \cup {"wait", "done"}]]
    /\ load \in [PagedWorker -> [step : Nat, slot : Nat, page : Nat,
                            pc : {"gate", "ahead", "lag", "peek", "fill", "done"}]]
    /\ ahead \in [PagedWorker -> [step : Nat, slot : Nat, page : Nat,
                             prefetched : Nat, loaded : Nat]]
    /\ arrived \in [LoopRow -> Nat]
    /\ ticket \in [{Reduced(x) : x \in Queued} -> Nat]
    /\ output \in [Task -> Nat \cup {Unwritten}]
    /\ \A w \in PagedWorker : /\ Placed(comp[w], w) /\ Placed(load[w], w)
                              /\ Schedule[w] # <<>> => ahead[w].slot \in DOMAIN Schedule[w]

\* A task is never ahead of another by more than the step it is in.
SpanInv(n) ==
    \A x \in Task : /\ Done(x) \in {n, n + 1} /\ Begun(x) \in {n, n + 1}
                    /\ Done(x) <= Begun(x)

RowCountInv(n) ==
    \A r \in LoopRow :
        arrived[r] = n * RawEventTriggers(r)
                        + Cardinality({x \in LoopMembers(r) : Shown(x) = n + 1})
                        - Cardinality({x \in LoopMembers(r) : Shown(x) = n - 1})

StepInv == \E n \in Nat : SpanInv(n) /\ RowCountInv(n)

OrderInv ==
    /\ \A x \in Task : \A p \in Predecessors(x) : Begun(x) <= Done(p)
    /\ \A x \in Queued : \A r \in DesiredOf(x) : \A p \in LoopMembers(r) : Begun(x) <= Done(p)

OutputInv == \A x \in Queued : output[x] + 1 = Rounds(x, AtEnd)

HandoffInv ==
    /\ \A w \in PagedWorker : comp[w].pc \in {"ticket", "reduce", "announce"} => HandsOff(Cur(w))
    /\ \A x \in Queued : \A y \in Reduced(x) :
          ticket[Reduced(x)] = Cardinality({p \in Producers(x) : Done(p) = output[y] + 2})
    /\ \A w \in PagedWorker : comp[w].pc = "reduce" =>
          /\ \A p \in Producers(Cur(w)) : Done(p) = comp[w].step + 1
          /\ \A y \in Reduced(Cur(w)) : output[y] + 1 = comp[w].step
    /\ \A v, w \in PagedWorker :
          comp[v].pc \in InReducer /\ comp[w].pc \in InReducer /\ Reduced(Cur(v)) = Reduced(Cur(w)) => v = w

\* A loader copies the past of a task only when it has been written.
HistoryHad(cursor, w) ==
    cursor.pc \in {"peek", "fill"} /\ TaskAt(cursor, w).stage # Embedding =>
        \A l \in Lags(TaskAt(cursor, w).stage) :
            \A p \in TasksOf(l.producer) : output[p] + 1 >= cursor.step

\* A page is prefetched only behind the gate of its stage.
GateHad(cursor, w) ==
    cursor.page > 0 =>
        LET g == Opaque[TaskAt(cursor, w).stage]
        IN  g # NoStage => \A p \in TasksOf(g) : output[p] >= cursor.step

LoaderInv == \A w \in PagedWorker : HistoryHad(load[w], w)
AheadInv == \A w \in PagedWorker : GateHad(ahead[w], w)

LoopInv ==
    /\ LoopType /\ StepInv /\ OrderInv /\ OutputInv /\ HandoffInv /\ LoaderInv /\ AheadInv
-----------------------------------------------------------------------------
(***************************************************************************)
(* Queues.                                                                 *)
(***************************************************************************)
LEMMA PlaceOfTask ==
    ASSUME NEW x \in Queued
    PROVE  /\ OwnerOf(x) \in PagedWorker
           /\ SlotOf(x) \in DOMAIN Schedule[OwnerOf(x)]
           /\ Schedule[OwnerOf(x)][SlotOf(x)] = x
           /\ SlotOf(x) \in Nat \ {0}
<1>1. PICK w \in PagedWorker : \E i \in DOMAIN Schedule[w] : Schedule[w][i] = x
  BY ScheduleAssumption
<1>2. OwnerOf(x) \in PagedWorker /\ \E i \in DOMAIN Schedule[OwnerOf(x)] : Schedule[OwnerOf(x)][i] = x
  BY <1>1, Zenon DEF OwnerOf
<1>3. SlotOf(x) \in DOMAIN Schedule[OwnerOf(x)] /\ Schedule[OwnerOf(x)][SlotOf(x)] = x
  BY <1>2, Zenon DEF SlotOf
<1>4. Schedule[OwnerOf(x)] \in Seq(Queued)
  BY <1>2, ScheduleAssumption
<1> QED
  BY <1>2, <1>3, <1>4

LEMMA TaskOfPlace ==
    ASSUME NEW w \in PagedWorker, NEW i \in DOMAIN Schedule[w]
    PROVE  /\ Schedule[w][i] \in Queued
           /\ OwnerOf(Schedule[w][i]) = w
           /\ SlotOf(Schedule[w][i]) = i
<1>1. Schedule[w] \in Seq(Queued)
  BY ScheduleAssumption
<1>2. Schedule[w][i] \in Queued
  BY <1>1
<1> QED
  BY <1>2, PlaceOfTask, ScheduleAssumption

LEMMA QueuedTasks == \A x \in Task : x \in Queued <=> ~Elided(x)
BY DEF Queued, Elided

LEMMA QueuedInTask == Queued \subseteq Task
BY DEF Queued

LEMMA CurFacts ==
    ASSUME LoopType, NEW w \in PagedWorker, comp[w].pc # "done"
    PROVE  /\ Cur(w) \in Queued /\ Cur(w) \in Task /\ ~Elided(Cur(w))
           /\ OwnerOf(Cur(w)) = w /\ SlotOf(Cur(w)) = comp[w].slot
           /\ comp[w].step \in Nat /\ comp[w].step < Steps
           /\ comp[w].slot \in DOMAIN Schedule[w]
<1>1. comp[w].slot \in DOMAIN Schedule[w] /\ comp[w].step < Steps /\ comp[w].step \in Nat
  BY DEF LoopType, Placed
<1> QED
  BY <1>1, TaskOfPlace, QueuedTasks, QueuedInTask DEF Cur, TaskAt

LEMMA CursorOf ==
    ASSUME LoopType, NEW x \in Queued
    PROVE  /\ OwnerOf(x) \in PagedWorker
           /\ comp[OwnerOf(x)].step \in Nat
           /\ comp[OwnerOf(x)].slot \in Nat
           /\ SlotOf(x) \in Nat \ {0}
BY PlaceOfTask DEF LoopType

LEMMA RoundsOrdered ==
    ASSUME LoopType, NEW x \in Queued
    PROVE  /\ \A at : Rounds(x, at) \in Nat
           /\ Rounds(x, {}) <= Rounds(x, AtPublish)
           /\ Rounds(x, AtPublish) <= Rounds(x, AtEnd)
           /\ Rounds(x, AtEnd) <= Rounds(x, AtBody)
           /\ Rounds(x, AtBody) <= Rounds(x, {}) + 1
BY CursorOf DEF Rounds, AtPublish, AtEnd, AtBody

\* The counts of a task at hand.
LEMMA RoundsOfCur ==
    ASSUME LoopType, NEW w \in PagedWorker, comp[w].pc # "done"
    PROVE  \A at : Rounds(Cur(w), at) = comp[w].step + (IF comp[w].pc \in at THEN 1 ELSE 0)
<1>1. PICK c \in Queued : c = Cur(w)
  BY CurFacts
<1>2. OwnerOf(c) = w /\ SlotOf(c) = comp[w].slot /\ comp[w].slot \in Nat
  BY <1>1, CurFacts DEF LoopType
<1>3. \A at : Rounds(c, at) = comp[w].step + (IF comp[w].pc \in at THEN 1 ELSE 0)
  BY <1>2 DEF Rounds
<1> QED
  BY <1>1, <1>3

\* A program counter moves: only the task at hand is counted anew.
LEMMA RoundsMove ==
    ASSUME LoopType, NEW w \in PagedWorker, comp[w].pc # "done", NEW pt, NEW page,
           comp' = [comp EXCEPT ![w] = [@ EXCEPT !.pc = pt, !.page = page]]
    PROVE  /\ \A at : Rounds(Cur(w), at)' = comp[w].step + (IF pt \in at THEN 1 ELSE 0)
           /\ \A at : \A x \in Queued \ {Cur(w)} : Rounds(x, at)' = Rounds(x, at)
           /\ Cur(w)' = Cur(w)
           /\ \A v \in PagedWorker \ {w} : Cur(v)' = Cur(v) /\ comp'[v] = comp[v]
           /\ comp'[w].pc = pt /\ comp'[w].step = comp[w].step /\ comp'[w].slot = comp[w].slot
           /\ comp'[w].page = page
<1>1. /\ comp'[w].pc = pt /\ comp'[w].step = comp[w].step /\ comp'[w].slot = comp[w].slot
      /\ comp'[w].page = page
      /\ \A v \in PagedWorker \ {w} : comp'[v] = comp[v]
  BY DEF LoopType
<1>2. Cur(w)' = Cur(w) /\ \A v \in PagedWorker \ {w} : Cur(v)' = Cur(v)
  BY <1>1 DEF Cur, TaskAt
<1>3. PICK c \in Queued : c = Cur(w)
  BY CurFacts
<1>4. OwnerOf(c) = w /\ SlotOf(c) = comp[w].slot /\ comp[w].slot \in Nat
  BY <1>3, CurFacts DEF LoopType
<1>5. \A at : Rounds(c, at)' = comp[w].step + (IF pt \in at THEN 1 ELSE 0)
  BY <1>1, <1>4 DEF Rounds
<1>6. ASSUME NEW at, NEW x \in Queued \ {c}
      PROVE  Rounds(x, at)' = Rounds(x, at)
  <2>1. CASE OwnerOf(x) # w
    BY <1>1, <2>1, PlaceOfTask DEF Rounds
  <2>2. CASE OwnerOf(x) = w
    <3>1. SlotOf(x) # comp[w].slot
      BY <1>3, <1>4, <2>2, PlaceOfTask DEF Cur, TaskAt
    <3> QED
      BY <1>1, <2>2, <3>1 DEF Rounds
  <2> QED
    BY <2>1, <2>2
<1>7. \A at : Rounds(Cur(w), at)' = comp[w].step + (IF pt \in at THEN 1 ELSE 0)
  BY <1>2, <1>3, <1>5, <1>4 DEF Rounds
<1> QED
  BY <1>1, <1>2, <1>3, <1>6, <1>7

\* The worker goes on: its task has been shown once more, and of no other is
\* anything counted anew.
LEMMA RoundsGoOn ==
    ASSUME LoopType, NEW w \in PagedWorker, comp[w].pc # "done", NEW c \in Queued, c = Cur(w),
           comp' = GoOn(comp, w, "wait")
    PROVE  /\ \A at : at \subseteq AtBody => Rounds(c, at)' = comp[w].step + 1
           /\ \A at : \A x \in Queued \ {c} :
                 at \subseteq AtBody => (IF OwnerOf(x) = w THEN Rounds(x, at)' = Rounds(x, {})
                                         ELSE Rounds(x, at)' = Rounds(x, at))
           /\ \A v \in PagedWorker \ {w} : Cur(v)' = Cur(v) /\ comp'[v] = comp[v]
           /\ comp'[w].pc \in {"wait", "done"}
           /\ comp'[w] \in [step : Nat, slot : Nat, page : Nat, pc : {"wait", "done"}]
           /\ Placed(comp'[w], w)
<1> DEFINE q == Schedule[w]
<1>1. PICK r \in [step : Nat, slot : Nat, page : Nat, pc : AtBody \cup {"wait", "done"}] :
        r = comp[w]
  BY DEF LoopType
<1>2. /\ OwnerOf(c) = w /\ SlotOf(c) = comp[w].slot /\ comp[w].slot \in DOMAIN q
      /\ comp[w].step \in Nat /\ comp[w].step < Steps /\ Steps \in Nat
  BY CurFacts, PagedAssumption
<1>3. q \in Seq(Queued) /\ DOMAIN q = 1 .. Len(q) /\ Len(q) \in Nat
  BY ScheduleAssumption
<1>4. /\ comp'[w] = [NextSlot(r, w) EXCEPT
                       !.pc = IF NextSlot(r, w).step < Steps THEN "wait" ELSE "done"]
      /\ \A v \in PagedWorker \ {w} : comp'[v] = comp[v]
  BY <1>1 DEF GoOn, LoopType
<1>5. CASE comp[w].slot < Len(q)
  <2>1. /\ comp'[w].step = comp[w].step /\ comp'[w].slot = comp[w].slot + 1
        /\ comp'[w].page = 0 /\ comp'[w].pc = "wait"
        /\ comp'[w] \in [step : Nat, slot : Nat, page : Nat, pc : {"wait", "done"}]
    <3>1. NextSlot(r, w) = [r EXCEPT !.slot = r.slot + 1, !.page = 0]
      BY <1>1, <1>5 DEF NextSlot
    <3>2. NextSlot(r, w).step < Steps
      BY <1>1, <1>2, <3>1
    <3>3. comp'[w] = [step |-> r.step, slot |-> r.slot + 1, page |-> 0, pc |-> "wait"]
      BY <1>4, <3>1, <3>2
    <3> QED
      BY <1>1, <3>3
  <2>2. Placed(comp'[w], w)
    BY <1>2, <1>3, <1>5, <2>1 DEF Placed
  <2>3. ASSUME NEW at, at \subseteq AtBody
        PROVE  Rounds(c, at)' = comp[w].step + 1
    BY <1>2, <1>3, <2>1 DEF Rounds
  <2>4. ASSUME NEW at, NEW x \in Queued \ {c}, at \subseteq AtBody, OwnerOf(x) = w
        PROVE  Rounds(x, at)' = Rounds(x, {})
    <3>1. SlotOf(x) # comp[w].slot /\ SlotOf(x) \in Nat \ {0}
      BY <2>4, PlaceOfTask DEF Cur, TaskAt
    <3>2. "wait" \notin at
      BY <2>4 DEF AtBody, AtEnd, AtPublish
    <3> QED
      BY <1>2, <1>3, <2>1, <2>4, <3>1, <3>2 DEF Rounds
  <2>5. \A at : \A x \in Queued : OwnerOf(x) # w => Rounds(x, at)' = Rounds(x, at)
    BY <1>4, PlaceOfTask DEF Rounds
  <2>6. \A v \in PagedWorker \ {w} : Cur(v)' = Cur(v)
    BY <1>4 DEF Cur, TaskAt
  <2> QED
    BY <1>4, <2>1, <2>2, <2>3, <2>4, <2>5, <2>6
<1>6. CASE ~(comp[w].slot < Len(q))
  <2>1. /\ comp'[w].step = comp[w].step + 1 /\ comp'[w].slot = 1
        /\ comp'[w].page = 0 /\ comp'[w].pc \in {"wait", "done"}
        /\ comp'[w].pc = "done" <=> comp[w].step + 1 = Steps
        /\ comp'[w] \in [step : Nat, slot : Nat, page : Nat, pc : {"wait", "done"}]
    <3>1. NextSlot(r, w) = [r EXCEPT !.step = r.step + 1, !.slot = 1, !.page = 0]
      BY <1>1, <1>6 DEF NextSlot
    <3>2. comp'[w] = [step |-> r.step + 1, slot |-> 1, page |-> 0,
                      pc |-> IF r.step + 1 < Steps THEN "wait" ELSE "done"]
      BY <1>4, <3>1
    <3> QED
      BY <1>1, <1>2, <3>2
  <2>2. Placed(comp'[w], w)
    BY <1>2, <1>3, <1>6, <2>1 DEF Placed
  <2>3. ASSUME NEW at, at \subseteq AtBody, NEW x \in Queued, OwnerOf(x) = w
        PROVE  Rounds(x, at)' = comp[w].step + 1
    <3>1. SlotOf(x) \in Nat \ {0}
      BY <2>3, PlaceOfTask
    <3>2. {"wait", "done"} \cap at = {}
      BY <2>3 DEF AtBody, AtEnd, AtPublish
    <3> QED
      BY <1>2, <2>1, <2>3, <3>1, <3>2 DEF Rounds
  <2>4. ASSUME NEW x \in Queued \ {c}, OwnerOf(x) = w
        PROVE  Rounds(x, {}) = comp[w].step + 1
    <3>1. SlotOf(x) # comp[w].slot /\ SlotOf(x) \in Nat \ {0} /\ SlotOf(x) \in DOMAIN q
      BY <2>4, PlaceOfTask DEF Cur, TaskAt
    <3> QED
      BY <1>2, <1>3, <1>6, <2>4, <3>1 DEF Rounds
  <2>5. \A at : \A x \in Queued : OwnerOf(x) # w => Rounds(x, at)' = Rounds(x, at)
    BY <1>4, PlaceOfTask DEF Rounds
  <2>6. \A v \in PagedWorker \ {w} : Cur(v)' = Cur(v)
    BY <1>4 DEF Cur, TaskAt
  <2> QED
    BY <1>2, <1>4, <2>1, <2>2, <2>3, <2>4, <2>5, <2>6
<1> QED
  BY <1>2, <1>3, <1>5, <1>6

-----------------------------------------------------------------------------
(***************************************************************************)
(* Rows, and what a count of arrivals means.                               *)
(***************************************************************************)
LEMMA LoopRowMembers ==
    ASSUME NEW r \in LoopRow
    PROVE  /\ LoopMembers(r) \subseteq Task
           /\ IsFiniteSet(LoopMembers(r))
           /\ Cardinality(LoopMembers(r)) = RawEventTriggers(r)
           /\ RawEventTriggers(r) \in Nat
           /\ r.group = WholeStage => LoopMembers(r) = TasksOf(r.producer)
<1>1. LoopMembers(r) = {x \in Task : r.producer = x.stage /\ r.group \in {WholeStage, Group(x)}}
  BY DEF LoopMembers, LoopNotify
<1>2. r.group = WholeStage => LoopMembers(r) = TasksOf(r.producer)
  BY <1>1 DEF TasksOf
<1>3. CASE r \in Row
  <2>1. LoopMembers(r) = Members(r)
    BY <1>1, <1>3 DEF Members, NotifyRows
  <2> QED
    BY <1>2, <1>3, <2>1, TriggersCountMembers, MembersInTask, FS_CardinalityType
<1>4. CASE r \notin Row
  <2>1. r.producer \in Stage /\ r.group = WholeStage
    BY <1>4, PagedAssumption DEF LoopRow, LagRows, GateRows
  <2>2. RawEventTriggers(r) = Count[r.producer] /\ Count[r.producer] \in Nat
    BY <2>1, GraphAssumption DEF RawEventTriggers
  <2> QED
    BY <1>2, <2>1, <2>2, StageTasks DEF TasksOf
<1> QED
  BY <1>3, <1>4

LEMMA AggregateRow ==
    ASSUME NEW s \in Stage, Aggregate(s) \in LoopRow
    PROVE  LoopMembers(Aggregate(s)) = TasksOf(s)
BY LoopRowMembers DEF Aggregate

LEMMA LagRow ==
    ASSUME NEW s, NEW l \in Lags(s)
    PROVE  l.producer \in Stage /\ Aggregate(l.producer) \in LoopRow
BY PagedAssumption DEF Lags, LoopRow, LagRows, Aggregate

LEMMA GateRow ==
    ASSUME NEW s \in Stage, Opaque[s] # NoStage
    PROVE  Opaque[s] \in Stage /\ Aggregate(Opaque[s]) \in LoopRow
BY PagedAssumption DEF LoopRow, GateRows, Aggregate

\* The counts of a task in their order: it is done no later than its body has
\* ended, and shown one round behind at most.
Ordered ==
    \A x \in Task :
        /\ Begun(x) \in Int /\ Done(x) \in Int /\ Shown(x) \in Int /\ output[x] \in Int
        /\ Shown(x) \in {Done(x) - 1, Done(x)}
        /\ Done(x) <= output[x] + 1 /\ output[x] + 1 <= Begun(x)

LEMMA CountsOrdered == LoopType /\ OutputInv => Ordered
<1> SUFFICES ASSUME LoopType, OutputInv, NEW x \in Task
             PROVE  /\ Begun(x) \in Int /\ Done(x) \in Int /\ Shown(x) \in Int /\ output[x] \in Int
                    /\ Shown(x) \in {Done(x) - 1, Done(x)}
                    /\ Done(x) <= output[x] + 1 /\ output[x] + 1 <= Begun(x)
  BY DEF Ordered
<1>1. output[x] \in Int
  BY DEF LoopType, Unwritten
<1>2. CASE Elided(x)
  BY <1>1, <1>2 DEF Begun, Done, Shown
<1>3. CASE ~Elided(x)
  <2>1. x \in Queued
    BY <1>3, QueuedTasks
  <2>2. output[x] + 1 = Rounds(x, AtEnd)
    BY <2>1 DEF OutputInv
  <2>3. Begun(x) = Rounds(x, AtBody) /\ Shown(x) = Rounds(x, {})
    BY <1>3 DEF Begun, Shown
  <2>4. CASE HandsOff(x)
    <3>1. Done(x) = Rounds(x, AtPublish)
      BY <1>3, <2>4 DEF Done
    <3> QED
      BY <1>1, <2>1, <2>2, <2>3, <3>1, RoundsOrdered
  <2>5. CASE ~HandsOff(x)
    <3>1. Done(x) = Rounds(x, {})
      BY <1>3, <2>3, <2>5 DEF Done
    <3> QED
      BY <1>1, <2>1, <2>2, <2>3, <3>1, RoundsOrdered
  <2> QED
    BY <2>4, <2>5
<1> QED
  BY <1>2, <1>3

\* A row that has reached a round the tasks are only just beginning has an
\* arrival of each member in each round up to it.
LEMMA ReachedMeansShown ==
    ASSUME NEW n \in Nat, Ordered, SpanInv(n), RowCountInv(n),
           NEW r \in LoopRow, NEW m \in Nat, m > n, Reached(r, m)
    PROVE  \A p \in LoopMembers(r) : Shown(p) = n + 1 /\ m = n + 1
<1> DEFINE M == LoopMembers(r)
           A == {x \in M : Shown(x) = n + 1}
           Z == {x \in M : Shown(x) = n - 1}
<1>1. M \subseteq Task /\ IsFiniteSet(M)
  BY LoopRowMembers
<1>2. IsFiniteSet(A) /\ Cardinality(A) \in Nat /\ Cardinality(A) <= Cardinality(M)
      /\ (Cardinality(A) = Cardinality(M) => A = M)
  BY <1>1, FS_Subset, FS_CardinalityType
<1>3. Cardinality(Z) \in Nat
  BY <1>1, FS_Subset, FS_CardinalityType
<1>4. PICK t \in Nat : t = RawEventTriggers(r) /\ t = Cardinality(M)
  BY LoopRowMembers
<1>5. arrived[r] = n * t + Cardinality(A) - Cardinality(Z)
  BY <1>4 DEF RowCountInv
<1>6. arrived[r] >= t * m
  BY <1>4 DEF Reached
<1>7. PICK k \in Nat : m = n + 1 + k
  <2>1. m - n - 1 \in Nat /\ m = n + 1 + (m - n - 1)
    OBVIOUS
  <2> QED
    BY <2>1
<1>8. t * m = n * t + t + t * k /\ t * k \in Nat /\ (t > 0 /\ k > 0 => t * k > 0) /\ n * t \in Nat
  BY <1>7
<1>9. t + t * k <= Cardinality(A)
  <2> DEFINE a == Cardinality(A)
             z == Cardinality(Z)
             u == n * t
             v == t * k
  <2>1. a \in Nat /\ z \in Nat /\ u \in Nat /\ v \in Nat
    BY <1>2, <1>3, <1>8
  <2>2. u + a - z >= u + t + v
    BY <1>5, <1>6, <1>8
  <2> HIDE DEF a, z, u, v
  <2>3. t + v <= a
    BY <2>1, <2>2, <1>4
  <2> QED
    BY <2>3 DEF a, v
<1>10. Cardinality(A) = Cardinality(M) /\ t * k = 0
  <2> DEFINE v == t * k
  <2>1. v \in Nat /\ t + v <= Cardinality(A) /\ Cardinality(A) <= t
    BY <1>2, <1>4, <1>8, <1>9
  <2> HIDE DEF v
  <2>2. v = 0 /\ Cardinality(A) = t
    BY <2>1, <1>2, <1>4
  <2> QED
    BY <2>2, <1>4 DEF v
<1> SUFFICES ASSUME NEW p \in M
             PROVE  Shown(p) = n + 1 /\ m = n + 1
  OBVIOUS
<1>11. Shown(p) = n + 1
  BY <1>2, <1>10
<1>12. t > 0
  BY <1>1, <1>4, FS_EmptySet
<1> QED
  BY <1>7, <1>8, <1>10, <1>11, <1>12

\* Once every task has been done for the round, the next one is at hand.
LEMMA NextRound ==
    ASSUME NEW n \in Nat, Ordered, SpanInv(n), RowCountInv(n), \A x \in Task : Done(x) = n + 1
    PROVE  SpanInv(n + 1) /\ RowCountInv(n + 1)
<1>1. SpanInv(n + 1)
  BY DEF SpanInv, Ordered
<1>2. ASSUME NEW r \in LoopRow
      PROVE  arrived[r] = (n + 1) * RawEventTriggers(r)
                + Cardinality({x \in LoopMembers(r) : Shown(x) = (n + 1) + 1})
                - Cardinality({x \in LoopMembers(r) : Shown(x) = (n + 1) - 1})
  <2> DEFINE M == LoopMembers(r)
             A == {x \in M : Shown(x) = n + 1}
             Z == {x \in M : Shown(x) = n - 1}
             B == {x \in M : Shown(x) = (n + 1) + 1}
             Y == {x \in M : Shown(x) = (n + 1) - 1}
  <2>1. M \subseteq Task /\ IsFiniteSet(M)
    BY LoopRowMembers
  <2>2. \A x \in M : Shown(x) \in {n, n + 1}
    BY <2>1 DEF Ordered
  <2>3. Z = {} /\ B = {} /\ Y = M \ A /\ A \subseteq M
    BY <2>2
  <2>4. IsFiniteSet(A) /\ Cardinality(A) \in Nat
    BY <2>1, <2>3, FS_Subset, FS_CardinalityType
  <2>5. Cardinality(Y) = Cardinality(M) - Cardinality(A)
    <3>1. M \cap A = A
      BY <2>3
    <3>2. Cardinality(M \ A) = Cardinality(M) - Cardinality(M \cap A)
      BY <2>1, <2>4, FS_Difference
    <3> QED
      BY <2>3, <3>1, <3>2
  <2>6. Cardinality(Z) = 0 /\ Cardinality(B) = 0
    BY <2>3, FS_EmptySet
  <2>7. PICK t \in Nat : t = RawEventTriggers(r) /\ t = Cardinality(M)
    BY LoopRowMembers
  <2>8. arrived[r] = n * t + Cardinality(A) - Cardinality(Z)
    BY <2>7 DEF RowCountInv
  <2>9. (n + 1) * t = n * t + t /\ n * t \in Nat
    BY <2>7
  <2>10. arrived[r] = (n + 1) * t + Cardinality(B) - Cardinality(Y)
    <3> DEFINE a == Cardinality(A)
               u == n * t
    <3>1. arrived[r] = u + a - 0 /\ (n + 1) * t = u + t /\ Cardinality(Y) = t - a
      BY <2>5, <2>6, <2>7, <2>8, <2>9
    <3>2. a \in Nat /\ u \in Nat /\ t \in Nat
      BY <2>4, <2>7, <2>9
    <3> HIDE DEF a, u
    <3> QED
      BY <2>6, <3>1, <3>2
  <2> QED
    BY <2>7, <2>10
<1> QED
  BY <1>1, <1>2 DEF RowCountInv

\* When the tokens of a round are there, every task has been done for it.
LEMMA TokensMeanAll ==
    ASSUME NEW n \in Nat, Ordered, SpanInv(n), OrderInv,
           \A x \in TasksOf(Argmax) : Done(x) = n + 1
    PROVE  \A x \in Task : Done(x) = n + 1
<1> DEFINE Late == {x \in Task : Done(x) # n + 1}
           Ranks == {StageCount - x.stage : x \in Late}
<1> SUFFICES ASSUME Late # {} PROVE FALSE
  OBVIOUS
<1>1. StageCount \in Nat
  BY GraphAssumption
<1>2. Ranks \in SUBSET Nat /\ Ranks # {}
  BY <1>1, TaskFields DEF Stage
<1>3. PICK k \in Ranks : \A j \in Ranks : k <= j
  <2> HIDE DEF Ranks
  <2> QED
    BY <1>2, LeastNatural
<1>4. PICK x \in Late : k = StageCount - x.stage
  OBVIOUS
<1>5. x \in Task /\ x.stage # Argmax
  BY <1>4 DEF TasksOf
<1>6. PICK y \in Task : x \in Predecessors(y)
  BY <1>5, DecoderAssumption
<1>7. x.stage < y.stage /\ x.stage \in Nat /\ y.stage \in Nat
  BY <1>5, <1>6, TaskFields, GraphAssumption DEF Predecessors, Incoming, Stage
<1>8. y \notin Late
  <2>1. ~(k <= StageCount - y.stage)
    BY <1>1, <1>4, <1>7
  <2> QED
    BY <1>3, <1>6, <2>1
<1>9. Done(y) = n + 1 /\ Done(y) <= Begun(y) /\ Begun(y) <= Done(x) /\ Done(x) \in {n, n + 1}
      /\ Begun(y) \in {n, n + 1}
  BY <1>5, <1>6, <1>8 DEF SpanInv, OrderInv
<1> QED
  BY <1>4, <1>9

-----------------------------------------------------------------------------
(***************************************************************************)
(* A step counts tasks: it begins those in B, is done with those in D and  *)
(* shows those in S.                                                       *)
(***************************************************************************)
One(x, X) == IF x \in X THEN 1 ELSE 0

Counted(B, D, S) ==
    \A x \in Task : /\ Begun(x)' = Begun(x) + One(x, B)
                    /\ Done(x)' = Done(x) + One(x, D)
                    /\ Shown(x)' = Shown(x) + One(x, S)

\* Each row gains the members shown.
Arrive(S) ==
    \A r \in LoopRow : arrived'[r] = arrived[r] + Cardinality(S \cap LoopMembers(r))

LEMMA GrowSpan ==
    ASSUME NEW n \in Nat, NEW B \in SUBSET Task, NEW D \in SUBSET Task, NEW S \in SUBSET Task,
           Ordered, SpanInv(n), OrderInv, Counted(B, D, S),
           \A x \in B : Begun(x) = n,
           \A x \in D : Done(x) = n /\ Begun(x) = n + 1,
           \A x \in B : \A p \in Predecessors(x) : Done(p)' = n + 1,
           \A x \in B \cap Queued : \A r \in DesiredOf(x) : \A p \in LoopMembers(r) : Done(p)' = n + 1
    PROVE  SpanInv(n)' /\ OrderInv'
<1>1. ASSUME NEW x \in Task
      PROVE  /\ Done(x)' \in {n, n + 1} /\ Begun(x)' \in {n, n + 1} /\ Done(x)' <= Begun(x)'
             /\ Done(x) <= Done(x)' /\ Begun(x)' \in {Begun(x), n + 1}
             /\ x \notin B => Begun(x)' = Begun(x)
             /\ x \in B => Begun(x)' = n + 1
  BY DEF Counted, One, SpanInv, Ordered
<1>2. SpanInv(n)'
  BY <1>1 DEF SpanInv
<1>3. ASSUME NEW x \in Task, NEW p \in Predecessors(x)
      PROVE  Begun(x)' <= Done(p)'
  <2>1. p \in Task
    BY DEF Predecessors
  <2>2. CASE x \in B
    BY <1>1, <2>2
  <2>3. CASE x \notin B
    <3>1. Begun(x) <= Done(p)
      BY DEF OrderInv
    <3>2. Begun(x)' = Begun(x) /\ Done(p) <= Done(p)'
      BY <1>1, <2>1, <2>3
    <3>3. Begun(x) \in Int /\ Done(p) \in Int /\ Done(p)' \in Int
      BY <1>1, <2>1 DEF Ordered
    <3> QED
      BY <3>1, <3>2, <3>3
  <2> QED
    BY <2>2, <2>3
<1>4. ASSUME NEW x \in Queued, NEW r \in DesiredOf(x), NEW p \in LoopMembers(r)
      PROVE  Begun(x)' <= Done(p)'
  <2>1. p \in Task /\ x \in Task
    BY QueuedInTask DEF LoopMembers
  <2>2. CASE x \in B
    BY <1>1, <2>1, <2>2
  <2>3. CASE x \notin B
    <3>1. Begun(x) <= Done(p)
      BY DEF OrderInv
    <3>2. Begun(x)' = Begun(x) /\ Done(p) <= Done(p)'
      BY <1>1, <2>1, <2>3
    <3>3. Begun(x) \in Int /\ Done(p) \in Int /\ Done(p)' \in Int
      BY <1>1, <2>1 DEF Ordered
    <3> QED
      BY <3>1, <3>2, <3>3
  <2> QED
    BY <2>2, <2>3
<1>5. OrderInv'
  BY <1>3, <1>4 DEF OrderInv
<1> QED
  BY <1>2, <1>5

LEMMA GrowCount ==
    ASSUME NEW n \in Nat, NEW B \in SUBSET Task, NEW D \in SUBSET Task, NEW S \in SUBSET Task,
           Ordered, SpanInv(n), RowCountInv(n), Counted(B, D, S), Arrive(S),
           \A x \in S : Shown(x) # n + 1
    PROVE  RowCountInv(n)'
<1>1. ASSUME NEW r \in LoopRow
      PROVE  arrived'[r] = n * RawEventTriggers(r)
                + Cardinality({x \in LoopMembers(r) : Shown(x)' = n + 1})
                - Cardinality({x \in LoopMembers(r) : Shown(x)' = n - 1})
  <2> DEFINE M == LoopMembers(r)
             A == {x \in M : Shown(x) = n + 1}
             Z == {x \in M : Shown(x) = n - 1}
             U == {x \in S \cap M : Shown(x) = n}
             V == {x \in S \cap M : Shown(x) = n - 1}
             AN == {x \in M : Shown(x)' = n + 1}
             ZN == {x \in M : Shown(x)' = n - 1}
  <2>1. M \subseteq Task /\ IsFiniteSet(M)
    BY LoopRowMembers
  <2>2. \A x \in M : Shown(x) \in {n - 1, n, n + 1} /\ Shown(x)' = Shown(x) + One(x, S)
    BY <2>1 DEF SpanInv, Ordered, Counted
  <2>3. AN = A \cup U /\ A \cap U = {}
    BY <2>2 DEF One
  <2>4. ZN = Z \ V /\ V \subseteq Z /\ Z \cap V = V
    BY <2>2 DEF One
  <2>5. S \cap M = U \cup V /\ U \cap V = {}
    BY <2>2
  <2>6. /\ IsFiniteSet(A) /\ IsFiniteSet(Z) /\ IsFiniteSet(U) /\ IsFiniteSet(V)
        /\ Cardinality(A) \in Nat /\ Cardinality(Z) \in Nat
        /\ Cardinality(U) \in Nat /\ Cardinality(V) \in Nat
    BY <2>1, FS_Subset, FS_CardinalityType
  <2>7. Cardinality(AN) = Cardinality(A) + Cardinality(U)
    <3>1. Cardinality(A \cup U) = Cardinality(A) + Cardinality(U) - Cardinality(A \cap U)
      BY <2>6, FS_Union
    <3>2. Cardinality(A \cap U) = 0
      BY <2>3, FS_EmptySet
    <3> QED
      BY <2>3, <2>6, <3>1, <3>2
  <2>8. Cardinality(ZN) = Cardinality(Z) - Cardinality(V)
    <3>1. Cardinality(Z \ V) = Cardinality(Z) - Cardinality(Z \cap V)
      BY <2>6, FS_Difference
    <3> QED
      BY <2>4, <3>1
  <2>9. Cardinality(S \cap M) = Cardinality(U) + Cardinality(V)
    <3>1. Cardinality(U \cup V) = Cardinality(U) + Cardinality(V) - Cardinality(U \cap V)
      BY <2>6, FS_Union
    <3>2. Cardinality(U \cap V) = 0
      BY <2>5, FS_EmptySet
    <3>3. Cardinality(S \cap M) = Cardinality(U \cup V)
      BY <2>5
    <3> HIDE DEF U, V, M
    <3> QED
      BY <2>6, <3>1, <3>2, <3>3
  <2>10. PICK t \in Nat : t = n * RawEventTriggers(r)
    BY LoopRowMembers
  <2>11. arrived[r] = t + Cardinality(A) - Cardinality(Z)
    BY <2>10 DEF RowCountInv
  <2>12. arrived'[r] = arrived[r] + Cardinality(S \cap M)
    BY DEF Arrive
  <2>13. arrived'[r] = t + Cardinality(AN) - Cardinality(ZN)
    <3> DEFINE a == Cardinality(A)
               z == Cardinality(Z)
               u == Cardinality(U)
               v == Cardinality(V)
    <3>1. /\ a \in Nat /\ z \in Nat /\ u \in Nat /\ v \in Nat
          /\ arrived'[r] = (t + a - z) + (u + v)
          /\ Cardinality(AN) = a + u /\ Cardinality(ZN) = z - v
      BY <2>6, <2>7, <2>8, <2>9, <2>11, <2>12
    <3> HIDE DEF a, z, u, v, AN, ZN
    <3> QED
      BY <3>1
  <2> QED
    BY <2>10, <2>13
<1> QED
  BY <1>1 DEF RowCountInv

LEMMA ArriveNone ==
    ASSUME LoopType, UNCHANGED arrived
    PROVE  Arrive({})
<1>1. ASSUME NEW r \in LoopRow
      PROVE  arrived'[r] = arrived[r] + Cardinality({} \cap LoopMembers(r))
  <2>1. {} \cap LoopMembers(r) = {} /\ Cardinality({}) = 0
    BY FS_EmptySet
  <2>2. arrived[r] \in Nat
    BY DEF LoopType
  <2> QED
    BY <2>1, <2>2
<1> QED
  BY <1>1 DEF Arrive

\* Nothing counted anew.
LEMMA CountedSame ==
    ASSUME LoopType, NEW n \in Nat, Ordered, SpanInv(n), RowCountInv(n), OrderInv,
           Counted({}, {}, {}), UNCHANGED arrived
    PROVE  SpanInv(n)' /\ RowCountInv(n)' /\ OrderInv'
<1> DEFINE E == {}
<1>1. Arrive(E)
  BY ArriveNone
<1>2. E \in SUBSET Task /\ Counted(E, E, E)
  OBVIOUS
<1>3. \A x \in E : FALSE
  OBVIOUS
<1> HIDE DEF E
<1>4. SpanInv(n)' /\ OrderInv'
  BY <1>2, <1>3, GrowSpan
<1>5. RowCountInv(n)'
  BY <1>1, <1>2, <1>3, GrowCount
<1> QED
  BY <1>4, <1>5

-----------------------------------------------------------------------------
(***************************************************************************)
(* Tiles: the reducer tasks of a handoff and the producers of their ticket. *)
(***************************************************************************)
LEMMA TileFacts ==
    ASSUME NEW c \in Task, NEW y \in Reduced(c)
    PROVE  /\ y \in Task /\ Elided(y) /\ c \in Predecessors(y)
           /\ HandsOff(c) /\ ~Elided(c) /\ c \in Queued /\ c \in Producers(c)
           /\ Predecessors(y) = Producers(c)
<1>1. y \in Task /\ y.stage = Reducer[c.stage] /\ c \in Predecessors(y)
  BY DEF Reduced
<1>2. y.stage \in Stage /\ c.stage \in Stage /\ NoStage \notin Stage
  BY <1>1, TaskFields DEF Stage, NoStage
<1>3. HandsOff(c) /\ Elided(y)
  BY <1>1, <1>2 DEF HandsOff, Elided, ElidedStage
<1>4. ~Elided(c) /\ c \in Queued
  BY <1>3, HandoffAssumption, QueuedTasks DEF Elided, HandsOff
<1>5. c \in Producers(c)
  BY DEF Producers, TasksOf
<1>6. PICK x \in Task : y \in Reduced(x) /\ Predecessors(y) = Producers(x)
  BY <1>1, <1>3, HandoffAssumption DEF Elided
<1>7. Reduced(c) = Reduced(x) /\ c.stage = x.stage
  BY <1>1, <1>6 DEF Producers, TasksOf
<1>8. Producers(c) = Producers(x)
  BY <1>7 DEF Producers
<1> QED
  BY <1>1, <1>3, <1>4, <1>5, <1>6, <1>8

LEMMA ProducerFacts ==
    ASSUME NEW c \in Task, HandsOff(c)
    PROVE  /\ \E y \in Task : y \in Reduced(c)
           /\ IsFiniteSet(Producers(c))
           /\ \A p \in Producers(c) : /\ p \in Task /\ p \in Queued /\ HandsOff(p)
                                      /\ ~Elided(p) /\ Reduced(p) = Reduced(c)
<1>1. \E y \in Task : y \in Reduced(c)
  BY HandoffAssumption DEF HandsOff, Reduced
<1>2. Producers(c) \subseteq TasksOf(c.stage) /\ c.stage \in Stage
  BY TaskFields DEF Producers
<1>3. IsFiniteSet(Producers(c))
  BY <1>2, StageTasks, FS_Subset
<1>4. ASSUME NEW p \in Producers(c)
      PROVE  /\ p \in Task /\ p \in Queued /\ HandsOff(p) /\ ~Elided(p) /\ Reduced(p) = Reduced(c)
  <2>1. p \in Task /\ Reduced(p) = Reduced(c)
    BY DEF Producers, TasksOf
  <2> QED
    BY <1>1, <2>1, TileFacts
<1> QED
  BY <1>1, <1>3, <1>4

\* Tiles are equal or have no task in common.
LEMMA TilesApart ==
    ASSUME NEW b \in Task, NEW c \in Task, NEW y, y \in Reduced(b), y \in Reduced(c)
    PROVE  Reduced(b) = Reduced(c) /\ Producers(b) = Producers(c)
<1>1. Predecessors(y) = Producers(c) /\ Predecessors(y) = Producers(b) /\ b \in Producers(b)
  BY TileFacts
<1>2. Reduced(b) = Reduced(c)
  BY <1>1 DEF Producers
<1> QED
  BY <1>1, <1>2

\* A worker outside its reducer has no reducer task in hand.
LEMMA HandsQuiet ==
    ASSUME LoopType, NEW w \in PagedWorker,
           comp[w].pc \notin InReducer, comp'[w].pc \notin InReducer,
           \A v \in PagedWorker \ {w} : Cur(v)' = Cur(v) /\ comp'[v] = comp[v]
    PROVE  \A y : \A at \in InReducer : InHand(y, at)' = InHand(y, at)
<1> SUFFICES ASSUME NEW y, NEW at \in InReducer
             PROVE  InHand(y, at)' = InHand(y, at)
  OBVIOUS
<1>1. InHand(y, at)' = \E v \in PagedWorker : comp'[v].pc = at /\ y \in Reduced(Cur(v)')
  BY DEF InHand, Reduced
<1>2. InHand(y, at) = \E v \in PagedWorker : comp[v].pc = at /\ y \in Reduced(Cur(v))
  BY DEF InHand
<1> QED
  BY <1>1, <1>2

\* What a move of a program counter does to the counts of the queued tasks.
LEMMA CountsOfMove ==
    ASSUME LoopType, NEW w \in PagedWorker, comp[w].pc # "done", NEW pt, NEW page,
           NEW c \in Queued, c = Cur(w),
           comp' = [comp EXCEPT ![w] = [@ EXCEPT !.pc = pt, !.page = page]]
    PROVE  /\ \A x \in Queued \ {c} : Begun(x)' = Begun(x) /\ Done(x)' = Done(x) /\ Shown(x)' = Shown(x)
           /\ Begun(c) = comp[w].step + (IF comp[w].pc \in AtBody THEN 1 ELSE 0)
           /\ Begun(c)' = comp[w].step + (IF pt \in AtBody THEN 1 ELSE 0)
           /\ Shown(c) = comp[w].step /\ Shown(c)' = comp[w].step
           /\ Done(c) = comp[w].step + (IF HandsOff(c) /\ comp[w].pc \in AtPublish THEN 1 ELSE 0)
           /\ Done(c)' = comp[w].step + (IF HandsOff(c) /\ pt \in AtPublish THEN 1 ELSE 0)
<1>1. \A x \in Queued : ~Elided(x) /\ x \in Task
  BY QueuedTasks, QueuedInTask
<1>2. /\ \A at : Rounds(c, at) = comp[w].step + (IF comp[w].pc \in at THEN 1 ELSE 0)
      /\ comp[w].step \in Nat
  BY RoundsOfCur DEF LoopType
<1>3. Cur(w)' = c
  BY RoundsMove
<1>4. \A at : Rounds(Cur(w), at)' = comp[w].step + (IF pt \in at THEN 1 ELSE 0)
  BY RoundsMove
<1>5. \A at : Rounds(c, at)' = comp[w].step + (IF pt \in at THEN 1 ELSE 0)
  BY <1>3, <1>4 DEF Rounds
<1>6. \A at : \A x \in Queued \ {c} : Rounds(x, at)' = Rounds(x, at)
  BY RoundsMove
<1>7. \A x \in Queued : /\ Begun(x)' = Rounds(x, AtBody)' /\ Shown(x)' = Rounds(x, {})'
                        /\ Done(x)' = IF HandsOff(x) THEN Rounds(x, AtPublish)' ELSE Rounds(x, {})'
                        /\ Begun(x) = Rounds(x, AtBody) /\ Shown(x) = Rounds(x, {})
                        /\ Done(x) = IF HandsOff(x) THEN Rounds(x, AtPublish) ELSE Rounds(x, {})
  BY <1>1 DEF Begun, Shown, Done, Elided, HandsOff, AtBody, AtEnd, AtPublish
<1>8. \A x \in Queued \ {c} : Begun(x)' = Begun(x) /\ Done(x)' = Done(x) /\ Shown(x)' = Shown(x)
  BY <1>6, <1>7
<1> QED
  BY <1>2, <1>5, <1>7, <1>8

\* And what becomes of the tasks of an elided reducer.
LEMMA CountsOfElided ==
    ASSUME NEW x \in Task, Elided(x)
    PROVE  /\ Begun(x) = output[x] + 1 + (IF InHand(x, "reduce") THEN 1 ELSE 0)
           /\ Shown(x) = output[x] + 1 - (IF InHand(x, "announce") THEN 1 ELSE 0)
           /\ Done(x) = Shown(x)
           /\ Begun(x)' = output'[x] + 1 + (IF InHand(x, "reduce")' THEN 1 ELSE 0)
           /\ Shown(x)' = output'[x] + 1 - (IF InHand(x, "announce")' THEN 1 ELSE 0)
           /\ Done(x)' = Shown(x)'
BY DEF Begun, Shown, Done, Elided

-----------------------------------------------------------------------------
(***************************************************************************)
(* Begin: a body starts behind what it reads.                              *)
(***************************************************************************)
LEMMA DesiredRows ==
    ASSUME NEW x \in Queued, NEW r \in DesiredOf(x)
    PROVE  r \in LoopRow
<1>1. PICK d \in Incoming(x.stage) :
        r \in (IF d.all THEN {[producer |-> d.producer, group |-> WholeStage]}
               ELSE {[producer |-> p.stage, group |-> Group(p)] :
                        p \in {q \in TasksOf(d.producer) :
                                  /\ q.logical \in RuntimeDependencyBounds(d, x.logical)
                                  /\ ~InQueue(q, x)}})
  BY DEF DesiredOf
<1>2. d \in Dependencies /\ d.producer \in Stage
  BY GraphAssumption DEF Incoming
<1>3. CASE d.all
  <2>1. NeedsAggregateEvent(d.producer) /\ r = [producer |-> d.producer, group |-> WholeStage]
    BY <1>1, <1>2, <1>3 DEF NeedsAggregateEvent
  <2> QED
    BY <1>2, <2>1 DEF LoopRow, Row
<1>4. CASE ~d.all
  <2>1. PICK p \in TasksOf(d.producer) : r = [producer |-> p.stage, group |-> Group(p)]
    BY <1>1, <1>4
  <2>2. p \in Task /\ NeedsFineEvents(p.stage)
    BY <1>2, <1>4, <2>1 DEF TasksOf, NeedsFineEvents
  <2> QED
    BY <2>1, <2>2 DEF LoopRow, Row
<1> QED
  BY <1>3, <1>4

\* A predecessor is a member of a row the task asks for, or runs before it in
\* its own queue.
LEMMA PredecessorAwaited ==
    ASSUME NEW x \in Queued, NEW p \in Predecessors(x)
    PROVE  InQueue(p, x) \/ \E r \in DesiredOf(x) : p \in LoopMembers(r)
<1>1. p \in Task
  BY DEF Predecessors
<1>2. PICK d \in Incoming(x.stage) : /\ p.stage = d.producer
                                     /\ p.logical \in RuntimeDependencyBounds(d, x.logical)
  BY DEF Predecessors
<1>3. p \in TasksOf(d.producer)
  BY <1>1, <1>2 DEF TasksOf
<1>4. CASE d.all
  <2> DEFINE r == [producer |-> d.producer, group |-> WholeStage]
  <2>1. r \in DesiredOf(x)
    BY <1>4 DEF DesiredOf
  <2>2. p \in LoopMembers(r)
    BY <1>1, <1>2, <2>1, DesiredRows DEF LoopMembers, LoopNotify
  <2> QED
    BY <2>1, <2>2
<1>5. CASE ~d.all /\ ~InQueue(p, x)
  <2> DEFINE r == [producer |-> p.stage, group |-> Group(p)]
  <2>1. r \in DesiredOf(x)
    BY <1>2, <1>3, <1>5 DEF DesiredOf
  <2>2. p \in LoopMembers(r)
    BY <1>1, <2>1, DesiredRows DEF LoopMembers, LoopNotify
  <2> QED
    BY <2>1, <2>2
<1> QED
  BY <1>4, <1>5

\* A row reached for round m has been written by all its members m times.
LEMMA ReachedMeansDone ==
    ASSUME NEW n \in Nat, Ordered, SpanInv(n), RowCountInv(n),
           NEW r \in LoopRow, NEW m \in Nat, Reached(r, m), NEW p \in LoopMembers(r)
    PROVE  Done(p) >= m
<1>1. p \in Task
  BY LoopRowMembers
<1>2. Done(p) \in {n, n + 1} /\ Shown(p) \in {Done(p) - 1, Done(p)}
  BY <1>1 DEF SpanInv, Ordered
<1>3. CASE m > n
  <2>1. Shown(p) = n + 1 /\ m = n + 1
    BY <1>3, ReachedMeansShown
  <2> QED
    BY <1>2, <2>1
<1>4. CASE ~(m > n)
  BY <1>2, <1>4
<1> QED
  BY <1>3, <1>4

\* The rows a task asks for, polled here or for an earlier slot.
LEMMA RowsDone ==
    ASSUME LoopType, NEW n \in Nat, Ordered, SpanInv(n), RowCountInv(n), OrderInv,
           NEW w \in PagedWorker, comp[w].pc = "wait", WaitDependencies(w),
           NEW c \in Queued, c = Cur(w),
           NEW r \in DesiredOf(c), NEW p \in LoopMembers(r)
    PROVE  Done(p) >= comp[w].step + 1
<1>1. OwnerOf(c) = w /\ SlotOf(c) = comp[w].slot /\ comp[w].step \in Nat
  BY CurFacts
<1>2. r \in LoopRow
  BY DesiredRows
<1>3. CASE r \in TaskWaits[c]
  <2>1. Reached(r, comp[w].step + 1)
    BY <1>3 DEF WaitDependencies
  <2> QED
    BY <1>1, <1>2, <2>1, ReachedMeansDone
<1>4. CASE r \notin TaskWaits[c]
  <2>1. PICK z \in Queued : EarlierInQueue(z, c) /\ r \in DesiredOf(z)
    BY <1>4 DEF TaskWaits
  <2>2. OwnerOf(z) = w /\ SlotOf(z) < comp[w].slot
    BY <1>1, <2>1 DEF EarlierInQueue
  <2>3. Rounds(z, AtBody) = comp[w].step + 1
    BY <2>2 DEF Rounds
  <2>4. Begun(z) = comp[w].step + 1
    BY <2>3, QueuedTasks, QueuedInTask DEF Begun
  <2>5. Begun(z) <= Done(p)
    BY <2>1 DEF OrderInv
  <2>6. Done(p) \in Int
    BY <1>2, LoopRowMembers DEF Ordered
  <2> QED
    BY <1>1, <2>4, <2>5, <2>6
<1> QED
  BY <1>3, <1>4

LEMMA PredecessorsDone ==
    ASSUME LoopType, NEW n \in Nat, Ordered, SpanInv(n), RowCountInv(n), OrderInv,
           NEW w \in PagedWorker, comp[w].pc = "wait", WaitDependencies(w),
           NEW c \in Queued, c = Cur(w), NEW p \in Predecessors(c)
    PROVE  Done(p) >= comp[w].step + 1
<1>1. CASE InQueue(p, c)
  <2>1. OwnerOf(c) = w /\ SlotOf(c) = comp[w].slot /\ comp[w].step \in Nat
    BY CurFacts
  <2>2. p \in Queued /\ OwnerOf(p) = w /\ SlotOf(p) < comp[w].slot
    BY <1>1, <2>1 DEF InQueue, EarlierInQueue, Queued, Predecessors
  <2>3. \A at : Rounds(p, at) = comp[w].step + 1
    BY <2>2 DEF Rounds
  <2>4. Done(p) = comp[w].step + 1
    BY <2>2, <2>3, QueuedTasks, QueuedInTask DEF Done, Shown
  <2> QED
    BY <2>1, <2>4
<1>2. CASE ~InQueue(p, c)
  BY <1>2, PredecessorAwaited, RowsDone
<1> QED
  BY <1>1, <1>2

\* The round of a task about to begin is the one all tasks are in, or the next
\* when all have been done for this one.
LEMMA RoundAtHand ==
    ASSUME LoopType, Ordered, StepInv, OrderInv,
           NEW w \in PagedWorker, comp[w].pc = "wait", WaitDependencies(w), TokensReady(w)
    PROVE  \E n \in Nat : SpanInv(n) /\ RowCountInv(n) /\ comp[w].step = n
<1>1. PICK n \in Nat : SpanInv(n) /\ RowCountInv(n)
  BY DEF StepInv
<1>2. PICK c \in Queued : c = Cur(w)
  BY CurFacts
<1>3. c \in Task /\ comp[w].step \in Nat
  BY <1>2, CurFacts
<1>4. Begun(c) = comp[w].step
  BY <1>2, <1>3, RoundsOfCur, QueuedTasks DEF Begun, AtBody, AtEnd, AtPublish
<1>5. comp[w].step \in {n, n + 1}
  BY <1>1, <1>3, <1>4 DEF SpanInv
<1>6. CASE comp[w].step = n
  BY <1>1, <1>6
<1>7. CASE comp[w].step = n + 1
  <2>1. c.stage = Embedding
    <3> SUFFICES ASSUME c.stage # Embedding PROVE FALSE
      OBVIOUS
    <3>1. PICK p : p \in Predecessors(c)
      BY <1>3, DecoderAssumption
    <3>2. p \in Task
      BY <3>1 DEF Predecessors
    <3>3. Done(p) >= comp[w].step + 1
      BY <1>1, <1>2, <3>1, PredecessorsDone
    <3>4. Done(p) \in {n, n + 1}
      BY <1>1, <3>2 DEF SpanInv
    <3> QED
      BY <1>7, <3>3, <3>4
  <2>2. PICK l \in Lags(Embedding) : l.producer = Argmax
    BY PagedAssumption DEF Lags
  <2>3. Reached(Aggregate(Argmax), n + 1)
    BY <1>2, <1>7, <2>1, <2>2 DEF TokensReady
  <2>4. Argmax \in Stage /\ Aggregate(Argmax) \in LoopRow
    BY <2>2, LagRow
  <2>5. ASSUME NEW x \in TasksOf(Argmax)
        PROVE  Done(x) = n + 1
    <3>1. x \in LoopMembers(Aggregate(Argmax)) /\ x \in Task
      BY <2>4, AggregateRow DEF TasksOf
    <3>2. Done(x) >= n + 1
      BY <1>1, <2>3, <2>4, <3>1, ReachedMeansDone
    <3> QED
      BY <1>1, <3>1, <3>2 DEF SpanInv
  <2>6. \A x \in Task : Done(x) = n + 1
    BY <1>1, <2>5, TokensMeanAll
  <2>7. SpanInv(n + 1) /\ RowCountInv(n + 1)
    BY <1>1, <2>6, NextRound
  <2> QED
    BY <1>7, <2>7
<1> QED
  BY <1>5, <1>6, <1>7

LEMMA BeginCounts ==
    ASSUME LoopType, Ordered, StepInv, OrderInv, NEW w \in PagedWorker, Begin(w)
    PROVE  StepInv' /\ OrderInv'
<1>1. PICK c \in Queued : c = Cur(w)
  BY CurFacts DEF Begin
<1>2. c \in Task /\ comp[w].step \in Nat /\ comp[w].pc = "wait" /\ comp[w].pc # "done"
  BY <1>1, CurFacts DEF Begin
<1>3. PICK n \in Nat : SpanInv(n) /\ RowCountInv(n) /\ comp[w].step = n
  BY RoundAtHand DEF Begin
<1>4. PICK page \in Nat : comp' = [comp EXCEPT ![w] = [@ EXCEPT !.pc = "run", !.page = page]]
  <2>1. comp[w].page \in Nat /\ comp' = [comp EXCEPT ![w] = [@ EXCEPT !.pc = "run", !.page = comp[w].page]]
    BY DEF Begin, LoopType
  <2> QED
    BY <2>1
<1> DEFINE B == {c}
           E == {}
<1>5. /\ \A x \in Queued \ {c} : Begun(x)' = Begun(x) /\ Done(x)' = Done(x) /\ Shown(x)' = Shown(x)
      /\ Begun(c) = n /\ Begun(c)' = n + 1
      /\ Shown(c) = n /\ Shown(c)' = n /\ Done(c) = n /\ Done(c)' = n
  <2>1. "wait" \notin AtBody /\ "run" \in AtBody /\ "run" \notin AtPublish /\ "wait" \notin AtPublish
    BY DEF AtBody, AtEnd, AtPublish
  <2>2. /\ \A x \in Queued \ {c} : Begun(x)' = Begun(x) /\ Done(x)' = Done(x) /\ Shown(x)' = Shown(x)
        /\ Begun(c) = comp[w].step + (IF comp[w].pc \in AtBody THEN 1 ELSE 0)
        /\ Begun(c)' = comp[w].step + (IF "run" \in AtBody THEN 1 ELSE 0)
        /\ Shown(c) = comp[w].step /\ Shown(c)' = comp[w].step
        /\ Done(c) = comp[w].step + (IF HandsOff(c) /\ comp[w].pc \in AtPublish THEN 1 ELSE 0)
        /\ Done(c)' = comp[w].step + (IF HandsOff(c) /\ "run" \in AtPublish THEN 1 ELSE 0)
    BY <1>1, <1>2, <1>4, CountsOfMove
  <2> QED
    BY <1>2, <1>3, <2>1, <2>2
<1>6. \A x \in Task : Elided(x) => Begun(x)' = Begun(x) /\ Done(x)' = Done(x) /\ Shown(x)' = Shown(x)
  <2>1. \A v \in PagedWorker \ {w} : Cur(v)' = Cur(v) /\ comp'[v] = comp[v]
    BY <1>2, <1>4, RoundsMove
  <2>2. comp[w].pc \notin InReducer /\ comp'[w].pc \notin InReducer
    BY <1>2, <1>4 DEF InReducer, LoopType
  <2>3. \A y : \A at \in InReducer : InHand(y, at)' = InHand(y, at)
    BY <2>1, <2>2, HandsQuiet
  <2>4. output' = output
    BY DEF Begin
  <2> QED
    BY <2>3, <2>4, CountsOfElided DEF InReducer
<1>7. B \in SUBSET Task /\ E \in SUBSET Task /\ Counted(B, E, E)
  <2>1. ASSUME NEW x \in Task
        PROVE  /\ Begun(x)' = Begun(x) + One(x, B)
               /\ Done(x)' = Done(x) + One(x, E) /\ Shown(x)' = Shown(x) + One(x, E)
    <3>1. x \in Queued \/ Elided(x)
      BY QueuedTasks
    <3>2. c \in Queued /\ ~Elided(c)
      BY QueuedTasks, <1>2
    <3>3. Begun(x) \in Int /\ Done(x) \in Int /\ Shown(x) \in Int
      BY DEF Ordered
    <3> QED
      BY <1>5, <1>6, <3>1, <3>2, <3>3 DEF One
  <2> QED
    BY <1>2, <2>1 DEF Counted
<1>8. \A p \in Task : Done(p)' = Done(p) /\ Done(p) \in {n, n + 1}
  BY <1>3, <1>7 DEF Counted, One, SpanInv
<1>9. \A x \in B : \A p \in Predecessors(x) : Done(p)' = n + 1
  <2>1. ASSUME NEW p \in Predecessors(c)
        PROVE  Done(p)' = n + 1
    <3>1. Done(p) >= n + 1
      BY <1>1, <1>2, <1>3, PredecessorsDone DEF Begin
    <3>2. p \in Task
      BY DEF Predecessors
    <3> QED
      BY <1>8, <3>1, <3>2
  <2> QED
    BY <2>1
<1>10. \A x \in B \cap Queued : \A r \in DesiredOf(x) : \A p \in LoopMembers(r) : Done(p)' = n + 1
  <2>1. ASSUME NEW r \in DesiredOf(c), NEW p \in LoopMembers(r)
        PROVE  Done(p)' = n + 1
    <3>1. Done(p) >= n + 1
      BY <1>1, <1>2, <1>3, RowsDone DEF Begin
    <3>2. p \in Task
      BY DEF LoopMembers
    <3> QED
      BY <1>8, <3>1, <3>2
  <2> QED
    BY <2>1
<1>11. \A x \in B : Begun(x) = n
  BY <1>5
<1>12. \A x \in E : FALSE
  OBVIOUS
<1>13. Arrive(E)
  BY ArriveNone DEF Begin
<1> HIDE DEF B, E
<1>14. SpanInv(n)' /\ OrderInv'
  BY <1>3, <1>7, <1>9, <1>10, <1>11, <1>12, GrowSpan
<1>15. RowCountInv(n)'
  BY <1>3, <1>7, <1>12, <1>13, GrowCount
<1> QED
  BY <1>3, <1>14, <1>15 DEF StepInv

-----------------------------------------------------------------------------
(***************************************************************************)
(* What a step of the compute warps leaves as it was.                      *)
(***************************************************************************)
\* A move within a body, or past it, counts nothing.
LEMMA QuietCounts ==
    ASSUME LoopType, Ordered, NEW w \in PagedWorker, comp[w].pc # "done", NEW pt, NEW page,
           NEW c \in Queued, c = Cur(w),
           comp' = [comp EXCEPT ![w] = [@ EXCEPT !.pc = pt, !.page = page]],
           comp[w].pc \in AtBody, pt \in AtBody,
           HandsOff(c) => (comp[w].pc \in AtPublish <=> pt \in AtPublish),
           comp[w].pc \notin InReducer, pt \notin InReducer,
           \A y \in Task : Elided(y) => output'[y] = output[y]
    PROVE  Counted({}, {}, {})
<1>1. \A x \in Queued : Begun(x)' = Begun(x) /\ Done(x)' = Done(x) /\ Shown(x)' = Shown(x)
  <2>1. \A x \in Queued \ {c} : Begun(x)' = Begun(x) /\ Done(x)' = Done(x) /\ Shown(x)' = Shown(x)
    BY CountsOfMove
  <2>2. /\ Begun(c) = comp[w].step + (IF comp[w].pc \in AtBody THEN 1 ELSE 0)
        /\ Begun(c)' = comp[w].step + (IF pt \in AtBody THEN 1 ELSE 0)
        /\ Shown(c) = comp[w].step /\ Shown(c)' = comp[w].step
    BY CountsOfMove
  <2>3. /\ Done(c) = comp[w].step + (IF HandsOff(c) /\ comp[w].pc \in AtPublish THEN 1 ELSE 0)
        /\ Done(c)' = comp[w].step + (IF HandsOff(c) /\ pt \in AtPublish THEN 1 ELSE 0)
    BY CountsOfMove
  <2> QED
    BY <2>1, <2>2, <2>3
<1>2. \A v \in PagedWorker \ {w} : Cur(v)' = Cur(v) /\ comp'[v] = comp[v]
  BY RoundsMove
<1>3. comp'[w].pc \notin InReducer
  BY DEF LoopType
<1>4. \A y : \A at \in InReducer : InHand(y, at)' = InHand(y, at)
  BY <1>2, <1>3, HandsQuiet
<1>5. \A x \in Task : Elided(x) => Begun(x)' = Begun(x) /\ Done(x)' = Done(x) /\ Shown(x)' = Shown(x)
  BY <1>4, CountsOfElided DEF InReducer
<1>6. \A x \in Task : Begun(x)' = Begun(x) /\ Done(x)' = Done(x) /\ Shown(x)' = Shown(x)
  BY <1>1, <1>5, QueuedTasks
<1> QED
  BY <1>6 DEF Counted, One, Ordered

\* HandoffInv of the next state, with the task at hand of each worker named.
LEMMA HandoffPrimed ==
    ASSUME \A v \in PagedWorker : comp'[v].pc \in {"ticket", "reduce", "announce"} => HandsOff(Cur(v)'),
           \A x \in Queued : \A y \in Reduced(x) :
              ticket'[Reduced(x)] = Cardinality({p \in Producers(x) : Done(p)' = output'[y] + 2}),
           \A v \in PagedWorker : comp'[v].pc = "reduce" =>
              /\ \A p \in Producers(Cur(v)') : Done(p)' = comp'[v].step + 1
              /\ \A y \in Reduced(Cur(v)') : output'[y] + 1 = comp'[v].step,
           \A u, v \in PagedWorker :
              comp'[u].pc \in InReducer /\ comp'[v].pc \in InReducer
                 /\ Reduced(Cur(u)') = Reduced(Cur(v)') => u = v
    PROVE  HandoffInv'
<1>1. \A v \in PagedWorker : comp'[v].pc \in {"ticket", "reduce", "announce"} => HandsOff(Cur(v))'
  BY DEF HandsOff
<1>2. \A v \in PagedWorker : comp'[v].pc = "reduce" =>
          /\ \A p \in Producers(Cur(v))' : Done(p)' = comp'[v].step + 1
          /\ \A y \in Reduced(Cur(v))' : output'[y] + 1 = comp'[v].step
  BY DEF Producers, Reduced
<1>3. \A u, v \in PagedWorker :
          comp'[u].pc \in InReducer /\ comp'[v].pc \in InReducer /\ Reduced(Cur(u))' = Reduced(Cur(v))' => u = v
  BY DEF Reduced
<1> QED
  BY <1>1, <1>2, <1>3 DEF HandoffInv, InReducer

\* The tickets of a step that neither takes one nor runs a reducer.
LEMMA HandoffKept ==
    ASSUME LoopType, HandoffInv, NEW w \in PagedWorker,
           ticket' = ticket,
           \A y \in Task : Elided(y) => output'[y] = output[y],
           \A p \in Queued : HandsOff(p) => Done(p)' = Done(p),
           \A v \in PagedWorker \ {w} : Cur(v)' = Cur(v) /\ comp'[v] = comp[v],
           \A v \in PagedWorker : comp[v].pc \in {"ticket", "reduce", "announce"} => Cur(v) \in Task,
           comp'[w].pc \notin InReducer,
           comp'[w].pc = "ticket" => HandsOff(Cur(w)')
    PROVE  HandoffInv'
<1>1. ASSUME NEW v \in PagedWorker, comp'[v].pc \in {"ticket", "reduce", "announce"}
      PROVE  HandsOff(Cur(v)')
  BY <1>1 DEF HandoffInv, InReducer
<1>2. ASSUME NEW x \in Queued, NEW y \in Reduced(x)
      PROVE  ticket'[Reduced(x)] = Cardinality({p \in Producers(x) : Done(p)' = output'[y] + 2})
  <2>1. x \in Task /\ HandsOff(x) /\ y \in Task /\ Elided(y)
    BY QueuedInTask, TileFacts
  <2>2. \A p \in Producers(x) : Done(p)' = Done(p)
    BY <2>1, ProducerFacts
  <2>3. {p \in Producers(x) : Done(p)' = output'[y] + 2} = {p \in Producers(x) : Done(p) = output[y] + 2}
    BY <2>1, <2>2
  <2> QED
    BY <2>3 DEF HandoffInv
<1>3. ASSUME NEW v \in PagedWorker, comp'[v].pc = "reduce"
      PROVE  /\ \A p \in Producers(Cur(v)') : Done(p)' = comp'[v].step + 1
             /\ \A y \in Reduced(Cur(v)') : output'[y] + 1 = comp'[v].step
  <2>1. v # w /\ Cur(v)' = Cur(v) /\ comp'[v] = comp[v]
    BY <1>3 DEF InReducer
  <2>2. PICK b \in Task : b = Cur(v)
    BY <1>3, <2>1
  <2>3. HandsOff(b)
    BY <1>3, <2>1, <2>2 DEF HandoffInv
  <2>4. \A p \in Producers(b) : Done(p)' = Done(p)
    BY <2>2, <2>3, ProducerFacts
  <2>5. \A y \in Reduced(b) : output'[y] = output[y]
    BY <2>2, TileFacts
  <2> QED
    BY <1>3, <2>1, <2>2, <2>4, <2>5 DEF HandoffInv
<1>4. ASSUME NEW u \in PagedWorker, NEW v \in PagedWorker, comp'[u].pc \in InReducer, comp'[v].pc \in InReducer,
             Reduced(Cur(u)') = Reduced(Cur(v)')
      PROVE  u = v
  <2>1. u # w /\ v # w
    BY <1>4
  <2> QED
    BY <1>4, <2>1 DEF HandoffInv
<1> QED
  BY <1>1, <1>2, <1>3, <1>4, HandoffPrimed

\* The buffers only move on.
LEMMA WrittenKept ==
    ASSUME LoopType, LoaderInv, AheadInv, UNCHANGED <<load, ahead>>,
           \A x \in Task : output'[x] >= output[x] /\ output'[x] \in Int
    PROVE  LoaderInv' /\ AheadInv'
<1>1. \A s \in Stage : \A p \in TasksOf(s) : output'[p] >= output[p] /\ output'[p] \in Int /\ output[p] \in Int
  BY DEF TasksOf, LoopType, Unwritten
<1>2. LoaderInv'
  <2>1. ASSUME NEW w \in PagedWorker, load[w].pc \in {"peek", "fill"}, TaskAt(load[w], w).stage # Embedding,
               NEW l \in Lags(TaskAt(load[w], w).stage), NEW p \in TasksOf(l.producer)
        PROVE  output'[p] + 1 >= load[w].step
    <3>1. output[p] + 1 >= load[w].step
      BY <2>1 DEF LoaderInv, HistoryHad
    <3>2. l.producer \in Stage
      BY PagedAssumption DEF Lags
    <3>3. load[w].step \in Nat
      BY DEF LoopType
    <3> QED
      BY <1>1, <3>1, <3>2, <3>3
  <2>2. \A s : Lags(s)' = Lags(s) /\ TasksOf(s)' = TasksOf(s)
    BY DEF Lags, TasksOf
  <2> QED
    BY <2>1 DEF LoaderInv, HistoryHad, TaskAt, Lags
<1>3. AheadInv'
  <2>1. ASSUME NEW w \in PagedWorker, ahead[w].page > 0, Opaque[TaskAt(ahead[w], w).stage] # NoStage,
               NEW p \in TasksOf(Opaque[TaskAt(ahead[w], w).stage])
        PROVE  output'[p] >= ahead[w].step
    <3>1. output[p] >= ahead[w].step
      BY <2>1 DEF AheadInv, GateHad
    <3>2. p \in Task
      BY DEF TasksOf
    <3>3. ahead[w].step \in Nat /\ output[p] \in Int
      BY <3>2 DEF LoopType, Unwritten
    <3> QED
      BY <3>1, <3>2, <3>3
  <2> QED
    BY <2>1 DEF AheadInv, GateHad, TaskAt
<1> QED
  BY <1>2, <1>3

-----------------------------------------------------------------------------
(***************************************************************************)
(* The steps of a body.                                                    *)
(***************************************************************************)
Move(w, pt, page) == comp' = [comp EXCEPT ![w] = [@ EXCEPT !.pc = pt, !.page = page]]

LEMMA MovedRecord ==
    ASSUME NEW P, NEW r \in [step : Nat, slot : Nat, page : Nat, pc : P], NEW a \in P, NEW b \in Nat
    PROVE  [r EXCEPT !.pc = a, !.page = b] = [step |-> r.step, slot |-> r.slot, page |-> b, pc |-> a]
<1>1. [r EXCEPT !.pc = a] = [step |-> r.step, slot |-> r.slot, page |-> r.page, pc |-> a]
  OBVIOUS
<1>2. [[step |-> r.step, slot |-> r.slot, page |-> r.page, pc |-> a] EXCEPT !.page = b]
        = [step |-> r.step, slot |-> r.slot, page |-> b, pc |-> a]
  OBVIOUS
<1> QED
  BY <1>1, <1>2, Zenon

LEMMA MoveType ==
    ASSUME LoopType, NEW w \in PagedWorker, comp[w].pc # "done",
           NEW pt \in AtBody \cup {"wait"}, NEW page \in Nat, Move(w, pt, page),
           UNCHANGED <<load, ahead>>,
           arrived' \in [LoopRow -> Nat],
           ticket' \in [{Reduced(x) : x \in Queued} -> Nat],
           output' \in [Task -> Nat \cup {Unwritten}]
    PROVE  LoopType'
<1>1. PICK r \in [step : Nat, slot : Nat, page : Nat, pc : AtBody \cup {"wait", "done"}] :
        r = comp[w]
  BY DEF LoopType
<1>2. comp' = [comp EXCEPT ![w] = [step |-> r.step, slot |-> r.slot, page |-> page, pc |-> pt]]
  <2>1. [r EXCEPT !.pc = pt, !.page = page] = [step |-> r.step, slot |-> r.slot, page |-> page, pc |-> pt]
    <3> DEFINE P == AtBody \cup {"wait", "done"}
    <3>1. pt \in P /\ r \in [step : Nat, slot : Nat, page : Nat, pc : P]
      OBVIOUS
    <3> HIDE DEF P
    <3> QED
      BY <3>1, MovedRecord, Zenon
  <2> QED
    BY <1>1, <2>1 DEF Move, LoopType
<1>3. comp' \in [PagedWorker -> [step : Nat, slot : Nat, page : Nat, pc : AtBody \cup {"wait", "done"}]]
  BY <1>1, <1>2 DEF LoopType
<1>4. pt # "done"
  BY DEF AtBody, AtEnd, AtPublish
<1>5. ASSUME NEW v \in PagedWorker
      PROVE  Placed(comp'[v], v)
  <2>1. CASE v # w
    BY <1>2, <2>1 DEF LoopType
  <2>2. CASE v = w
    <3>1. comp'[w] = [step |-> r.step, slot |-> r.slot, page |-> page, pc |-> pt]
      BY <1>2 DEF LoopType
    <3>2. Placed(r, w) /\ r.pc # "done"
      BY <1>1 DEF LoopType
    <3> QED
      BY <1>4, <2>2, <3>1, <3>2 DEF Placed
  <2> QED
    BY <2>1, <2>2
<1>6. \A v \in PagedWorker : Placed(load[v], v) /\ (Schedule[v] # <<>> => ahead[v].slot \in DOMAIN Schedule[v])
  BY DEF LoopType
<1>7. \A v \in PagedWorker : Placed(load[v], v)' /\ Placed(comp[v], v)'
  BY <1>5, <1>6 DEF Placed
<1> QED
  BY <1>3, <1>6, <1>7 DEF LoopType, Reduced, AtBody, AtEnd, AtPublish

LEMMA OutputMove ==
    ASSUME LoopType, OutputInv, NEW w \in PagedWorker, comp[w].pc # "done", NEW pt, NEW page,
           NEW c \in Queued, c = Cur(w), Move(w, pt, page),
           \A x \in Queued \ {c} : output'[x] = output[x],
           output'[c] + 1 = comp[w].step + (IF pt \in AtEnd THEN 1 ELSE 0)
    PROVE  OutputInv'
<1>1. Cur(w)' = c
  BY RoundsMove DEF Move
<1>2. \A at : Rounds(Cur(w), at)' = comp[w].step + (IF pt \in at THEN 1 ELSE 0)
  BY RoundsMove DEF Move
<1>3. Rounds(c, AtEnd)' = comp[w].step + (IF pt \in AtEnd THEN 1 ELSE 0)
  BY <1>1, <1>2 DEF Rounds, AtEnd, AtPublish
<1>4. \A at : \A x \in Queued \ {c} : Rounds(x, at)' = Rounds(x, at)
  BY RoundsMove DEF Move
<1>5. \A x \in Queued \ {c} : output'[x] + 1 = Rounds(x, AtEnd)'
  BY <1>4 DEF OutputInv, AtEnd, AtPublish
<1> QED
  BY <1>3, <1>5 DEF OutputInv

LEMMA OutputAtHand ==
    ASSUME LoopType, OutputInv, NEW w \in PagedWorker, comp[w].pc # "done", NEW c \in Queued, c = Cur(w)
    PROVE  output[c] + 1 = comp[w].step + (IF comp[w].pc \in AtEnd THEN 1 ELSE 0)
BY RoundsOfCur DEF OutputInv

\* At hand outside "done", every worker has a task.
LEMMA HandTasks ==
    ASSUME LoopType
    PROVE  \A v \in PagedWorker : comp[v].pc # "done" => Cur(v) \in Task
BY CurFacts

\* Begin, Drain and Stamp only move a program counter or a page.
LEMMA PlainMove ==
    ASSUME LoopInv, NEW w \in PagedWorker, comp[w].pc # "done",
           NEW pt \in AtBody, NEW page \in Nat, NEW c \in Queued, c = Cur(w), Move(w, pt, page),
           UNCHANGED <<arrived, ticket, output, load, ahead>>,
           HandsOff(c) => (comp[w].pc \in AtPublish <=> pt \in AtPublish),
           comp[w].pc \in AtEnd <=> pt \in AtEnd,
           pt \notin InReducer, pt # "ticket"
    PROVE  LoopType' /\ OutputInv' /\ HandoffInv' /\ LoaderInv' /\ AheadInv'
<1> USE DEF LoopInv
<1>1. LoopType'
  BY MoveType DEF LoopType, Reduced
<1>2. OutputInv'
  BY OutputMove, OutputAtHand
<1>3. \A x \in Queued : HandsOff(x) => Done(x)' = Done(x)
  <2>1. \A x \in Queued \ {c} : Done(x)' = Done(x)
    BY CountsOfMove DEF Move
  <2>2. /\ Done(c) = comp[w].step + (IF HandsOff(c) /\ comp[w].pc \in AtPublish THEN 1 ELSE 0)
        /\ Done(c)' = comp[w].step + (IF HandsOff(c) /\ pt \in AtPublish THEN 1 ELSE 0)
    BY CountsOfMove DEF Move
  <2> QED
    BY <2>1, <2>2
<1>4. \A v \in PagedWorker \ {w} : Cur(v)' = Cur(v) /\ comp'[v] = comp[v]
  BY RoundsMove DEF Move
<1>5. comp'[w].pc = pt
  BY DEF Move, LoopType
<1>6. HandoffInv'
  BY <1>3, <1>4, <1>5, HandTasks, HandoffKept
<1>7. LoaderInv' /\ AheadInv'
  <2>1. \A x \in Task : output'[x] >= output[x] /\ output'[x] \in Int
    BY DEF LoopType, Unwritten
  <2> QED
    BY <2>1, WrittenKept
<1> QED
  BY <1>1, <1>2, <1>6, <1>7

LEMMA BeginStep ==
    ASSUME LoopInv, NEW w \in PagedWorker, Begin(w)
    PROVE  LoopInv'
<1>1. PICK c \in Queued : c = Cur(w)
  BY CurFacts DEF Begin, LoopInv
<1>2. comp[w].pc = "wait" /\ comp[w].pc # "done" /\ Ordered
  BY CountsOrdered DEF Begin, LoopInv
<1>3. PICK page \in Nat : Move(w, "run", page)
  <2>1. comp[w].page \in Nat /\ Move(w, "run", comp[w].page)
    BY DEF Begin, LoopType, LoopInv, Move
  <2> QED
    BY <2>1
<1>4. StepInv' /\ OrderInv'
  BY <1>2, BeginCounts DEF LoopInv
<1>5. LoopType' /\ OutputInv' /\ HandoffInv' /\ LoaderInv' /\ AheadInv'
  BY <1>1, <1>2, <1>3, PlainMove DEF Begin, AtBody, AtEnd, AtPublish, InReducer
<1> QED
  BY <1>4, <1>5 DEF LoopInv

LEMMA PlainCounts ==
    ASSUME LoopInv, NEW w \in PagedWorker, comp[w].pc # "done",
           NEW pt \in AtBody, NEW page \in Nat, NEW c \in Queued, c = Cur(w), Move(w, pt, page),
           UNCHANGED arrived,
           comp[w].pc \in AtBody,
           HandsOff(c) => (comp[w].pc \in AtPublish <=> pt \in AtPublish),
           comp[w].pc \notin InReducer, pt \notin InReducer,
           \A y \in Task : Elided(y) => output'[y] = output[y]
    PROVE  StepInv' /\ OrderInv'
<1>1. Ordered /\ LoopType
  BY CountsOrdered DEF LoopInv
<1>2. PICK n \in Nat : SpanInv(n) /\ RowCountInv(n)
  BY DEF LoopInv, StepInv
<1>3. Counted({}, {}, {})
  BY <1>1, QuietCounts DEF Move
<1>4. SpanInv(n)' /\ RowCountInv(n)' /\ OrderInv'
  BY <1>1, <1>2, <1>3, CountedSame DEF LoopInv
<1> QED
  BY <1>4 DEF StepInv

LEMMA DrainStep ==
    ASSUME LoopInv, NEW w \in PagedWorker, Drain(w)
    PROVE  LoopInv'
<1>1. PICK c \in Queued : c = Cur(w)
  BY CurFacts DEF Drain, LoopInv
<1>2. comp[w].pc = "run" /\ comp[w].pc # "done"
  BY DEF Drain
<1>3. PICK page \in Nat : Move(w, "run", page)
  <2>1. PICK r \in [step : Nat, slot : Nat, page : Nat, pc : AtBody \cup {"wait", "done"}] :
          r = comp[w]
    BY DEF LoopType, LoopInv
  <2>2. [r EXCEPT !.page = r.page + 1] = [r EXCEPT !.pc = "run", !.page = r.page + 1]
    BY <1>2, <2>1
  <2>3. comp' = [comp EXCEPT ![w] = [r EXCEPT !.page = r.page + 1]]
    BY <2>1 DEF Drain, LoopType, LoopInv
  <2>4. comp' = [comp EXCEPT ![w] = [comp[w] EXCEPT !.pc = "run", !.page = r.page + 1]]
    BY <2>1, <2>2, <2>3
  <2>5. r.page + 1 \in Nat
    BY <2>1
  <2> QED
    BY <2>4, <2>5 DEF Move
<1>4. StepInv' /\ OrderInv'
  BY <1>1, <1>2, <1>3, PlainCounts DEF Drain, AtBody, InReducer
<1>5. LoopType' /\ OutputInv' /\ HandoffInv' /\ LoaderInv' /\ AheadInv'
  BY <1>1, <1>2, <1>3, PlainMove DEF Drain, AtBody, AtEnd, AtPublish, InReducer
<1> QED
  BY <1>4, <1>5 DEF LoopInv

LEMMA StampStep ==
    ASSUME LoopInv, NEW w \in PagedWorker, Stamp(w)
    PROVE  LoopInv'
<1>1. PICK c \in Queued : c = Cur(w)
  BY CurFacts DEF Stamp, LoopInv
<1>2. comp[w].pc = "stamp" /\ comp[w].pc # "done"
  BY DEF Stamp
<1>3. PICK page \in Nat : Move(w, "publish", page)
  <2>1. comp[w].page \in Nat /\ Move(w, "publish", comp[w].page)
    BY DEF Stamp, LoopType, LoopInv, Move
  <2> QED
    BY <2>1
<1>4. StepInv' /\ OrderInv'
  BY <1>1, <1>2, <1>3, PlainCounts DEF Stamp, AtBody, AtEnd, AtPublish, InReducer
<1>5. LoopType' /\ OutputInv' /\ HandoffInv' /\ LoaderInv' /\ AheadInv'
  BY <1>1, <1>2, <1>3, PlainMove DEF Stamp, AtBody, AtEnd, AtPublish, InReducer
<1> QED
  BY <1>4, <1>5 DEF LoopInv

LEMMA EndBodyStep ==
    ASSUME LoopInv, NEW w \in PagedWorker, EndBody(w)
    PROVE  LoopInv'
<1> USE DEF LoopInv
<1>1. PICK c \in Queued : c = Cur(w)
  BY CurFacts DEF EndBody
<1>2. comp[w].pc = "run" /\ comp[w].pc # "done" /\ comp[w].step \in Nat /\ c \in Task /\ ~Elided(c)
  BY <1>1, CurFacts DEF EndBody
<1>3. PICK s \in Nat : s = comp[w].step
  BY <1>2
<1>4. PICK pt \in {"publish", "ticket"} : pt = (IF HandsOff(c) THEN "ticket" ELSE "publish")
  OBVIOUS
<1>5. PICK page \in Nat : Move(w, pt, page)
  <2>1. comp[w].page \in Nat /\ Move(w, pt, comp[w].page)
    BY <1>1, <1>4 DEF EndBody, LoopType, Move, HandsOff
  <2> QED
    BY <2>1
<1>6. output' = [output EXCEPT ![c] = s] /\ output[c] + 1 = s
  <2>1. output[c] + 1 = s + (IF comp[w].pc \in AtEnd THEN 1 ELSE 0)
    BY <1>1, <1>2, <1>3, OutputAtHand
  <2> QED
    BY <1>1, <1>2, <1>3, <2>1 DEF EndBody, AtEnd, AtPublish
<1>7. output[c] \in Int /\ output'[c] = s /\ \A x \in Task \ {c} : output'[x] = output[x]
  BY <1>2, <1>6 DEF LoopType, Unwritten
<1>8. \A y \in Task : Elided(y) => output'[y] = output[y]
  BY <1>2, <1>7
<1>9. pt \in AtBody /\ pt \in AtEnd /\ pt \notin InReducer
      /\ (HandsOff(c) => (comp[w].pc \in AtPublish <=> pt \in AtPublish))
  BY <1>2, <1>4 DEF AtBody, AtEnd, AtPublish, InReducer
<1>10. StepInv' /\ OrderInv'
  BY <1>1, <1>2, <1>5, <1>8, <1>9, PlainCounts DEF EndBody, AtBody, InReducer
<1>11. LoopType'
  <2>1. output' \in [Task -> Nat \cup {Unwritten}]
    BY <1>2, <1>6 DEF LoopType
  <2>2. arrived' = arrived /\ ticket' = ticket /\ UNCHANGED <<load, ahead>>
    BY DEF EndBody
  <2> QED
    BY <1>2, <1>5, <1>9, <2>1, <2>2, MoveType DEF LoopType
<1>12. OutputInv'
  <2>1. \A x \in Queued \ {c} : output'[x] = output[x]
    BY <1>7, QueuedInTask
  <2>2. output'[c] + 1 = comp[w].step + (IF pt \in AtEnd THEN 1 ELSE 0)
    BY <1>3, <1>7, <1>9
  <2> QED
    BY <1>1, <1>2, <1>5, <2>1, <2>2, OutputMove
<1>13. HandoffInv'
  <2>1. \A x \in Queued : HandsOff(x) => Done(x)' = Done(x)
    <3>1. \A x \in Queued \ {c} : Done(x)' = Done(x)
      BY <1>1, <1>2, <1>5, CountsOfMove DEF Move
    <3>2. /\ Done(c) = comp[w].step + (IF HandsOff(c) /\ comp[w].pc \in AtPublish THEN 1 ELSE 0)
          /\ Done(c)' = comp[w].step + (IF HandsOff(c) /\ pt \in AtPublish THEN 1 ELSE 0)
      BY <1>1, <1>2, <1>5, CountsOfMove DEF Move
    <3> QED
      BY <1>9, <3>1, <3>2
  <2>2. \A v \in PagedWorker \ {w} : Cur(v)' = Cur(v) /\ comp'[v] = comp[v]
    BY <1>2, <1>5, RoundsMove DEF Move
  <2>3. Cur(w)' = c
    BY <1>1, <1>2, <1>5, RoundsMove DEF Move
  <2>4. comp'[w].pc = pt
    BY <1>5 DEF Move, LoopType
  <2>5. ticket' = ticket
    BY DEF EndBody
  <2>6. \A v \in PagedWorker : comp[v].pc \in {"ticket", "reduce", "announce"} => Cur(v) \in Task
    BY HandTasks
  <2>7. comp'[w].pc \notin InReducer /\ (comp'[w].pc = "ticket" => HandsOff(Cur(w)'))
    BY <1>4, <1>9, <2>3, <2>4
  <2> QED
    BY <1>8, <2>1, <2>2, <2>5, <2>6, <2>7, HandoffKept
<1>14. LoaderInv' /\ AheadInv'
  <2>1. \A x \in Task : output'[x] >= output[x] /\ output'[x] \in Int
    BY <1>6, <1>7 DEF LoopType, Unwritten
  <2> QED
    BY <2>1, WrittenKept DEF EndBody
<1> QED
  BY <1>10, <1>11, <1>12, <1>13, <1>14

-----------------------------------------------------------------------------
(***************************************************************************)
(* The ticket of a tile.                                                   *)
(***************************************************************************)
\* While a producer has its ticket to take, nobody has the reducer in hand.
LEMMA TileIdle ==
    ASSUME LoopInv, NEW n \in Nat, SpanInv(n),
           NEW c \in Task, Done(c) = n, NEW y \in Reduced(c)
    PROVE  output[y] + 1 = n /\ ~InHand(y, "reduce") /\ ~InHand(y, "announce")
<1>1. y \in Task /\ Elided(y) /\ c \in Predecessors(y)
  BY TileFacts
<1>2. Begun(y) <= n /\ Begun(y) \in {n, n + 1} /\ Done(y) \in {n, n + 1} /\ Done(y) <= Begun(y)
  BY <1>1 DEF LoopInv, OrderInv, SpanInv
<1>3. /\ Begun(y) = output[y] + 1 + (IF InHand(y, "reduce") THEN 1 ELSE 0)
      /\ Done(y) = output[y] + 1 - (IF InHand(y, "announce") THEN 1 ELSE 0)
  BY <1>1, CountsOfElided
<1>4. output[y] \in Int
  BY <1>1 DEF LoopInv, LoopType, Unwritten
<1> QED
  BY <1>2, <1>3, <1>4

LEMMA TicketType ==
    ASSUME LoopType, NEW x \in Queued, NEW k \in Nat
    PROVE  [ticket EXCEPT ![Reduced(x)] = k] \in [{Reduced(z) : z \in Queued} -> Nat]
BY DEF LoopType

LEMMA TicketStep ==
    ASSUME LoopInv, NEW w \in PagedWorker, TakeTicket(w)
    PROVE  LoopInv'
<1> USE DEF LoopInv
<1>1. PICK c \in Queued : c = Cur(w)
  BY CurFacts DEF TakeTicket
<1>2. /\ comp[w].pc = "ticket" /\ comp[w].pc # "done" /\ comp[w].step \in Nat
      /\ c \in Task /\ ~Elided(c) /\ Ordered
  BY <1>1, CurFacts, CountsOrdered DEF TakeTicket
<1>3. HandsOff(c)
  BY <1>1, <1>2 DEF HandoffInv
<1>4. PICK n \in Nat : SpanInv(n) /\ RowCountInv(n)
  BY DEF StepInv
<1> DEFINE Tile == Reduced(c)
           P == Producers(c)
           K == {p \in P : Done(p) = n + 1}
           L == {p \in P : Done(p)' = n + 1}
<1>5. /\ IsFiniteSet(P) /\ c \in P /\ \E y \in Task : y \in Tile
      /\ \A p \in P : p \in Task /\ p \in Queued /\ HandsOff(p) /\ ~Elided(p) /\ Reduced(p) = Tile
  BY <1>2, <1>3, ProducerFacts, TileFacts
<1>6. /\ "ticket" \in AtBody /\ "ticket" \notin AtPublish /\ "ticket" \notin InReducer
      /\ \A pt \in {"reduce", "publish"} : pt \in AtBody /\ pt \in AtPublish /\ pt \in AtEnd
      /\ "ticket" \in AtEnd
  BY DEF AtBody, AtEnd, AtPublish, InReducer
<1>7. comp[w].step = n /\ Begun(c) = n + 1 /\ Done(c) = n /\ Shown(c) = n
  <2>1. \A at : Rounds(c, at) = comp[w].step + (IF comp[w].pc \in at THEN 1 ELSE 0)
    BY <1>1, <1>2, RoundsOfCur
  <2>2. Begun(c) = comp[w].step + 1 /\ Done(c) = comp[w].step /\ Shown(c) = comp[w].step
    BY <1>2, <1>3, <1>6, <2>1 DEF Begun, Done, Shown
  <2>3. Begun(c) \in {n, n + 1} /\ Done(c) \in {n, n + 1}
    BY <1>2, <1>4 DEF SpanInv
  <2> QED
    BY <1>2, <2>2, <2>3
<1>8. \A y \in Tile : /\ output[y] + 1 = n /\ output[y] \in Int
                      /\ ~InHand(y, "reduce") /\ ~InHand(y, "announce")
                      /\ y \in Task /\ Elided(y) /\ Predecessors(y) = P
  <2>1. \A y \in Tile : y \in Task /\ Elided(y) /\ Predecessors(y) = P
    BY <1>2, TileFacts
  <2>2. ASSUME NEW y \in Tile
        PROVE  /\ output[y] + 1 = n /\ output[y] \in Int
               /\ ~InHand(y, "reduce") /\ ~InHand(y, "announce")
    <3>1. output[y] + 1 = n /\ ~InHand(y, "reduce") /\ ~InHand(y, "announce")
      BY <1>2, <1>4, <1>7, TileIdle
    <3>2. output[y] \in Int
      BY <2>1 DEF LoopType, Unwritten
    <3> QED
      BY <3>1, <3>2
  <2> QED
    BY <2>1, <2>2
<1>9. IsFiniteSet(K) /\ Cardinality(K) \in Nat /\ Cardinality(P) \in Nat /\ c \notin K
      /\ Cardinality(K) < Cardinality(P)
  <2>1. K \subseteq P \ {c} /\ c \notin K
    BY <1>7
  <2>2. IsFiniteSet(P \ {c}) /\ Cardinality(P \ {c}) = Cardinality(P) - 1 /\ Cardinality(P) \in Nat
    BY <1>5, FS_RemoveElement, FS_CardinalityType
  <2>3. IsFiniteSet(K) /\ Cardinality(K) <= Cardinality(P \ {c}) /\ Cardinality(K) \in Nat
    BY <2>1, <2>2, FS_Subset, FS_CardinalityType
  <2> HIDE DEF K, P
  <2> QED
    BY <2>1, <2>2, <2>3
<1>10. ticket[Tile] = Cardinality(K)
  <2>1. PICK y \in Tile : output[y] + 1 = n /\ output[y] \in Int
    BY <1>5, <1>8
  <2>2. ticket[Tile] = Cardinality({p \in P : Done(p) = output[y] + 2})
    BY DEF HandoffInv
  <2>3. output[y] + 2 = n + 1
    BY <2>1
  <2> QED
    BY <2>2, <2>3
<1>11. PICK pt \in {"reduce", "publish"} :
         pt = (IF Cardinality(K) + 1 = Cardinality(P) THEN "reduce" ELSE "publish")
  OBVIOUS
<1>12. PICK page \in Nat : Move(w, pt, page)
  <2>1. ~(ticket[Tile] >= Cardinality(P))
    <3> DEFINE k == Cardinality(K)
               q == Cardinality(P)
    <3>1. k \in Nat /\ q \in Nat /\ k < q /\ ticket[Tile] = k
      BY <1>9, <1>10
    <3> HIDE DEF k, q
    <3> QED
      BY <3>1 DEF q
  <2>2. comp' = [comp EXCEPT ![w].pc = pt]
    BY <1>1, <1>10, <1>11, <2>1 DEF TakeTicket
  <2>3. comp[w].page \in Nat /\ Move(w, pt, comp[w].page)
    BY <2>2 DEF LoopType, Move
  <2> QED
    BY <2>3
<1>13. ticket' = [ticket EXCEPT ![Tile] = Cardinality(K) + 1] /\ UNCHANGED <<arrived, output, full, load, ahead>>
  BY <1>1, <1>10 DEF TakeTicket
<1>14. /\ \A x \in Queued \ {c} : Begun(x)' = Begun(x) /\ Done(x)' = Done(x) /\ Shown(x)' = Shown(x)
       /\ Begun(c)' = n + 1 /\ Shown(c)' = n /\ Done(c)' = n + 1
  <2>1. \A x \in Queued \ {c} : Begun(x)' = Begun(x) /\ Done(x)' = Done(x) /\ Shown(x)' = Shown(x)
    BY <1>1, <1>2, <1>12, CountsOfMove DEF Move
  <2>2. /\ Begun(c)' = comp[w].step + (IF pt \in AtBody THEN 1 ELSE 0)
        /\ Shown(c)' = comp[w].step
        /\ Done(c)' = comp[w].step + (IF HandsOff(c) /\ pt \in AtPublish THEN 1 ELSE 0)
    BY <1>1, <1>2, <1>12, CountsOfMove DEF Move
  <2> QED
    BY <1>3, <1>6, <1>7, <2>1, <2>2
<1>15. /\ \A v \in PagedWorker \ {w} : Cur(v)' = Cur(v) /\ comp'[v] = comp[v]
       /\ Cur(w)' = c /\ comp'[w].pc = pt /\ comp'[w].step = n
  BY <1>1, <1>2, <1>7, <1>12, RoundsMove DEF Move
<1>16. \A y : /\ InHand(y, "announce")' <=> InHand(y, "announce")
              /\ InHand(y, "reduce")' <=> (InHand(y, "reduce") \/ (pt = "reduce" /\ y \in Tile))
  <2> SUFFICES ASSUME NEW y
               PROVE  /\ InHand(y, "announce")' <=> InHand(y, "announce")
                      /\ InHand(y, "reduce")' <=> (InHand(y, "reduce") \/ (pt = "reduce" /\ y \in Tile))
    OBVIOUS
  <2>1. \A at : InHand(y, at)' <=> \E v \in PagedWorker : comp'[v].pc = at /\ y \in Reduced(Cur(v)')
    BY DEF InHand, Reduced
  <2>2. \A at : InHand(y, at) <=> \E v \in PagedWorker : comp[v].pc = at /\ y \in Reduced(Cur(v))
    BY DEF InHand
  <2> QED
    BY <1>2, <1>15, <2>1, <2>2
<1>17. /\ \A p \in P : Done(p)' = IF p = c THEN n + 1 ELSE Done(p)
       /\ L = K \cup {c} /\ Cardinality(L) = Cardinality(K) + 1
       /\ pt = "reduce" => \A p \in P : Done(p)' = n + 1
  <2>1. \A p \in P : Done(p)' = IF p = c THEN n + 1 ELSE Done(p)
    BY <1>5, <1>14
  <2>2. L = K \cup {c}
    BY <1>5, <2>1
  <2>3. Cardinality(L) = Cardinality(K) + 1
    BY <1>9, <2>2, FS_AddElement
  <2>4. ASSUME pt = "reduce" PROVE \A p \in P : Done(p)' = n + 1
    <3>1. L \subseteq P /\ Cardinality(L) = Cardinality(P)
      BY <1>11, <2>3, <2>4
    <3>2. L = P
      BY <1>5, <3>1, FS_Subset
    <3> QED
      BY <3>2
  <2> QED
    BY <2>1, <2>2, <2>3, <2>4
<1>18. StepInv' /\ OrderInv'
  <2> DEFINE B == IF pt = "reduce" THEN Tile ELSE {}
             D == {c}
             E == {}
  <2>1. /\ B \in SUBSET Task /\ D \in SUBSET Task /\ E \in SUBSET Task
        /\ \A x \in B : pt = "reduce" /\ x \in Tile
        /\ \A x \in D : x = c
        /\ \A x \in E : FALSE
    BY <1>2, <1>8
  <2>2. Counted(B, D, E)
    <3>1. ASSUME NEW x \in Task
          PROVE  /\ Begun(x)' = Begun(x) + One(x, B) /\ Done(x)' = Done(x) + One(x, D)
                 /\ Shown(x)' = Shown(x) + One(x, E)
      <4>0. Begun(x) \in Int /\ Done(x) \in Int /\ Shown(x) \in Int /\ output[x] \in Int
        BY <1>2 DEF Ordered
      <4>1. CASE x = c
        BY <1>2, <1>7, <1>8, <1>14, <4>1 DEF One
      <4>2. CASE x # c /\ ~Elided(x)
        BY <1>8, <1>14, <4>0, <4>2, QueuedTasks DEF One
      <4>3. CASE Elided(x)
        <5>1. x # c
          BY <1>2, <4>3
        <5>2. output'[x] = output[x]
          BY <1>13
        <5>3. /\ InHand(x, "announce")' <=> InHand(x, "announce")
              /\ InHand(x, "reduce")' <=> (InHand(x, "reduce") \/ x \in B)
              /\ x \in B => ~InHand(x, "reduce")
          <6>1. InHand(x, "announce")' <=> InHand(x, "announce")
            BY <1>16
          <6>2. InHand(x, "reduce")' <=> (InHand(x, "reduce") \/ (pt = "reduce" /\ x \in Tile))
            BY <1>16
          <6>3. x \in B <=> pt = "reduce" /\ x \in Tile
            OBVIOUS
          <6>4. x \in Tile => ~InHand(x, "reduce")
            BY <1>8
          <6> QED
            BY <6>1, <6>2, <6>3, <6>4
        <5>4. Done(x)' = Done(x) /\ Shown(x)' = Shown(x)
          BY <4>3, <5>2, <5>3, CountsOfElided
        <5>5. /\ Begun(x) = output[x] + 1 + (IF InHand(x, "reduce") THEN 1 ELSE 0)
              /\ Begun(x)' = output[x] + 1 + (IF InHand(x, "reduce")' THEN 1 ELSE 0)
          BY <4>3, <5>2, CountsOfElided
        <5>6. Begun(x)' = Begun(x) + One(x, B)
          <6> HIDE DEF B
          <6>1. CASE x \in B
            <7>1. ~InHand(x, "reduce") /\ InHand(x, "reduce")' /\ One(x, B) = 1
              BY <5>3, <6>1 DEF One
            <7>2. Begun(x) = output[x] + 1 + 0 /\ Begun(x)' = output[x] + 1 + 1
              BY <5>5, <7>1
            <7> QED
              BY <4>0, <7>1, <7>2
          <6>2. CASE x \notin B
            <7>1. (InHand(x, "reduce")' <=> InHand(x, "reduce")) /\ One(x, B) = 0
              BY <5>3, <6>2 DEF One
            <7>2. Begun(x)' = Begun(x)
              BY <5>5, <7>1
            <7> QED
              BY <4>0, <7>1, <7>2
          <6> QED
            BY <6>1, <6>2
        <5> QED
          BY <4>0, <5>1, <5>4, <5>6 DEF One
      <4> QED
        BY <4>1, <4>2, <4>3
    <3> QED
      BY <3>1 DEF Counted
  <2>3. \A x \in B : Begun(x) = n
    BY <1>8, <2>1, CountsOfElided
  <2>4. \A x \in D : Done(x) = n /\ Begun(x) = n + 1
    BY <1>7
  <2>5. \A x \in B : \A p \in Predecessors(x) : Done(p)' = n + 1
    BY <1>8, <1>17, <2>1
  <2>6. \A x \in B \cap Queued : FALSE
    BY <1>8, <2>1, QueuedTasks
  <2>7. Arrive(E)
    BY <1>13, ArriveNone
  <2> HIDE DEF B, D, E
  <2>8. SpanInv(n)' /\ OrderInv'
    BY <1>2, <1>4, <2>1, <2>2, <2>3, <2>4, <2>5, <2>6, GrowSpan
  <2>9. RowCountInv(n)'
    BY <1>2, <1>4, <2>1, <2>2, <2>7, GrowCount
  <2> QED
    BY <2>8, <2>9 DEF StepInv
<1>19. LoopType'
  <2>1. ticket' \in [{Reduced(x) : x \in Queued} -> Nat]
    <3>1. PICK k \in Nat : k = Cardinality(K) + 1
      BY <1>9
    <3>2. ticket' = [ticket EXCEPT ![Reduced(c)] = k]
      BY <1>13, <3>1
    <3> QED
      BY <3>2, TicketType
  <2>2. arrived' = arrived /\ output' = output /\ UNCHANGED <<load, ahead>>
    BY <1>13
  <2> QED
    BY <1>2, <1>6, <1>12, <2>1, <2>2, MoveType DEF LoopType
<1>20. OutputInv'
  <2>1. output[c] + 1 = n + 1
    BY <1>1, <1>2, <1>6, <1>7, OutputAtHand
  <2> QED
    BY <1>1, <1>2, <1>6, <1>7, <1>12, <1>13, <2>1, OutputMove
<1>21. ASSUME NEW v \in PagedWorker, v # w, comp[v].pc \in InReducer
       PROVE  Reduced(Cur(v)) # Tile /\ Cur(v) \in Task
  <2>1. PICK y : y \in Tile
    BY <1>5
  <2>2. ~InHand(y, comp[v].pc)
    BY <1>8, <1>21, <2>1 DEF InReducer
  <2>3. comp[v].pc # "done"
    BY <1>21 DEF InReducer
  <2> QED
    BY <2>1, <2>2, <2>3, HandTasks DEF InHand
<1>22. ASSUME NEW x \in Queued, NEW y \in Reduced(x)
       PROVE  ticket'[Reduced(x)] = Cardinality({p \in Producers(x) : Done(p)' = output'[y] + 2})
  <2>1. x \in Task /\ HandsOff(x) /\ y \in Task
    BY QueuedInTask, TileFacts
  <2>2. CASE Reduced(x) = Tile
    <3>1. Producers(x) = P
      BY <1>2, <2>1, <2>2, TilesApart
    <3>2. output'[y] + 2 = n + 1
      BY <1>8, <1>13, <2>2
    <3>3. {p \in Producers(x) : Done(p)' = output'[y] + 2} = L
      BY <3>1, <3>2
    <3>4. ticket'[Tile] = Cardinality(K) + 1
      BY <1>1, <1>13 DEF LoopType
    <3> QED
      BY <1>17, <2>2, <3>3, <3>4
  <2>3. CASE Reduced(x) # Tile
    <3>1. \A p \in Producers(x) : Done(p)' = Done(p)
      BY <1>14, <2>1, <2>3, ProducerFacts
    <3>2. {p \in Producers(x) : Done(p)' = output'[y] + 2} = {p \in Producers(x) : Done(p) = output[y] + 2}
      BY <1>13, <3>1
    <3>3. ticket'[Reduced(x)] = ticket[Reduced(x)]
      BY <1>13, <2>3 DEF LoopType
    <3> QED
      BY <3>2, <3>3 DEF HandoffInv
  <2> QED
    BY <2>2, <2>3
<1>23. ASSUME NEW v \in PagedWorker, comp'[v].pc = "reduce"
       PROVE  /\ \A p \in Producers(Cur(v)') : Done(p)' = comp'[v].step + 1
              /\ \A y \in Reduced(Cur(v)') : output'[y] + 1 = comp'[v].step
  <2>1. CASE v = w
    BY <1>8, <1>13, <1>15, <1>17, <1>23, <2>1
  <2>2. CASE v # w
    <3>1. Cur(v)' = Cur(v) /\ comp'[v] = comp[v] /\ comp[v].pc = "reduce"
      BY <1>15, <1>23, <2>2
    <3>2. PICK b \in Task : b = Cur(v) /\ Reduced(b) # Tile
      BY <1>21, <2>2, <3>1 DEF InReducer
    <3>3. HandsOff(b)
      BY <3>1, <3>2 DEF HandoffInv
    <3>4. \A p \in Producers(b) : Done(p)' = Done(p)
      BY <1>14, <3>2, <3>3, ProducerFacts
    <3> QED
      BY <1>13, <3>1, <3>2, <3>4 DEF HandoffInv
  <2> QED
    BY <2>1, <2>2
<1>24. ASSUME NEW u \in PagedWorker, NEW v \in PagedWorker, comp'[u].pc \in InReducer, comp'[v].pc \in InReducer,
              Reduced(Cur(u)') = Reduced(Cur(v)')
       PROVE  u = v
  <2>1. CASE u # w /\ v # w
    BY <1>15, <1>24, <2>1 DEF HandoffInv
  <2>2. CASE u = w /\ v # w
    BY <1>15, <1>21, <1>24, <2>2
  <2>3. CASE u # w /\ v = w
    BY <1>15, <1>21, <1>24, <2>3
  <2> QED
    BY <2>1, <2>2, <2>3
<1>25. ASSUME NEW v \in PagedWorker, comp'[v].pc \in {"ticket", "reduce", "announce"}
       PROVE  HandsOff(Cur(v)')
  BY <1>3, <1>15, <1>25 DEF HandoffInv
<1>26. HandoffInv'
  BY <1>22, <1>23, <1>24, <1>25, HandoffPrimed
<1>27. LoaderInv' /\ AheadInv'
  <2>1. \A x \in Task : output'[x] >= output[x] /\ output'[x] \in Int
    BY <1>13 DEF LoopType, Unwritten
  <2> QED
    BY <1>13, <2>1, WrittenKept
<1> QED
  BY <1>18, <1>19, <1>20, <1>26, <1>27

LEMMA ReduceStep ==
    ASSUME LoopInv, NEW w \in PagedWorker, Reduce(w)
    PROVE  LoopInv'
<1> USE DEF LoopInv
<1>1. PICK c \in Queued : c = Cur(w)
  BY CurFacts DEF Reduce
<1>2. /\ comp[w].pc = "reduce" /\ comp[w].pc # "done" /\ comp[w].step \in Nat
      /\ c \in Task /\ ~Elided(c) /\ Ordered
  BY <1>1, CurFacts, CountsOrdered DEF Reduce
<1>3. HandsOff(c)
  BY <1>1, <1>2 DEF HandoffInv
<1>4. PICK s \in Nat : s = comp[w].step
  BY <1>2
<1> DEFINE Tile == Reduced(c)
           P == Producers(c)
<1>5. /\ IsFiniteSet(P) /\ c \in P /\ \E y \in Task : y \in Tile
      /\ \A p \in P : p \in Task /\ p \in Queued /\ HandsOff(p) /\ ~Elided(p) /\ Reduced(p) = Tile
  BY <1>2, <1>3, ProducerFacts, TileFacts
<1>6. /\ \A pt \in {"reduce", "announce"} : pt \in AtBody /\ pt \in AtPublish /\ pt \in AtEnd
      /\ InReducer = {"reduce", "announce"}
  BY DEF AtBody, AtEnd, AtPublish, InReducer
<1>7. /\ \A p \in P : Done(p) = s + 1
      /\ \A y \in Tile : output[y] + 1 = s
  BY <1>1, <1>2, <1>4 DEF HandoffInv
<1>8. \A y \in Tile : y \in Task /\ Elided(y) /\ y \notin Queued /\ output[y] \in Int
  <2>1. \A y \in Tile : y \in Task /\ Elided(y)
    BY <1>2, TileFacts
  <2> QED
    BY <2>1, QueuedTasks DEF LoopType, Unwritten
<1>9. PICK page \in Nat : Move(w, "announce", page)
  <2>1. comp[w].page \in Nat /\ Move(w, "announce", comp[w].page)
    BY DEF Reduce, LoopType, Move
  <2> QED
    BY <2>1
<1>10. /\ output' = [x \in Task |-> IF x \in Tile THEN s ELSE output[x]]
       /\ ticket' = [ticket EXCEPT ![Tile] = 0]
       /\ UNCHANGED <<arrived, full, load, ahead>>
  BY <1>1, <1>4 DEF Reduce
<1>11. /\ \A x \in Queued : Begun(x)' = Begun(x) /\ Done(x)' = Done(x) /\ Shown(x)' = Shown(x)
  <2>1. \A x \in Queued \ {c} : Begun(x)' = Begun(x) /\ Done(x)' = Done(x) /\ Shown(x)' = Shown(x)
    BY <1>1, <1>2, <1>9, CountsOfMove DEF Move
  <2>2. /\ Begun(c) = comp[w].step + (IF comp[w].pc \in AtBody THEN 1 ELSE 0)
        /\ Begun(c)' = comp[w].step + (IF "announce" \in AtBody THEN 1 ELSE 0)
        /\ Shown(c) = comp[w].step /\ Shown(c)' = comp[w].step
    BY <1>1, <1>2, <1>9, CountsOfMove DEF Move
  <2>3. /\ Done(c) = comp[w].step + (IF HandsOff(c) /\ comp[w].pc \in AtPublish THEN 1 ELSE 0)
        /\ Done(c)' = comp[w].step + (IF HandsOff(c) /\ "announce" \in AtPublish THEN 1 ELSE 0)
    BY <1>1, <1>2, <1>9, CountsOfMove DEF Move
  <2> QED
    BY <1>2, <1>6, <2>1, <2>2, <2>3
<1>12. /\ \A v \in PagedWorker \ {w} : Cur(v)' = Cur(v) /\ comp'[v] = comp[v]
       /\ Cur(w)' = c /\ comp'[w].pc = "announce"
  BY <1>1, <1>2, <1>9, RoundsMove DEF Move
<1>13. \A v \in PagedWorker \ {w} : comp[v].pc \in InReducer =>
          Cur(v) \in Task /\ Reduced(Cur(v)) # Tile /\ \A y \in Tile : y \notin Reduced(Cur(v))
  <2> SUFFICES ASSUME NEW v \in PagedWorker \ {w}, comp[v].pc \in InReducer
               PROVE  Cur(v) \in Task /\ Reduced(Cur(v)) # Tile /\ \A y \in Tile : y \notin Reduced(Cur(v))
    OBVIOUS
  <2>1. Cur(v) \in Task
    BY <1>6, HandTasks
  <2>2. Reduced(Cur(v)) # Tile
    BY <1>1, <1>2, <1>6 DEF HandoffInv
  <2> QED
    BY <1>2, <2>1, <2>2, TilesApart
<1>14. \A y : IF y \in Tile
              THEN InHand(y, "reduce") /\ ~InHand(y, "announce") /\ ~InHand(y, "reduce")' /\ InHand(y, "announce")'
              ELSE (InHand(y, "reduce")' <=> InHand(y, "reduce")) /\ (InHand(y, "announce")' <=> InHand(y, "announce"))
  <2>1. \A y : \A at : InHand(y, at)' <=> \E v \in PagedWorker : comp'[v].pc = at /\ y \in Reduced(Cur(v)')
    BY DEF InHand, Reduced
  <2>2. \A y : \A at : InHand(y, at) <=> \E v \in PagedWorker : comp[v].pc = at /\ y \in Reduced(Cur(v))
    BY DEF InHand
  <2>3. ASSUME NEW y \in Tile
        PROVE  InHand(y, "reduce") /\ ~InHand(y, "announce") /\ ~InHand(y, "reduce")' /\ InHand(y, "announce")'
    <3>1. InHand(y, "reduce") /\ ~InHand(y, "announce")
      BY <1>1, <1>2, <1>6, <1>13, <2>2
    <3>2. InHand(y, "announce")'
      BY <1>12, <2>1
    <3>3. ~InHand(y, "reduce")'
      BY <1>6, <1>12, <1>13, <2>1
    <3> QED
      BY <3>1, <3>2, <3>3
  <2>4. ASSUME NEW y, y \notin Tile
        PROVE  (InHand(y, "reduce")' <=> InHand(y, "reduce")) /\ (InHand(y, "announce")' <=> InHand(y, "announce"))
    BY <1>1, <1>12, <2>1, <2>2, <2>4
  <2> QED
    BY <2>3, <2>4
<1>15. StepInv' /\ OrderInv'
  <2>1. ASSUME NEW x \in Task
        PROVE  Begun(x)' = Begun(x) /\ Done(x)' = Done(x) /\ Shown(x)' = Shown(x)
    <3>1. CASE ~Elided(x)
      BY <1>11, <3>1, QueuedTasks
    <3>2. CASE Elided(x) /\ x \in Tile
      <4>1. output[x] + 1 = s /\ output[x] \in Int /\ output'[x] = s
        BY <1>7, <1>8, <1>10, <3>2
      <4>2. InHand(x, "reduce") /\ ~InHand(x, "announce") /\ ~InHand(x, "reduce")' /\ InHand(x, "announce")'
        BY <1>14, <3>2
      <4> QED
        BY <3>2, <4>1, <4>2, CountsOfElided
    <3>3. CASE Elided(x) /\ x \notin Tile
      <4>1. output'[x] = output[x]
        BY <1>10, <3>3
      <4>2. (InHand(x, "reduce")' <=> InHand(x, "reduce")) /\ (InHand(x, "announce")' <=> InHand(x, "announce"))
        BY <1>14, <3>3
      <4> QED
        BY <3>3, <4>1, <4>2, CountsOfElided
    <3> QED
      BY <3>1, <3>2, <3>3
  <2>2. Counted({}, {}, {})
    BY <1>2, <2>1 DEF Counted, One, Ordered
  <2>3. PICK n \in Nat : SpanInv(n) /\ RowCountInv(n)
    BY DEF StepInv
  <2>4. SpanInv(n)' /\ RowCountInv(n)' /\ OrderInv'
    BY <1>2, <1>10, <2>2, <2>3, CountedSame
  <2> QED
    BY <2>4 DEF StepInv
<1>16. LoopType'
  <2>1. ticket' \in [{Reduced(x) : x \in Queued} -> Nat]
    BY <1>10, TicketType
  <2>2. output' \in [Task -> Nat \cup {Unwritten}]
    BY <1>10 DEF LoopType
  <2> QED
    BY <1>2, <1>6, <1>9, <1>10, <2>1, <2>2, MoveType DEF LoopType
<1>17. OutputInv'
  <2>1. \A x \in Queued : output'[x] = output[x]
    BY <1>8, <1>10, QueuedInTask
  <2>2. output[c] + 1 = s + 1
    BY <1>1, <1>2, <1>4, <1>6, OutputAtHand
  <2> QED
    BY <1>1, <1>2, <1>4, <1>6, <1>9, <2>1, <2>2, OutputMove
<1>18. ASSUME NEW x \in Queued, NEW y \in Reduced(x)
       PROVE  ticket'[Reduced(x)] = Cardinality({p \in Producers(x) : Done(p)' = output'[y] + 2})
  <2>1. x \in Task /\ HandsOff(x) /\ y \in Task /\ \A p \in Producers(x) : Done(p)' = Done(p)
    BY <1>11, QueuedInTask, TileFacts, ProducerFacts
  <2>2. CASE Reduced(x) = Tile
    <3>1. Producers(x) = P
      BY <1>2, <2>1, <2>2, TilesApart
    <3>2. output'[y] = s
      BY <1>10, <2>1, <2>2
    <3>3. {p \in Producers(x) : Done(p)' = output'[y] + 2} = {}
      BY <1>7, <2>1, <3>1, <3>2
    <3>4. ticket'[Tile] = 0
      BY <1>1, <1>10 DEF LoopType
    <3> QED
      BY <2>2, <3>3, <3>4, FS_EmptySet
  <2>3. CASE Reduced(x) # Tile
    <3>1. output'[y] = output[y]
      BY <1>2, <1>10, <2>1, <2>3, TilesApart
    <3>2. {p \in Producers(x) : Done(p)' = output'[y] + 2} = {p \in Producers(x) : Done(p) = output[y] + 2}
      BY <2>1, <3>1
    <3>3. ticket'[Reduced(x)] = ticket[Reduced(x)]
      BY <1>10, <2>3 DEF LoopType
    <3> QED
      BY <3>2, <3>3 DEF HandoffInv
  <2> QED
    BY <2>2, <2>3
<1>19. ASSUME NEW v \in PagedWorker, comp'[v].pc = "reduce"
       PROVE  /\ \A p \in Producers(Cur(v)') : Done(p)' = comp'[v].step + 1
              /\ \A y \in Reduced(Cur(v)') : output'[y] + 1 = comp'[v].step
  <2>1. v # w /\ Cur(v)' = Cur(v) /\ comp'[v] = comp[v] /\ comp[v].pc = "reduce"
    BY <1>12, <1>19
  <2>2. PICK b \in Task : b = Cur(v) /\ \A y \in Tile : y \notin Reduced(b)
    BY <1>6, <1>13, <2>1
  <2>3. HandsOff(b)
    BY <2>1, <2>2 DEF HandoffInv
  <2>4. \A p \in Producers(b) : Done(p)' = Done(p)
    BY <1>11, <2>2, <2>3, ProducerFacts
  <2>5. \A y \in Reduced(b) : output'[y] = output[y]
    BY <1>10, <2>2, TileFacts
  <2> QED
    BY <2>1, <2>2, <2>4, <2>5 DEF HandoffInv
<1>20. ASSUME NEW u \in PagedWorker, NEW v \in PagedWorker, comp'[u].pc \in InReducer, comp'[v].pc \in InReducer,
              Reduced(Cur(u)') = Reduced(Cur(v)')
       PROVE  u = v
  BY <1>1, <1>2, <1>6, <1>12, <1>20 DEF HandoffInv
<1>21. ASSUME NEW v \in PagedWorker, comp'[v].pc \in {"ticket", "reduce", "announce"}
       PROVE  HandsOff(Cur(v)')
  BY <1>3, <1>12, <1>21 DEF HandoffInv
<1>22. HandoffInv'
  BY <1>18, <1>19, <1>20, <1>21, HandoffPrimed
<1>23. LoaderInv' /\ AheadInv'
  <2>1. \A x \in Task : output'[x] >= output[x] /\ output'[x] \in Int
    BY <1>7, <1>8, <1>10 DEF LoopType, Unwritten
  <2> QED
    BY <1>10, <2>1, WrittenKept
<1> QED
  BY <1>15, <1>16, <1>17, <1>22, <1>23

-----------------------------------------------------------------------------
(***************************************************************************)
(* Arrivals.                                                               *)
(***************************************************************************)
LEMMA ArrivalsOf ==
    ASSUME LoopType, NEW S \in SUBSET Task, ArriveAt(S)
    PROVE  Arrive(S) /\ arrived' \in [LoopRow -> Nat]
<1>1. ASSUME NEW r \in LoopRow
      PROVE  /\ arrived'[r] = arrived[r] + Cardinality(S \cap LoopMembers(r))
             /\ Cardinality(S \cap LoopMembers(r)) \in Nat
  <2>1. {x \in S : r \in LoopNotify(x)} = S \cap LoopMembers(r)
    BY DEF LoopMembers
  <2>2. IsFiniteSet(S \cap LoopMembers(r))
    BY LoopRowMembers, FS_Subset
  <2> QED
    BY <2>1, <2>2, FS_CardinalityType DEF ArriveAt
<1>2. \A r \in LoopRow : arrived[r] \in Nat
  BY DEF LoopType
<1>3. arrived' = [r \in LoopRow |-> arrived'[r]]
  BY DEF ArriveAt
<1>4. ASSUME NEW r \in LoopRow
      PROVE  arrived'[r] \in Nat
  <2>1. PICK k \in Nat : k = Cardinality(S \cap LoopMembers(r))
    BY <1>1
  <2> QED
    BY <1>1, <1>2, <2>1
<1>5. arrived' \in [LoopRow -> Nat]
  BY <1>3, <1>4
<1> QED
  BY <1>1, <1>5 DEF Arrive

LEMMA AnnounceStep ==
    ASSUME LoopInv, NEW w \in PagedWorker, Announce(w)
    PROVE  LoopInv'
<1> USE DEF LoopInv
<1>1. PICK c \in Queued : c = Cur(w)
  BY CurFacts DEF Announce
<1>2. /\ comp[w].pc = "announce" /\ comp[w].pc # "done" /\ comp[w].step \in Nat
      /\ c \in Task /\ ~Elided(c) /\ Ordered
  BY <1>1, CurFacts, CountsOrdered DEF Announce
<1>3. HandsOff(c)
  BY <1>1, <1>2 DEF HandoffInv
<1> DEFINE Tile == Reduced(c)
<1>4. PICK n \in Nat : SpanInv(n) /\ RowCountInv(n)
  BY DEF StepInv
<1>5. PICK pt \in {"stamp", "publish"} :
        pt = (IF Reducer[c.stage] = Argmax THEN "stamp" ELSE "publish")
  OBVIOUS
<1>6. PICK page \in Nat : Move(w, pt, page)
  <2>1. comp[w].page \in Nat /\ Move(w, pt, comp[w].page)
    BY <1>1, <1>5 DEF Announce, LoopType, Move
  <2> QED
    BY <2>1
<1>7. ArriveAt(Tile) /\ UNCHANGED <<ticket, output, full, load, ahead>>
  BY <1>1 DEF Announce
<1>8. /\ \A at \in {"announce", "stamp", "publish"} : at \in AtBody /\ at \in AtPublish /\ at \in AtEnd
      /\ pt \notin InReducer /\ "announce" \in InReducer
  BY <1>5 DEF AtBody, AtEnd, AtPublish, InReducer
<1>9. \A y \in Tile : y \in Task /\ Elided(y)
  BY <1>2, TileFacts
<1>10. \A x \in Queued : Begun(x)' = Begun(x) /\ Done(x)' = Done(x) /\ Shown(x)' = Shown(x)
  <2>1. \A x \in Queued \ {c} : Begun(x)' = Begun(x) /\ Done(x)' = Done(x) /\ Shown(x)' = Shown(x)
    BY <1>1, <1>2, <1>6, CountsOfMove DEF Move
  <2>2. /\ Begun(c) = comp[w].step + (IF comp[w].pc \in AtBody THEN 1 ELSE 0)
        /\ Begun(c)' = comp[w].step + (IF pt \in AtBody THEN 1 ELSE 0)
        /\ Shown(c) = comp[w].step /\ Shown(c)' = comp[w].step
    BY <1>1, <1>2, <1>6, CountsOfMove DEF Move
  <2>3. /\ Done(c) = comp[w].step + (IF HandsOff(c) /\ comp[w].pc \in AtPublish THEN 1 ELSE 0)
        /\ Done(c)' = comp[w].step + (IF HandsOff(c) /\ pt \in AtPublish THEN 1 ELSE 0)
    BY <1>1, <1>2, <1>6, CountsOfMove DEF Move
  <2> QED
    BY <1>2, <1>5, <1>8, <2>1, <2>2, <2>3
<1>11. /\ \A v \in PagedWorker \ {w} : Cur(v)' = Cur(v) /\ comp'[v] = comp[v]
       /\ Cur(w)' = c /\ comp'[w].pc = pt
  BY <1>1, <1>2, <1>6, RoundsMove DEF Move
<1>12. \A v \in PagedWorker \ {w} : comp[v].pc \in InReducer => \A y \in Tile : y \notin Reduced(Cur(v))
  <2> SUFFICES ASSUME NEW v \in PagedWorker \ {w}, comp[v].pc \in InReducer
               PROVE  \A y \in Tile : y \notin Reduced(Cur(v))
    OBVIOUS
  <2>1. Cur(v) \in Task
    BY HandTasks DEF InReducer
  <2>2. Reduced(Cur(v)) # Tile
    BY <1>1, <1>2, <1>8 DEF HandoffInv
  <2> QED
    BY <1>2, <2>1, <2>2, TilesApart
<1>13. \A y : IF y \in Tile
              THEN InHand(y, "announce") /\ ~InHand(y, "reduce") /\ ~InHand(y, "reduce")' /\ ~InHand(y, "announce")'
              ELSE (InHand(y, "reduce")' <=> InHand(y, "reduce")) /\ (InHand(y, "announce")' <=> InHand(y, "announce"))
  <2>1. \A y : \A at : InHand(y, at)' <=> \E v \in PagedWorker : comp'[v].pc = at /\ y \in Reduced(Cur(v)')
    BY DEF InHand, Reduced
  <2>2. \A y : \A at : InHand(y, at) <=> \E v \in PagedWorker : comp[v].pc = at /\ y \in Reduced(Cur(v))
    BY DEF InHand
  <2>3. ASSUME NEW y \in Tile
        PROVE  InHand(y, "announce") /\ ~InHand(y, "reduce") /\ ~InHand(y, "reduce")' /\ ~InHand(y, "announce")'
    <3>1. InHand(y, "announce") /\ ~InHand(y, "reduce")
      BY <1>1, <1>2, <1>12, <2>2 DEF InReducer
    <3>2. ~InHand(y, "announce")' /\ ~InHand(y, "reduce")'
      BY <1>5, <1>11, <1>12, <2>1 DEF InReducer
    <3> QED
      BY <3>1, <3>2
  <2>4. ASSUME NEW y, y \notin Tile
        PROVE  (InHand(y, "reduce")' <=> InHand(y, "reduce")) /\ (InHand(y, "announce")' <=> InHand(y, "announce"))
    BY <1>1, <1>5, <1>11, <2>1, <2>2, <2>4
  <2> QED
    BY <2>3, <2>4
<1>14. \A y \in Tile : /\ Begun(y)' = Begun(y) /\ Done(y)' = Done(y) + 1 /\ Shown(y)' = Shown(y) + 1
                       /\ Done(y) = n /\ Shown(y) = n /\ Begun(y) = n + 1
  <2> SUFFICES ASSUME NEW y \in Tile
               PROVE  /\ Begun(y)' = Begun(y) /\ Done(y)' = Done(y) + 1 /\ Shown(y)' = Shown(y) + 1
                      /\ Done(y) = n /\ Shown(y) = n /\ Begun(y) = n + 1
    OBVIOUS
  <2>1. y \in Task /\ Elided(y) /\ output'[y] = output[y] /\ output[y] \in Int
    BY <1>7, <1>9 DEF LoopType, Unwritten
  <2>2. InHand(y, "announce") /\ ~InHand(y, "reduce") /\ ~InHand(y, "reduce")' /\ ~InHand(y, "announce")'
    BY <1>13
  <2>3. /\ Begun(y) = output[y] + 1 /\ Done(y) = output[y] /\ Shown(y) = output[y]
        /\ Begun(y)' = output[y] + 1 /\ Done(y)' = output[y] + 1 /\ Shown(y)' = output[y] + 1
    BY <2>1, <2>2, CountsOfElided
  <2>4. Begun(y) \in {n, n + 1} /\ Done(y) \in {n, n + 1}
    BY <1>4, <2>1 DEF SpanInv
  <2> QED
    BY <2>1, <2>3, <2>4
<1>15. \A x \in Task : Elided(x) /\ x \notin Tile =>
          Begun(x)' = Begun(x) /\ Done(x)' = Done(x) /\ Shown(x)' = Shown(x)
  <2> SUFFICES ASSUME NEW x \in Task, Elided(x), x \notin Tile
               PROVE  Begun(x)' = Begun(x) /\ Done(x)' = Done(x) /\ Shown(x)' = Shown(x)
    OBVIOUS
  <2>1. output'[x] = output[x]
    BY <1>7
  <2>2. (InHand(x, "reduce")' <=> InHand(x, "reduce")) /\ (InHand(x, "announce")' <=> InHand(x, "announce"))
    BY <1>13
  <2> QED
    BY <2>1, <2>2, CountsOfElided
<1>16. StepInv' /\ OrderInv'
  <2> DEFINE E == {}
             T == Tile
  <2>1. T \in SUBSET Task /\ E \in SUBSET Task /\ \A x \in E : FALSE
    BY <1>9
  <2>2. Counted(E, T, T)
    <3>1. ASSUME NEW x \in Task
          PROVE  /\ Begun(x)' = Begun(x) + One(x, E) /\ Done(x)' = Done(x) + One(x, T)
                 /\ Shown(x)' = Shown(x) + One(x, T)
      <4>1. Begun(x) \in Int /\ Done(x) \in Int /\ Shown(x) \in Int
        BY <1>2 DEF Ordered
      <4>2. CASE x \in Tile
        BY <1>14, <4>1, <4>2 DEF One
      <4>3. CASE x \notin Tile
        <5>1. Begun(x)' = Begun(x) /\ Done(x)' = Done(x) /\ Shown(x)' = Shown(x)
          BY <1>10, <1>15, <4>3, QueuedTasks
        <5> QED
          BY <4>1, <4>3, <5>1 DEF One
      <4> QED
        BY <4>2, <4>3
    <3> QED
      BY <3>1 DEF Counted
  <2>3. \A x \in T : Done(x) = n /\ Begun(x) = n + 1 /\ Shown(x) # n + 1
    BY <1>14
  <2>4. Arrive(T)
    BY <1>7, <2>1, ArrivalsOf
  <2> HIDE DEF T, E
  <2>5. SpanInv(n)' /\ OrderInv'
    BY <1>2, <1>4, <2>1, <2>2, <2>3, GrowSpan
  <2>6. RowCountInv(n)'
    BY <1>2, <1>4, <2>1, <2>2, <2>3, <2>4, GrowCount
  <2> QED
    BY <2>5, <2>6 DEF StepInv
<1>17. LoopType'
  <2>1. arrived' \in [LoopRow -> Nat]
    BY <1>7, <1>9, ArrivalsOf
  <2> QED
    BY <1>2, <1>6, <1>7, <1>8, <2>1, MoveType DEF LoopType
<1>18. OutputInv'
  <2>1. output[c] + 1 = comp[w].step + 1
    BY <1>1, <1>2, <1>8, OutputAtHand
  <2> QED
    BY <1>1, <1>2, <1>6, <1>7, <1>8, <2>1, OutputMove
<1>19. HandoffInv'
  <2>1. comp'[w].pc \notin InReducer /\ comp'[w].pc # "ticket"
    BY <1>5, <1>8, <1>11
  <2>2. \A v \in PagedWorker : comp[v].pc \in {"ticket", "reduce", "announce"} => Cur(v) \in Task
    BY HandTasks
  <2> QED
    BY <1>7, <1>10, <1>11, <2>1, <2>2, HandoffKept
<1>20. LoaderInv' /\ AheadInv'
  <2>1. \A x \in Task : output'[x] >= output[x] /\ output'[x] \in Int
    BY <1>7 DEF LoopType, Unwritten
  <2> QED
    BY <1>7, <2>1, WrittenKept
<1> QED
  BY <1>16, <1>17, <1>18, <1>19, <1>20

LEMMA PublishStep ==
    ASSUME LoopInv, NEW w \in PagedWorker, Publish(w)
    PROVE  LoopInv'
<1> USE DEF LoopInv
<1>1. PICK c \in Queued : c = Cur(w)
  BY CurFacts DEF Publish
<1>2. /\ comp[w].pc = "publish" /\ comp[w].pc # "done" /\ comp[w].step \in Nat
      /\ c \in Task /\ ~Elided(c) /\ Ordered
      /\ OwnerOf(c) = w /\ SlotOf(c) = comp[w].slot /\ comp[w].slot \in Nat
  BY <1>1, CurFacts, CountsOrdered DEF Publish, LoopType
<1>3. PICK s \in Nat : s = comp[w].step
  BY <1>2
<1>4. PICK n \in Nat : SpanInv(n) /\ RowCountInv(n)
  BY DEF StepInv
<1>5. comp' = GoOn(comp, w, "wait") /\ ArriveAt({c}) /\ UNCHANGED <<ticket, output, full, load, ahead>>
  BY <1>1 DEF Publish
<1>6. /\ \A at \in {{}, AtPublish, AtEnd, AtBody} : at \subseteq AtBody
      /\ "publish" \in AtBody /\ "publish" \in AtPublish /\ "publish" \in AtEnd
      /\ "publish" \notin InReducer
  BY DEF AtBody, AtEnd, AtPublish, InReducer
<1>7. /\ \A at : at \subseteq AtBody => Rounds(c, at)' = s + 1
      /\ \A at : \A x \in Queued \ {c} :
            at \subseteq AtBody => (IF OwnerOf(x) = w THEN Rounds(x, at)' = Rounds(x, {})
                                    ELSE Rounds(x, at)' = Rounds(x, at))
      /\ \A v \in PagedWorker \ {w} : Cur(v)' = Cur(v) /\ comp'[v] = comp[v]
      /\ comp'[w].pc \in {"wait", "done"}
      /\ comp'[w] \in [step : Nat, slot : Nat, page : Nat, pc : {"wait", "done"}]
      /\ Placed(comp'[w], w)
  BY <1>1, <1>2, <1>3, <1>5, RoundsGoOn
<1>8. ASSUME NEW x \in Queued \ {c}, NEW at, at \subseteq AtBody
      PROVE  Rounds(x, at)' = Rounds(x, at)
  <2>1. CASE OwnerOf(x) # w
    BY <1>7, <1>8, <2>1
  <2>2. CASE OwnerOf(x) = w
    <3>1. SlotOf(x) # comp[w].slot
      BY <1>1, <1>2, <2>2, PlaceOfTask DEF Cur, TaskAt
    <3>2. Rounds(x, at) = Rounds(x, {})
      BY <2>2, <3>1 DEF Rounds
    <3> QED
      BY <1>7, <1>8, <2>2, <3>2
  <2> QED
    BY <2>1, <2>2
<1>9. \A at : Rounds(c, at) = s + (IF "publish" \in at THEN 1 ELSE 0)
  BY <1>1, <1>2, <1>3, RoundsOfCur
<1>10. \A x \in Queued : /\ Begun(x)' = Rounds(x, AtBody)' /\ Shown(x)' = Rounds(x, {})'
                         /\ Done(x)' = IF HandsOff(x) THEN Rounds(x, AtPublish)' ELSE Rounds(x, {})'
                         /\ Begun(x) = Rounds(x, AtBody) /\ Shown(x) = Rounds(x, {})
                         /\ Done(x) = IF HandsOff(x) THEN Rounds(x, AtPublish) ELSE Rounds(x, {})
  <2>1. \A x \in Queued : ~Elided(x) /\ x \in Task
    BY QueuedTasks, QueuedInTask
  <2> QED
    BY <2>1 DEF Begun, Shown, Done, Elided, HandsOff, AtBody, AtEnd, AtPublish
<1>11. \A x \in Queued \ {c} : Begun(x)' = Begun(x) /\ Done(x)' = Done(x) /\ Shown(x)' = Shown(x)
  BY <1>6, <1>8, <1>10
<1>12. /\ Begun(c) = s + 1 /\ Begun(c)' = s + 1 /\ Shown(c) = s /\ Shown(c)' = s + 1
       /\ Done(c) = (IF HandsOff(c) THEN s + 1 ELSE s) /\ Done(c)' = s + 1
  BY <1>6, <1>7, <1>9, <1>10
<1>13. \A x \in Task : Elided(x) => Begun(x)' = Begun(x) /\ Done(x)' = Done(x) /\ Shown(x)' = Shown(x)
  <2>1. comp[w].pc \notin InReducer /\ comp'[w].pc \notin InReducer
    BY <1>2, <1>6, <1>7 DEF InReducer
  <2>2. \A y : \A at \in InReducer : InHand(y, at)' = InHand(y, at)
    BY <1>7, <2>1, HandsQuiet
  <2> QED
    BY <1>5, <2>2, CountsOfElided DEF InReducer
<1>14. StepInv' /\ OrderInv'
  <2> DEFINE E == {}
             S == {c}
             D == IF HandsOff(c) THEN {} ELSE {c}
  <2>1. /\ E \in SUBSET Task /\ D \in SUBSET Task /\ S \in SUBSET Task
        /\ \A x \in E : FALSE
        /\ \A x : x \in D <=> x = c /\ ~HandsOff(c)
        /\ \A x : x \in S <=> x = c
    BY <1>2
  <2>2. Begun(c) \in {n, n + 1} /\ Done(c) \in {n, n + 1}
    BY <1>2, <1>4 DEF SpanInv
  <2> HIDE DEF E, S, D
  <2>3. Counted(E, D, S)
    <3>1. ASSUME NEW x \in Task
          PROVE  /\ Begun(x)' = Begun(x) + One(x, E) /\ Done(x)' = Done(x) + One(x, D)
                 /\ Shown(x)' = Shown(x) + One(x, S)
      <4>1. Begun(x) \in Int /\ Done(x) \in Int /\ Shown(x) \in Int
        BY <1>2 DEF Ordered
      <4>2. CASE x = c
        BY <1>12, <2>1, <4>1, <4>2 DEF One
      <4>3. CASE x # c
        <5>1. Begun(x)' = Begun(x) /\ Done(x)' = Done(x) /\ Shown(x)' = Shown(x)
          BY <1>11, <1>13, <4>3, QueuedTasks
        <5> QED
          BY <2>1, <4>1, <4>3, <5>1 DEF One
      <4> QED
        BY <4>2, <4>3
    <3> QED
      BY <3>1 DEF Counted
  <2>4. \A x \in D : Done(x) = n /\ Begun(x) = n + 1
    BY <1>12, <2>1, <2>2
  <2>5. \A x \in S : Shown(x) # n + 1
    BY <1>12, <2>1, <2>2
  <2>6. Arrive(S)
    BY <1>5, <2>1, ArrivalsOf DEF S
  <2>7. SpanInv(n)' /\ OrderInv'
    BY <1>2, <1>4, <2>1, <2>3, <2>4, GrowSpan
  <2>8. RowCountInv(n)'
    BY <1>2, <1>4, <2>1, <2>3, <2>5, <2>6, GrowCount
  <2> QED
    BY <2>7, <2>8 DEF StepInv
<1>15. LoopType'
  <2>1. arrived' \in [LoopRow -> Nat]
    BY <1>2, <1>5, ArrivalsOf
  <2>2. \A v \in PagedWorker \ {w} : comp'[v] = comp[v]
    BY <1>7
  <2>3. /\ comp' \in [PagedWorker -> [step : Nat, slot : Nat, page : Nat, pc : AtBody \cup {"wait", "done"}]]
        /\ \A v \in PagedWorker : Placed(comp'[v], v)
    <3>1. comp' = [v \in PagedWorker |-> comp'[v]]
      BY <1>5 DEF GoOn, LoopType
    <3>2. ASSUME NEW v \in PagedWorker
          PROVE  /\ comp'[v] \in [step : Nat, slot : Nat, page : Nat, pc : AtBody \cup {"wait", "done"}]
                 /\ Placed(comp'[v], v)
      <4>1. CASE v = w
        BY <1>7, <4>1
      <4>2. CASE v # w
        BY <2>2, <4>2 DEF LoopType
      <4> QED
        BY <4>1, <4>2
    <3> QED
      BY <3>1, <3>2
  <2>4. \A v \in PagedWorker : Placed(comp[v], v)' /\ Placed(load[v], v)'
    <3>1. \A v \in PagedWorker : Placed(load[v], v)
      BY DEF LoopType
    <3> QED
      BY <1>5, <2>3, <3>1 DEF Placed
  <2> QED
    BY <1>5, <2>1, <2>3, <2>4 DEF LoopType, Reduced, AtBody, AtEnd, AtPublish
<1>16. OutputInv'
  <2>1. ASSUME NEW x \in Queued
        PROVE  output'[x] + 1 = Rounds(x, AtEnd)'
    <3>1. output[x] + 1 = Rounds(x, AtEnd) /\ output'[x] = output[x]
      BY <1>5 DEF OutputInv
    <3>2. Rounds(x, AtEnd)' = Rounds(x, AtEnd)
      <4>1. CASE x = c
        BY <1>6, <1>7, <1>9, <4>1
      <4>2. CASE x # c
        BY <1>6, <1>8, <4>2
      <4> QED
        BY <4>1, <4>2
    <3> QED
      BY <3>1, <3>2
  <2> QED
    BY <2>1 DEF OutputInv, AtEnd, AtPublish
<1>17. HandoffInv'
  <2>1. \A p \in Queued : HandsOff(p) => Done(p)' = Done(p)
    BY <1>11, <1>12
  <2>2. comp'[w].pc \notin InReducer /\ comp'[w].pc # "ticket"
    BY <1>7 DEF InReducer
  <2>3. \A v \in PagedWorker : comp[v].pc \in {"ticket", "reduce", "announce"} => Cur(v) \in Task
    BY HandTasks
  <2> QED
    BY <1>5, <1>7, <2>1, <2>2, <2>3, HandoffKept
<1>18. LoaderInv' /\ AheadInv'
  <2>1. \A x \in Task : output'[x] >= output[x] /\ output'[x] \in Int
    BY <1>5 DEF LoopType, Unwritten
  <2> QED
    BY <1>5, <2>1, WrittenKept
<1> QED
  BY <1>14, <1>15, <1>16, <1>17, <1>18

-----------------------------------------------------------------------------
(***************************************************************************)
(* The loader and its look-ahead.                                          *)
(***************************************************************************)
\* A row reached for m rounds: each member has run for as many steps.
LEMMA ReachedMeansWritten ==
    ASSUME LoopInv, NEW r \in LoopRow, NEW m \in Nat, Reached(r, m), NEW p \in LoopMembers(r)
    PROVE  output[p] + 1 >= m
<1>1. PICK n \in Nat : SpanInv(n) /\ RowCountInv(n)
  BY DEF LoopInv, StepInv
<1>2. Ordered /\ p \in Task
  BY CountsOrdered, LoopRowMembers DEF LoopInv
<1>3. Done(p) >= m
  BY <1>1, <1>2, ReachedMeansDone
<1> QED
  BY <1>2, <1>3 DEF Ordered

\* The compute side of a loader step.
LEMMA LoaderQuiet ==
    ASSUME LoopInv, UNCHANGED <<arrived, ticket, output, comp>>
    PROVE  StepInv' /\ OrderInv' /\ OutputInv' /\ HandoffInv'
<1>1. /\ \A x : \A at : Rounds(x, at)' = Rounds(x, at)
      /\ \A y : \A at : InHand(y, at)' = InHand(y, at)
      /\ \A v : Cur(v)' = Cur(v)
  BY DEF Rounds, InHand, Cur, TaskAt, Reduced
<1>2. \A x \in Task : Begun(x)' = Begun(x) /\ Done(x)' = Done(x) /\ Shown(x)' = Shown(x)
  BY <1>1 DEF Begun, Done, Shown, Elided, HandsOff, AtBody, AtEnd, AtPublish
<1>3. Ordered /\ LoopType
  BY CountsOrdered DEF LoopInv
<1>4. Counted({}, {}, {})
  BY <1>2, <1>3 DEF Counted, One, Ordered
<1>5. PICK n \in Nat : SpanInv(n) /\ RowCountInv(n)
  BY DEF LoopInv, StepInv
<1>6. SpanInv(n)' /\ RowCountInv(n)' /\ OrderInv'
  BY <1>3, <1>4, <1>5, CountedSame DEF LoopInv
<1>7. OutputInv'
  BY <1>1 DEF LoopInv, OutputInv, AtEnd, AtPublish
<1>8. HandoffInv'
  <2>1. \A x \in Queued : \A y \in Reduced(x) :
           ticket'[Reduced(x)] = Cardinality({p \in Producers(x) : Done(p)' = output'[y] + 2})
    <3> SUFFICES ASSUME NEW x \in Queued, NEW y \in Reduced(x)
                 PROVE  ticket'[Reduced(x)] = Cardinality({p \in Producers(x) : Done(p)' = output'[y] + 2})
      OBVIOUS
    <3>1. \A p \in Producers(x) : Done(p)' = Done(p)
      BY <1>2 DEF Producers, TasksOf
    <3>2. {p \in Producers(x) : Done(p)' = output'[y] + 2} = {p \in Producers(x) : Done(p) = output[y] + 2}
      BY <3>1
    <3> QED
      BY <3>2 DEF LoopInv, HandoffInv
  <2>2. \A v \in PagedWorker : comp'[v].pc = "reduce" =>
           /\ \A p \in Producers(Cur(v)') : Done(p)' = comp'[v].step + 1
           /\ \A y \in Reduced(Cur(v)') : output'[y] + 1 = comp'[v].step
    BY <1>1, <1>2 DEF LoopInv, HandoffInv, Producers, TasksOf
  <2>3. \A v \in PagedWorker : comp'[v].pc \in {"ticket", "reduce", "announce"} => HandsOff(Cur(v)')
    BY <1>1 DEF LoopInv, HandoffInv
  <2>4. \A u, v \in PagedWorker :
           comp'[u].pc \in InReducer /\ comp'[v].pc \in InReducer
              /\ Reduced(Cur(u)') = Reduced(Cur(v)') => u = v
    BY <1>1 DEF LoopInv, HandoffInv
  <2> QED
    BY <2>1, <2>2, <2>3, <2>4, HandoffPrimed
<1> QED
  BY <1>5, <1>6, <1>7, <1>8 DEF StepInv

LoadPc == {"gate", "ahead", "lag", "peek", "fill", "done"}
LoadRecord == [step : Nat, slot : Nat, page : Nat, pc : LoadPc]
AheadRecord == [step : Nat, slot : Nat, page : Nat, prefetched : Nat, loaded : Nat]

LEMMA LoaderMoved ==
    ASSUME LoopInv, NEW w \in PagedWorker, NEW r \in LoadRecord, NEW a \in AheadRecord,
           load' = [load EXCEPT ![w] = r], ahead' = [ahead EXCEPT ![w] = a],
           UNCHANGED <<arrived, ticket, output, comp>>,
           Placed(r, w), Schedule[w] # <<>> => a.slot \in DOMAIN Schedule[w],
           HistoryHad(r, w), GateHad(a, w)
    PROVE  LoopInv'
<1> USE DEF LoopInv
<1>1. StepInv' /\ OrderInv' /\ OutputInv' /\ HandoffInv'
  BY LoaderQuiet
<1>2. /\ load'[w] = r /\ ahead'[w] = a
      /\ \A v \in PagedWorker \ {w} : load'[v] = load[v] /\ ahead'[v] = ahead[v]
  BY DEF LoopType
<1>3. LoopType'
  <2>1. load' \in [PagedWorker -> LoadRecord] /\ ahead' \in [PagedWorker -> AheadRecord]
    BY DEF LoopType, LoadRecord, AheadRecord, LoadPc
  <2>2. \A v \in PagedWorker : /\ Placed(comp'[v], v) /\ Placed(load'[v], v)
                               /\ Schedule[v] # <<>> => ahead'[v].slot \in DOMAIN Schedule[v]
    BY <1>2 DEF LoopType
  <2>3. \A v \in PagedWorker : Placed(comp[v], v)' /\ Placed(load[v], v)'
    BY <2>2 DEF Placed
  <2> QED
    BY <2>1, <2>2, <2>3 DEF LoopType, Reduced, AtBody, AtEnd, AtPublish, LoadRecord, AheadRecord, LoadPc
<1>4. LoaderInv'
  <2>1. \A v \in PagedWorker : HistoryHad(load'[v], v)
    BY <1>2 DEF LoaderInv
  <2> QED
    BY <2>1 DEF LoaderInv, HistoryHad, TaskAt, Lags
<1>5. AheadInv'
  <2>1. \A v \in PagedWorker : GateHad(ahead'[v], v)
    BY <1>2 DEF AheadInv
  <2> QED
    BY <2>1 DEF AheadInv, GateHad, TaskAt
<1> QED
  BY <1>1, <1>3, <1>4, <1>5

\* The records at hand, named.
LEMMA LoaderRecords ==
    ASSUME LoopInv, NEW w \in PagedWorker
    PROVE  /\ load[w] \in LoadRecord /\ ahead[w] \in AheadRecord
           /\ Placed(load[w], w) /\ HistoryHad(load[w], w) /\ GateHad(ahead[w], w)
           /\ Schedule[w] # <<>> => ahead[w].slot \in DOMAIN Schedule[w]
           /\ load = [load EXCEPT ![w] = load[w]] /\ ahead = [ahead EXCEPT ![w] = ahead[w]]
BY DEF LoopInv, LoopType, LoaderInv, AheadInv, LoadRecord, AheadRecord, LoadPc

LEMMA LoaderHand ==
    ASSUME NEW w \in PagedWorker, NEW r, Placed(r, w), r.pc # "done"
    PROVE  r.slot \in DOMAIN Schedule[w] /\ r.step < Steps /\ TaskAt(r, w) \in Task
           /\ TaskAt(r, w).stage \in Stage
<1>1. r.slot \in DOMAIN Schedule[w] /\ r.step < Steps
  BY DEF Placed
<1>2. TaskAt(r, w) \in Task
  BY <1>1, TaskOfPlace, QueuedInTask DEF TaskAt
<1> QED
  BY <1>1, <1>2, TaskFields

LEMMA LoadRecordOf ==
    ASSUME NEW i \in Nat, NEW j \in Nat, NEW k \in Nat, NEW c \in LoadPc
    PROVE  [step |-> i, slot |-> j, page |-> k, pc |-> c] \in LoadRecord
BY DEF LoadRecord

\* A loader leaves its task: in place for the next one, or done.
LEMMA LoaderPlace ==
    ASSUME NEW w \in PagedWorker, NEW i \in Nat, NEW j \in Nat, NEW c \in {"gate", "done"},
           c = "done" => i = Steps /\ j = 1,
           c = "gate" => i < Steps /\ j \in DOMAIN Schedule[w]
    PROVE  LET q == [step |-> i, slot |-> j, page |-> 0, pc |-> c]
           IN  q \in LoadRecord /\ Placed(q, w) /\ HistoryHad(q, w)
<1> DEFINE q == [step |-> i, slot |-> j, page |-> 0, pc |-> c]
<1>1. q \in LoadRecord
  BY LoadRecordOf DEF LoadPc
<1>2. q.step = i /\ q.slot = j /\ q.pc = c
  OBVIOUS
<1> HIDE DEF q
<1>3. Placed(q, w) /\ HistoryHad(q, w)
  BY <1>2 DEF Placed, HistoryHad
<1> QED
  BY <1>1, <1>3 DEF q

LEMMA LoaderGoesOn ==
    ASSUME NEW w \in PagedWorker, NEW r \in LoadRecord, Placed(r, w), r.pc # "done"
    PROVE  LET q == [NextSlot(r, w) EXCEPT !.pc = IF NextSlot(r, w).step < Steps THEN "gate" ELSE "done"]
           IN  q \in LoadRecord /\ Placed(q, w) /\ HistoryHad(q, w)
<1> DEFINE Q == Schedule[w]
           q == [NextSlot(r, w) EXCEPT !.pc = IF NextSlot(r, w).step < Steps THEN "gate" ELSE "done"]
<1>1. r.slot \in DOMAIN Q /\ r.step < Steps /\ Steps \in Nat
  BY LoaderHand, PagedAssumption
<1>2. Q \in Seq(Queued) /\ DOMAIN Q = 1 .. Len(Q) /\ Len(Q) \in Nat
  BY ScheduleAssumption
<1>3. /\ r \in [step : Nat, slot : Nat, page : Nat, pc : LoadPc]
      /\ r.step \in Nat /\ r.slot \in Nat /\ r.step + 1 \in Nat /\ r.slot + 1 \in Nat
  BY DEF LoadRecord
<1>4. CASE r.slot < Len(Q)
  <2>1. NextSlot(r, w) = [r EXCEPT !.slot = r.slot + 1, !.page = 0]
    BY <1>4 DEF NextSlot
  <2>2. NextSlot(r, w) = [step |-> r.step, slot |-> r.slot + 1, page |-> 0, pc |-> r.pc]
    BY <1>3, <2>1
  <2>3. q = [step |-> r.step, slot |-> r.slot + 1, page |-> 0, pc |-> "gate"]
    <3>1. NextSlot(r, w).step < Steps
      BY <1>1, <2>2
    <3>2. [[step |-> r.step, slot |-> r.slot + 1, page |-> 0, pc |-> r.pc] EXCEPT !.pc = "gate"]
            = [step |-> r.step, slot |-> r.slot + 1, page |-> 0, pc |-> "gate"]
      OBVIOUS
    <3> QED
      BY <2>2, <3>1, <3>2, Zenon
  <2>4. r.slot + 1 \in DOMAIN Q
    BY <1>1, <1>2, <1>4
  <2> HIDE DEF q
  <2>5. q \in LoadRecord /\ Placed(q, w) /\ HistoryHad(q, w)
    BY <1>1, <1>3, <2>3, <2>4, LoaderPlace
  <2> QED
    BY <2>5 DEF q
<1>5. CASE ~(r.slot < Len(Q))
  <2>1. NextSlot(r, w) = [r EXCEPT !.step = r.step + 1, !.slot = 1, !.page = 0]
    BY <1>5 DEF NextSlot
  <2>2. PICK c \in {"gate", "done"} : c = (IF r.step + 1 < Steps THEN "gate" ELSE "done")
    OBVIOUS
  <2>3. q = [step |-> r.step + 1, slot |-> 1, page |-> 0, pc |-> c]
    <3>1. NextSlot(r, w) = [step |-> r.step + 1, slot |-> 1, page |-> 0, pc |-> r.pc]
      BY <1>3, <2>1
    <3>2. NextSlot(r, w).step = r.step + 1
      BY <3>1
    <3>3. [[step |-> r.step + 1, slot |-> 1, page |-> 0, pc |-> r.pc] EXCEPT !.pc = c]
            = [step |-> r.step + 1, slot |-> 1, page |-> 0, pc |-> c]
      OBVIOUS
    <3> QED
      BY <2>2, <3>1, <3>2, <3>3, Zenon
  <2>4. 1 \in DOMAIN Q /\ (c = "done" => r.step + 1 = Steps) /\ (c = "gate" => r.step + 1 < Steps)
    BY <1>1, <1>2, <1>3, <2>2
  <2> HIDE DEF q
  <2>5. q \in LoadRecord /\ Placed(q, w) /\ HistoryHad(q, w)
    BY <1>3, <2>3, <2>4, LoaderPlace
  <2> QED
    BY <2>5 DEF q
<1> QED
  BY <1>2, <1>3, <1>4, <1>5

LEMMA OpenGateStep ==
    ASSUME LoopInv, NEW w \in PagedWorker, OpenGate(w)
    PROVE  LoopInv'
<1>1. PICK r \in LoadRecord : r = load[w]
  BY LoaderRecords
<1>2. PICK a \in AheadRecord : a = ahead[w]
  BY LoaderRecords
<1>3. PICK q \in LoadRecord : q = [r EXCEPT !.pc = "ahead"]
  BY DEF LoadRecord, LoadPc
<1>4. q.pc = "ahead" /\ q.slot = r.slot /\ q.step = r.step
  BY <1>3 DEF LoadRecord
<1>5. load' = [load EXCEPT ![w] = q] /\ ahead' = [ahead EXCEPT ![w] = a]
  BY <1>1, <1>2, <1>3, LoaderRecords DEF OpenGate
<1>6. Placed(r, w) /\ r.pc # "done" /\ GateHad(a, w) /\ (Schedule[w] # <<>> => a.slot \in DOMAIN Schedule[w])
  BY <1>1, <1>2, LoaderRecords DEF OpenGate
<1>7. Placed(q, w) /\ HistoryHad(q, w)
  BY <1>4, <1>6 DEF Placed, HistoryHad
<1> QED
  BY <1>5, <1>6, <1>7, LoaderMoved DEF OpenGate

LEMMA PrefetchStep ==
    ASSUME LoopInv, NEW w \in PagedWorker, Prefetch(w)
    PROVE  LoopInv'
<1>1. PICK r \in LoadRecord : r = load[w]
  BY LoaderRecords
<1>2. PICK a \in AheadRecord : a = ahead[w]
  BY LoaderRecords
<1>3. /\ Placed(r, w) /\ HistoryHad(r, w) /\ GateHad(a, w)
      /\ Schedule[w] # <<>> => a.slot \in DOMAIN Schedule[w]
      /\ r.pc # "done"
  BY <1>1, <1>2, LoaderRecords DEF Prefetch, InLookahead
<1> DEFINE Q == Schedule[w]
<1>4. /\ Q \in Seq(Queued) /\ DOMAIN Q = 1 .. Len(Q) /\ Len(Q) \in Nat
      /\ a.slot \in DOMAIN Q /\ TaskAt(a, w).stage \in Stage
  <2>1. Q \in Seq(Queued) /\ DOMAIN Q = 1 .. Len(Q) /\ Len(Q) \in Nat
    BY ScheduleAssumption
  <2>2. Q # <<>>
    BY <1>3, LoaderHand
  <2>3. TaskAt(a, w) \in Task
    BY <1>3, <2>2, TaskOfPlace, QueuedInTask DEF TaskAt
  <2> QED
    BY <1>3, <2>1, <2>2, <2>3, TaskFields
<1>5. a \in [step : Nat, slot : Nat, page : Nat, prefetched : Nat, loaded : Nat]
  BY DEF AheadRecord
<1> DEFINE b == NextOfStream(a, w)
<1>6. b \in AheadRecord /\ b.slot \in DOMAIN Q
      /\ (b.page > 0 => b.page = a.page + 1 /\ b.slot = a.slot /\ b.step = a.step)
  <2>1. CASE a.page < Pages[TaskAt(a, w).stage]
    <3>1. b = [step |-> a.step, slot |-> a.slot, page |-> a.page + 1,
               prefetched |-> a.prefetched + 1, loaded |-> a.loaded]
      BY <1>5, <2>1 DEF NextOfStream
    <3> HIDE DEF b
    <3> QED
      BY <1>4, <1>5, <3>1 DEF AheadRecord
  <2>2. CASE ~(a.page < Pages[TaskAt(a, w).stage]) /\ a.slot < Len(Q)
    <3>1. NextSlot(a, w) = [a EXCEPT !.slot = a.slot + 1, !.page = 0]
      BY <2>2 DEF NextSlot
    <3>2. b = [step |-> a.step, slot |-> a.slot + 1, page |-> 0,
               prefetched |-> a.prefetched, loaded |-> a.loaded]
      BY <1>5, <2>2, <3>1 DEF NextOfStream
    <3> HIDE DEF b
    <3> QED
      BY <1>4, <1>5, <2>2, <3>2 DEF AheadRecord
  <2>3. CASE ~(a.page < Pages[TaskAt(a, w).stage]) /\ ~(a.slot < Len(Q))
    <3>1. NextSlot(a, w) = [a EXCEPT !.step = a.step + 1, !.slot = 1, !.page = 0]
      BY <2>3 DEF NextSlot
    <3>2. b = [step |-> a.step + 1, slot |-> 1, page |-> 0,
               prefetched |-> a.prefetched, loaded |-> a.loaded]
      BY <1>5, <2>3, <3>1 DEF NextOfStream
    <3> HIDE DEF b
    <3> QED
      BY <1>4, <1>5, <3>2 DEF AheadRecord
  <2> QED
    BY <2>1, <2>2, <2>3
<1>7. GateHad(b, w)
  <2> SUFFICES ASSUME b.page > 0, Opaque[TaskAt(b, w).stage] # NoStage,
                      NEW p \in TasksOf(Opaque[TaskAt(b, w).stage])
               PROVE  output[p] >= b.step
    BY DEF GateHad
  <2>1. b.slot = a.slot /\ b.step = a.step /\ TaskAt(b, w) = TaskAt(a, w)
    BY <1>6 DEF TaskAt
  <2> DEFINE g == Opaque[TaskAt(a, w).stage]
  <2>2. g # NoStage /\ p \in TasksOf(g) /\ Aggregate(g) \in LoopRow /\ g \in Stage
    BY <1>4, <2>1, GateRow
  <2>3. Reached(Aggregate(g), a.step + 1)
    BY <1>2, <2>2 DEF Prefetch, MorePages, Probe, GateReady
  <2>4. p \in LoopMembers(Aggregate(g)) /\ p \in Task
    BY <2>2, AggregateRow DEF TasksOf
  <2>5. a.step + 1 \in Nat /\ a.step \in Nat
    BY <1>5
  <2>6. output[p] + 1 >= a.step + 1
    BY <2>2, <2>3, <2>4, <2>5, ReachedMeansWritten
  <2>7. output[p] \in Int
    BY <2>4 DEF LoopInv, LoopType, Unwritten
  <2> QED
    BY <2>1, <2>5, <2>6, <2>7
<1>8. ahead' = [ahead EXCEPT ![w] = b] /\ load' = [load EXCEPT ![w] = r]
  <2>1. ahead' = [ahead EXCEPT ![w] = b]
    BY <1>2 DEF Prefetch
  <2>2. load' = load /\ load = [load EXCEPT ![w] = load[w]]
    BY LoaderRecords DEF Prefetch
  <2> QED
    BY <1>1, <1>2, <2>1, <2>2
<1> HIDE DEF b
<1> QED
  BY <1>3, <1>6, <1>7, <1>8, LoaderMoved DEF Prefetch

LEMMA EndLookaheadStep ==
    ASSUME LoopInv, NEW w \in PagedWorker, EndLookahead(w)
    PROVE  LoopInv'
<1>1. PICK r \in LoadRecord : r = load[w]
  BY LoaderRecords
<1>2. PICK a \in AheadRecord : a = ahead[w]
  BY LoaderRecords
<1>3. /\ Placed(r, w) /\ HistoryHad(r, w) /\ GateHad(a, w)
      /\ Schedule[w] # <<>> => a.slot \in DOMAIN Schedule[w]
      /\ r.pc \in {"ahead", "peek"}
  BY <1>1, <1>2, LoaderRecords DEF EndLookahead, InLookahead
<1>4. PICK k \in {0, 1} : k = (IF r.pc = "peek" /\ Ahead > 0 THEN 1 ELSE 0)
  OBVIOUS
<1>5. PICK pt \in {"fill", "lag"} : pt = (IF r.pc = "peek" THEN "fill" ELSE "lag")
  OBVIOUS
<1>6. PICK q \in LoadRecord : q = [r EXCEPT !.pc = pt]
  BY DEF LoadRecord, LoadPc
<1>7. PICK b \in AheadRecord : b = [a EXCEPT !.loaded = a.loaded + k]
  <2>1. a.loaded + k \in Nat
    BY DEF AheadRecord
  <2>2. [a EXCEPT !.loaded = a.loaded + k] \in AheadRecord
    BY <2>1 DEF AheadRecord
  <2> QED
    BY <2>2
<1>8. load' = [load EXCEPT ![w] = q] /\ ahead' = [ahead EXCEPT ![w] = b]
  BY <1>1, <1>2, <1>4, <1>5, <1>6, <1>7 DEF EndLookahead, LoopInv, LoopType
<1>9. /\ q.pc = pt /\ q.slot = r.slot /\ q.step = r.step
      /\ b.slot = a.slot /\ b.step = a.step /\ b.page = a.page
  BY <1>6, <1>7 DEF LoadRecord, AheadRecord
<1>10. Placed(q, w) /\ HistoryHad(q, w)
  <2>1. Placed(q, w)
    BY <1>3, <1>9 DEF Placed
  <2>2. TaskAt(q, w) = TaskAt(r, w)
    BY <1>9 DEF TaskAt
  <2>3. q.pc \in {"peek", "fill"} => r.pc = "peek"
    BY <1>3, <1>5, <1>9
  <2>4. HistoryHad(q, w)
    BY <1>3, <1>9, <2>2, <2>3 DEF HistoryHad
  <2> QED
    BY <2>1, <2>4
<1>11. GateHad(b, w) /\ (Schedule[w] # <<>> => b.slot \in DOMAIN Schedule[w])
  BY <1>3, <1>9 DEF GateHad, TaskAt
<1> QED
  BY <1>8, <1>10, <1>11, LoaderMoved DEF EndLookahead

LEMMA WaitHistoryStep ==
    ASSUME LoopInv, NEW w \in PagedWorker, WaitHistory(w)
    PROVE  LoopInv'
<1>1. PICK r \in LoadRecord : r = load[w]
  BY LoaderRecords
<1>2. PICK a \in AheadRecord : a = ahead[w]
  BY LoaderRecords
<1>3. /\ Placed(r, w) /\ GateHad(a, w) /\ r.pc = "lag"
      /\ Schedule[w] # <<>> => a.slot \in DOMAIN Schedule[w]
  BY <1>1, <1>2, LoaderRecords DEF WaitHistory
<1>4. TaskAt(r, w).stage \in Stage
  BY <1>3, LoaderHand
<1>5. ahead' = [ahead EXCEPT ![w] = a]
  BY <1>2, LoaderRecords DEF WaitHistory
<1>6. CASE NextPage(w)
  <2>1. PICK q \in LoadRecord : q = [r EXCEPT !.pc = "peek"]
    BY DEF LoadRecord, LoadPc
  <2>2. load' = [load EXCEPT ![w] = q]
    BY <1>1, <1>6, <2>1 DEF WaitHistory, LoopInv, LoopType
  <2>3. q.pc = "peek" /\ q.slot = r.slot /\ q.step = r.step /\ r.step \in Nat
    BY <2>1 DEF LoadRecord
  <2>4. Placed(q, w)
    BY <1>3, <2>3 DEF Placed
  <2>5. HistoryHad(q, w)
    <3>1. TaskAt(q, w) = TaskAt(r, w)
      BY <2>3 DEF TaskAt
    <3> SUFFICES ASSUME TaskAt(r, w).stage # Embedding, NEW l \in Lags(TaskAt(r, w).stage),
                        NEW p \in TasksOf(l.producer)
                 PROVE  output[p] + 1 >= r.step
      BY <2>3, <3>1 DEF HistoryHad
    <3>2. l.producer \in Stage /\ Aggregate(l.producer) \in LoopRow
      BY <1>4, LagRow
    <3>3. Reached(Aggregate(l.producer), r.step)
      BY <1>1 DEF WaitHistory, HistoryReady
    <3>4. p \in LoopMembers(Aggregate(l.producer))
      BY <3>2, AggregateRow
    <3> QED
      BY <2>3, <3>2, <3>3, <3>4, ReachedMeansWritten
  <2> QED
    BY <1>3, <1>5, <2>2, <2>4, <2>5, LoaderMoved DEF WaitHistory
<1>7. CASE ~NextPage(w)
  <2> DEFINE q == [NextSlot(r, w) EXCEPT !.pc = IF NextSlot(r, w).step < Steps THEN "gate" ELSE "done"]
  <2>1. load' = [load EXCEPT ![w] = q]
    BY <1>1, <1>7 DEF WaitHistory, GoOn
  <2>2. q \in LoadRecord /\ Placed(q, w) /\ HistoryHad(q, w)
    BY <1>3, LoaderGoesOn
  <2> HIDE DEF q
  <2> QED
    BY <1>3, <1>5, <2>1, <2>2, LoaderMoved DEF WaitHistory
<1> QED
  BY <1>6, <1>7

LEMMA FillStep ==
    ASSUME LoopInv, NEW w \in PagedWorker, Fill(w)
    PROVE  LoopInv'
<1>1. PICK r \in LoadRecord : r = load[w]
  BY LoaderRecords
<1>2. PICK a \in AheadRecord : a = ahead[w]
  BY LoaderRecords
<1>3. /\ Placed(r, w) /\ GateHad(a, w) /\ HistoryHad(r, w) /\ r.pc = "fill"
      /\ Schedule[w] # <<>> => a.slot \in DOMAIN Schedule[w]
  BY <1>1, <1>2, LoaderRecords DEF Fill
<1>4. ahead' = [ahead EXCEPT ![w] = a]
  BY <1>2, LoaderRecords DEF Fill
<1>5. CASE r.page + 1 < Pages[TaskAt(r, w).stage]
  <2>1. PICK q \in LoadRecord : q = [step |-> r.step, slot |-> r.slot, page |-> r.page + 1, pc |-> "peek"]
    <3>1. r.step \in Nat /\ r.slot \in Nat /\ r.page + 1 \in Nat
      BY DEF LoadRecord
    <3>2. [step |-> r.step, slot |-> r.slot, page |-> r.page + 1, pc |-> "peek"] \in LoadRecord
      BY <3>1, LoadRecordOf DEF LoadPc
    <3> QED
      BY <3>2
  <2>2. [[r EXCEPT !.page = r.page + 1] EXCEPT !.pc = "peek"] = q
    <3>1. r = [step |-> r.step, slot |-> r.slot, page |-> r.page, pc |-> r.pc]
      BY DEF LoadRecord
    <3>2. [r EXCEPT !.page = r.page + 1] = [step |-> r.step, slot |-> r.slot, page |-> r.page + 1, pc |-> r.pc]
      BY <3>1
    <3>3. [[step |-> r.step, slot |-> r.slot, page |-> r.page + 1, pc |-> r.pc] EXCEPT !.pc = "peek"]
            = [step |-> r.step, slot |-> r.slot, page |-> r.page + 1, pc |-> "peek"]
      OBVIOUS
    <3> QED
      BY <2>1, <3>2, <3>3, Zenon
  <2>3. load' = [[load EXCEPT ![w].page = @ + 1] EXCEPT ![w].pc = "peek"]
    BY <1>1, <1>5 DEF Fill
  <2>4. load' = [load EXCEPT ![w] = [[r EXCEPT !.page = r.page + 1] EXCEPT !.pc = "peek"]]
    BY <1>1, <2>3 DEF LoopInv, LoopType
  <2>5. load' = [load EXCEPT ![w] = q]
    BY <2>2, <2>4
  <2>6. q.pc = "peek" /\ q.slot = r.slot /\ q.step = r.step
    BY <2>1
  <2>7. Placed(q, w) /\ HistoryHad(q, w)
    BY <1>3, <2>6 DEF Placed, HistoryHad, TaskAt
  <2> QED
    BY <1>3, <1>4, <2>5, <2>7, LoaderMoved DEF Fill
<1>6. CASE ~(r.page + 1 < Pages[TaskAt(r, w).stage])
  <2> DEFINE q == [NextSlot(r, w) EXCEPT !.pc = IF NextSlot(r, w).step < Steps THEN "gate" ELSE "done"]
  <2>1. load' = [load EXCEPT ![w] = q]
    BY <1>1, <1>6 DEF Fill, GoOn
  <2>2. q \in LoadRecord /\ Placed(q, w) /\ HistoryHad(q, w)
    BY <1>3, LoaderGoesOn
  <2> HIDE DEF q
  <2> QED
    BY <1>3, <1>4, <2>1, <2>2, LoaderMoved DEF Fill
<1> QED
  BY <1>5, <1>6

-----------------------------------------------------------------------------
(***************************************************************************)
(* The invariant.                                                          *)
(***************************************************************************)
LEMMA LoopInit == PagedInit => LoopInv
<1> SUFFICES ASSUME PagedInit PROVE LoopInv
  OBVIOUS
<1>1. \A w \in PagedWorker : /\ comp[w].step = 0 /\ comp[w].slot = 1 /\ comp[w].pc \in {"wait", "done"}
                             /\ load[w].step = 0 /\ load[w].slot = 1 /\ load[w].pc \in {"gate", "done"}
                             /\ ahead[w].slot = 1 /\ ahead[w].page = 0
                             /\ Schedule[w] # <<>> => 1 \in DOMAIN Schedule[w]
                             /\ (comp[w].pc = "done" <=> Schedule[w] = <<>>)
                             /\ (load[w].pc = "done" <=> Schedule[w] = <<>>)
  <2> SUFFICES ASSUME NEW w \in PagedWorker
               PROVE  /\ comp[w].step = 0 /\ comp[w].slot = 1 /\ comp[w].pc \in {"wait", "done"}
                      /\ load[w].step = 0 /\ load[w].slot = 1 /\ load[w].pc \in {"gate", "done"}
                      /\ ahead[w].slot = 1 /\ ahead[w].page = 0
                      /\ Schedule[w] # <<>> => 1 \in DOMAIN Schedule[w]
                      /\ (comp[w].pc = "done" <=> Schedule[w] = <<>>)
                      /\ (load[w].pc = "done" <=> Schedule[w] = <<>>)
    OBVIOUS
  <2>1. /\ comp[w] = [step |-> 0, slot |-> 1, page |-> 0, pc |-> Enter(w, "wait")]
        /\ load[w] = [step |-> 0, slot |-> 1, page |-> 0, pc |-> Enter(w, "gate")]
        /\ ahead[w] = [step |-> 0, slot |-> 1, page |-> 0, prefetched |-> 0, loaded |-> 0]
    BY DEF PagedInit
  <2>2. /\ comp[w].step = 0 /\ comp[w].slot = 1 /\ comp[w].pc = Enter(w, "wait")
        /\ load[w].step = 0 /\ load[w].slot = 1 /\ load[w].pc = Enter(w, "gate")
        /\ ahead[w].slot = 1 /\ ahead[w].page = 0
    BY <2>1
  <2>3. /\ Enter(w, "wait") \in {"wait", "done"} /\ Enter(w, "gate") \in {"gate", "done"}
        /\ (Enter(w, "wait") = "done" <=> Schedule[w] = <<>>)
        /\ (Enter(w, "gate") = "done" <=> Schedule[w] = <<>>)
    BY DEF Enter
  <2>4. Schedule[w] # <<>> => 1 \in DOMAIN Schedule[w]
    BY ScheduleAssumption
  <2> QED
    BY <2>2, <2>3, <2>4
<1>2. Steps \in Nat /\ 0 < Steps
  BY PagedAssumption
<1>3. LoopType
  <2>1. comp \in [PagedWorker -> [step : Nat, slot : Nat, page : Nat, pc : AtBody \cup {"wait", "done"}]]
    <3>1. \A w \in PagedWorker : Enter(w, "wait") \in AtBody \cup {"wait", "done"}
      BY DEF Enter
    <3> HIDE DEF AtBody
    <3> QED
      BY <3>1 DEF PagedInit
  <2>2. load \in [PagedWorker -> [step : Nat, slot : Nat, page : Nat,
                            pc : {"gate", "ahead", "lag", "peek", "fill", "done"}]]
    BY DEF PagedInit, Enter
  <2>3. /\ ahead \in [PagedWorker -> [step : Nat, slot : Nat, page : Nat, prefetched : Nat, loaded : Nat]]
        /\ arrived \in [LoopRow -> Nat]
        /\ ticket \in [{Reduced(x) : x \in Queued} -> Nat]
        /\ output \in [Task -> Nat \cup {Unwritten}]
    BY DEF PagedInit
  <2>4. \A w \in PagedWorker : /\ Placed(comp[w], w) /\ Placed(load[w], w)
                               /\ Schedule[w] # <<>> => ahead[w].slot \in DOMAIN Schedule[w]
    BY <1>1, <1>2 DEF Placed
  <2> QED
    BY <2>1, <2>2, <2>3, <2>4 DEF LoopType
<1>4. \A x \in Queued : \A at : at \subseteq AtBody => Rounds(x, at) = 0
  <2> SUFFICES ASSUME NEW x \in Queued, NEW at, at \subseteq AtBody
               PROVE  Rounds(x, at) = 0
    OBVIOUS
  <2>1. OwnerOf(x) \in PagedWorker /\ SlotOf(x) \in Nat \ {0}
    BY PlaceOfTask
  <2>2. comp[OwnerOf(x)].pc \notin at
    BY <1>1, <2>1 DEF AtBody, AtEnd, AtPublish
  <2> QED
    BY <1>1, <2>1, <2>2 DEF Rounds
<1>5. \A y : \A at \in InReducer : ~InHand(y, at)
  BY <1>1 DEF InHand, InReducer
<1>6. \A x \in Task : Begun(x) = 0 /\ Done(x) = 0 /\ Shown(x) = 0 /\ output[x] = -1
  <2> SUFFICES ASSUME NEW x \in Task
               PROVE  Begun(x) = 0 /\ Done(x) = 0 /\ Shown(x) = 0 /\ output[x] = -1
    OBVIOUS
  <2>1. output[x] = -1
    BY DEF PagedInit, Unwritten
  <2>2. CASE Elided(x)
    BY <1>5, <2>1, <2>2, CountsOfElided DEF InReducer
  <2>3. CASE ~Elided(x)
    <3>1. Rounds(x, AtBody) = 0 /\ Rounds(x, {}) = 0 /\ Rounds(x, AtPublish) = 0
      BY <1>4, <2>3, QueuedTasks DEF AtBody, AtEnd
    <3> QED
      BY <2>1, <2>3, <3>1 DEF Begun, Done, Shown
  <2> QED
    BY <2>2, <2>3
<1>7. StepInv
  <2>1. SpanInv(0)
    BY <1>6 DEF SpanInv
  <2>2. ASSUME NEW r \in LoopRow
        PROVE  arrived[r] = 0 * RawEventTriggers(r)
                + Cardinality({x \in LoopMembers(r) : Shown(x) = 0 + 1})
                - Cardinality({x \in LoopMembers(r) : Shown(x) = 0 - 1})
    <3>1. /\ {x \in LoopMembers(r) : Shown(x) = 0 + 1} = {}
          /\ {x \in LoopMembers(r) : Shown(x) = 0 - 1} = {}
      BY <1>6 DEF LoopMembers
    <3>2. arrived[r] = 0 /\ RawEventTriggers(r) \in Nat /\ Cardinality({}) = 0
      BY LoopRowMembers, FS_EmptySet DEF PagedInit
    <3>3. PICK t \in Nat : t = RawEventTriggers(r)
      BY <3>2
    <3>4. 0 * t = 0
      BY <3>3
    <3> DEFINE A == {x \in LoopMembers(r) : Shown(x) = 0 + 1}
               Z == {x \in LoopMembers(r) : Shown(x) = 0 - 1}
    <3>5. Cardinality(A) = 0 /\ Cardinality(Z) = 0
      BY <3>1, <3>2
    <3> HIDE DEF A, Z
    <3>6. arrived[r] = 0 * RawEventTriggers(r) + Cardinality(A) - Cardinality(Z)
      BY <3>2, <3>3, <3>4, <3>5
    <3> QED
      BY <3>6 DEF A, Z
  <2>3. RowCountInv(0)
    BY <2>2 DEF RowCountInv
  <2> QED
    BY <2>1, <2>3 DEF StepInv
<1>8. OrderInv
  BY <1>6, QueuedInTask DEF OrderInv, Predecessors, LoopMembers
<1>9. OutputInv
  <2>1. \A x \in Queued : Rounds(x, AtEnd) = 0
    BY <1>4 DEF AtBody
  <2> QED
    BY <1>6, <2>1, QueuedInTask DEF OutputInv
<1>10. HandoffInv
  <2>1. ASSUME NEW x \in Queued, NEW y \in Reduced(x)
        PROVE  ticket[Reduced(x)] = Cardinality({p \in Producers(x) : Done(p) = output[y] + 2})
    <3>1. output[y] + 2 = 1
      BY <1>6 DEF Reduced
    <3>2. {p \in Producers(x) : Done(p) = output[y] + 2} = {}
      BY <1>6, <3>1 DEF Producers, TasksOf
    <3>3. ticket[Reduced(x)] = 0
      BY DEF PagedInit
    <3> QED
      BY <3>2, <3>3, FS_EmptySet
  <2> QED
    BY <1>1, <2>1 DEF HandoffInv, InReducer
<1>11. LoaderInv /\ AheadInv
  BY <1>1 DEF LoaderInv, HistoryHad, AheadInv, GateHad
<1> QED
  BY <1>3, <1>7, <1>8, <1>9, <1>10, <1>11 DEF LoopInv

LEMMA LoopNext == LoopInv /\ [PagedNext]_pagedVars => LoopInv'
<1> SUFFICES ASSUME LoopInv, [PagedNext]_pagedVars PROVE LoopInv'
  OBVIOUS
<1>1. ASSUME NEW w \in PagedWorker, LoaderStep(w)
      PROVE  LoopInv'
  BY <1>1, OpenGateStep, PrefetchStep, EndLookaheadStep, WaitHistoryStep, FillStep DEF LoaderStep
<1>2. ASSUME NEW w \in PagedWorker, ComputeStep(w)
      PROVE  LoopInv'
  BY <1>2, BeginStep, DrainStep, EndBodyStep, TicketStep, ReduceStep, AnnounceStep, StampStep, PublishStep
     DEF ComputeStep
<1>3. CASE UNCHANGED pagedVars
  <2>1. UNCHANGED <<arrived, ticket, output, comp, load, ahead>>
    BY <1>3 DEF pagedVars
  <2>2. StepInv' /\ OrderInv' /\ OutputInv' /\ HandoffInv'
    BY <2>1, LoaderQuiet
  <2>3. LoaderInv' /\ AheadInv'
    BY <2>1 DEF LoopInv, LoaderInv, HistoryHad, AheadInv, GateHad, TaskAt, Lags
  <2>4. LoopType'
    BY <2>1 DEF LoopInv, LoopType, Placed, Reduced, AtBody, AtEnd, AtPublish
  <2> QED
    BY <2>2, <2>3, <2>4 DEF LoopInv
<1> QED
  BY <1>1, <1>2, <1>3 DEF PagedNext

\* All tasks stay within one step of each other, and every row's count says
\* exactly which of its producers have arrived in which step.
THEOREM LoopInductive == PagedSpec => []LoopInv
BY LoopInit, LoopNext, PTL DEF PagedSpec

\* When the loader copies key/value pages for a step, every task of the lag
\* producer has run for the step before (ServingPages.cuh, WaitLoader and the
\* page copies behind it): for every plan, placement and number of steps.
THEOREM HistoryIsWritten == PagedSpec => []HistoryWritten
<1>1. LoopInv => HistoryWritten
  <2> SUFFICES ASSUME LoopInv, NEW w \in PagedWorker, load[w].pc \in {"peek", "fill"},
                      TaskAt(load[w], w).stage # Embedding,
                      NEW l \in Lags(TaskAt(load[w], w).stage), NEW p \in TasksOf(l.producer)
               PROVE  output[p] >= load[w].step - 1
    BY DEF HistoryWritten
  <2>1. output[p] + 1 >= load[w].step
    BY DEF LoopInv, LoaderInv, HistoryHad
  <2>2. output[p] \in Int /\ load[w].step \in Nat
    BY DEF LoopInv, LoopType, TasksOf, Unwritten
  <2> QED
    BY <2>1, <2>2
<1> QED
  BY <1>1, LoopInductive, PTL

\* A page of a gated stage is prefetched only after the stage it is gated by
\* has written for the step the page belongs to (PageStream::Next): the
\* routing that picks the expert weights is never the one of another step.
THEOREM PrefetchesInStep == PagedSpec => []PrefetchesOwnStep
<1>1. LoopInv => PrefetchesOwnStep
  BY DEF LoopInv, AheadInv, GateHad, PrefetchesOwnStep
<1> QED
  BY <1>1, LoopInductive, PTL

-----------------------------------------------------------------------------
(***************************************************************************)
(* The refinement.  A task runs from Begun to the writing of its result.   *)
(***************************************************************************)
Running == UNION {BodyOf(w) : w \in PagedWorker}
RunOf == [x \in Task |-> output[x] + 1]

LEMMA SameLoopGraph ==
    /\ Loop!Stage = Stage
    /\ Loop!Task = Task
    /\ \A s : Loop!TasksOf(s) = TasksOf(s)
    /\ \A x : Loop!Predecessors(x) = Predecessors(x)
<1>1. Loop!Stage = Stage /\ Loop!Task = Task
  BY DEF Loop!Task, Task, Loop!Stage, Stage
<1>2. \A s : Loop!TasksOf(s) = TasksOf(s)
  BY <1>1 DEF Loop!TasksOf, TasksOf
<1>3. ASSUME NEW x
      PROVE  Loop!Predecessors(x) = Predecessors(x)
  BY <1>1 DEF Loop!Predecessors, Predecessors, Loop!Incoming, Incoming,
              Loop!RuntimeDependencyBounds, RuntimeDependencyBounds
<1> QED
  BY <1>1, <1>2, <1>3

LEMMA RunningMembers == \A x : x \in Running <=> \E w \in PagedWorker : x \in BodyOf(w)
BY DEF Running

\* What is running has been begun for a step more than it has written.
LEMMA RunningMeans ==
    ASSUME LoopInv, NEW x \in Task, x \in Running
    PROVE  Begun(x) = output[x] + 2
<1> USE DEF LoopInv
<1>1. PICK w \in PagedWorker : x \in BodyOf(w)
  BY RunningMembers
<1>2. CASE comp[w].pc = "run"
  <2>1. x = Cur(w) /\ comp[w].pc # "done"
    BY <1>1, <1>2 DEF BodyOf
  <2>4. x \in Queued /\ ~Elided(x) /\ comp[w].step \in Nat
    BY <2>1, CurFacts
  <2>5. \A at : Rounds(x, at) = comp[w].step + (IF comp[w].pc \in at THEN 1 ELSE 0)
    BY <2>1, RoundsOfCur
  <2>6. "run" \in AtBody /\ "run" \notin AtEnd
    BY DEF AtBody, AtEnd, AtPublish
  <2>2. Rounds(x, AtBody) = comp[w].step + 1 /\ Rounds(x, AtEnd) = comp[w].step
    BY <1>2, <2>4, <2>5, <2>6
  <2>3. output[x] + 1 = comp[w].step /\ output[x] \in Int
    BY <2>2, <2>4 DEF OutputInv, LoopType, Unwritten
  <2> QED
    BY <2>2, <2>3, <2>4 DEF Begun
<1>3. CASE comp[w].pc = "reduce"
  <2>1. x \in Reduced(Cur(w)) /\ Cur(w) \in Task
    BY <1>1, <1>3, HandTasks DEF BodyOf
  <2>2. Elided(x) /\ InHand(x, "reduce")
    BY <1>3, <2>1, TileFacts DEF InHand
  <2>3. output[x] \in Int
    BY DEF LoopType, Unwritten
  <2> QED
    BY <2>2, <2>3, CountsOfElided
<1>4. CASE comp[w].pc \notin {"run", "reduce"}
  BY <1>1, <1>4 DEF BodyOf
<1> QED
  BY <1>2, <1>3, <1>4

\* Each task that is done for a round, as for one it has not begun, is at rest.
LEMMA AtRest ==
    ASSUME LoopInv, NEW n \in Nat, SpanInv(n), NEW x \in Task
    PROVE  /\ Done(x) >= n + 1 => x \notin Running /\ output[x] + 1 = n + 1
           /\ Begun(x) <= n => x \notin Running /\ output[x] + 1 = n
           /\ output[x] + 1 >= n
<1>1. Ordered
  BY CountsOrdered DEF LoopInv
<1>2. /\ Done(x) \in {n, n + 1} /\ Begun(x) \in {n, n + 1} /\ output[x] \in Int
      /\ Done(x) <= output[x] + 1 /\ output[x] + 1 <= Begun(x)
  BY <1>1 DEF SpanInv, Ordered
<1>3. x \in Running => Begun(x) = output[x] + 2
  BY RunningMeans
<1> QED
  BY <1>2, <1>3

\* A step of one worker: the bodies of the others run on.
LEMMA BodiesMove ==
    ASSUME NEW w \in PagedWorker,
           \A v \in PagedWorker \ {w} : Cur(v)' = Cur(v) /\ comp'[v] = comp[v]
    PROVE  \A x : x \in Running' <=> \/ \E v \in PagedWorker \ {w} : x \in BodyOf(v)
                                     \/ x \in BodyOf(w)'
<1>1. \A x : x \in Running' <=> \E v \in PagedWorker : x \in BodyOf(v)'
  BY DEF Running
<1>2. \A v \in PagedWorker \ {w} : BodyOf(v)' = BodyOf(v)
  BY DEF BodyOf, Reduced
<1> QED
  BY <1>1, <1>2

LEMMA LoopStart ==
    ASSUME NEW s \in Stage, NEW X \in SUBSET TasksOf(s), NEW n \in Nat, n < Steps,
           output' = output,
           \A x \in X : x \notin Running /\ output[x] + 1 = n,
           \A x \in X : \A p \in Predecessors(x) : p \notin Running /\ output[p] + 1 = n + 1,
           \A x \in X : \A y \in Task : x \in Predecessors(y) => y \notin Running /\ output[y] + 1 = n,
           \A y \in Task : output[y] + 1 >= n,
           Running' = Running \cup X
    PROVE  Loop!Next
<1>1. X \subseteq Task /\ \A x : Predecessors(x) \subseteq Task
  BY DEF TasksOf, Predecessors
<1>2. \A p \in Task : RunOf[p] = output[p] + 1
  BY DEF RunOf
<1>3. ASSUME NEW x \in X
      PROVE  Loop!Runnable(x)
  <2>1. x \in Task /\ x \notin Running /\ RunOf[x] = n
    BY <1>1, <1>2
  <2>2. \A p \in Predecessors(x) : p \notin Running /\ RunOf[p] = RunOf[x] + 1
    BY <1>1, <1>2, <2>1
  <2>3. \A y \in Task : x \in Predecessors(y) => y \notin Running /\ RunOf[y] = RunOf[x]
    BY <1>2, <2>1
  <2>4. \A l \in Lag : \A p \in TasksOf(l.producer) \ {x} : RunOf[p] >= RunOf[x]
    BY <1>2, <2>1 DEF TasksOf
  <2>5. /\ \A p \in Loop!Predecessors(x) : Loop!Settled(p, RunOf[x] + 1)
        /\ \A y \in Loop!Task : x \in Loop!Predecessors(y) => Loop!Settled(y, RunOf[x])
    BY <2>2, <2>3, SameLoopGraph DEF Loop!Settled, Running, RunOf
  <2>6. \A l \in Lag : l.consumer = x.stage =>
           \A p \in Loop!TasksOf(l.producer) \ {x} : RunOf[p] >= RunOf[x]
    BY <2>4, SameLoopGraph
  <2> QED
    BY <2>1, <2>5, <2>6 DEF Loop!Runnable, Running, RunOf
<1>4. RunOf' = RunOf
  BY DEF RunOf
<1>5. Loop!Start(X)
  BY <1>3, <1>4 DEF Loop!Start, Running, RunOf
<1>6. s \in Loop!Stage /\ X \in SUBSET Loop!TasksOf(s)
  BY SameLoopGraph
<1> QED
  BY <1>5, <1>6 DEF Loop!Next

LEMMA LoopFinish ==
    ASSUME NEW s \in Stage, NEW X \in SUBSET TasksOf(s), X \subseteq Running,
           \A x \in Task : output[x] \in Int /\ output'[x] = output[x] + (IF x \in X THEN 1 ELSE 0),
           Running' = Running \ X
    PROVE  Loop!Next
<1>1. RunOf' = [x \in Task |-> RunOf[x] + (IF x \in X THEN 1 ELSE 0)]
  BY DEF RunOf
<1>2. Loop!Finish(X)
  BY <1>1, SameLoopGraph DEF Loop!Finish, Running, RunOf
<1>3. s \in Loop!Stage /\ X \in SUBSET Loop!TasksOf(s)
  BY SameLoopGraph
<1> QED
  BY <1>2, <1>3 DEF Loop!Next

LEMMA LoopStutter ==
    ASSUME output' = output, Running' = Running
    PROVE  UNCHANGED Loop!loopVars
BY DEF Loop!loopVars, Running

LEMMA BeginRefines ==
    ASSUME LoopInv, NEW w \in PagedWorker, Begin(w)
    PROVE  Loop!Next
<1> USE DEF LoopInv
<1>1. PICK c \in Queued : c = Cur(w)
  BY CurFacts DEF Begin
<1>2. c \in Task /\ comp[w].pc = "wait" /\ comp[w].pc # "done" /\ comp[w].step < Steps /\ Ordered
      /\ c.stage \in Stage /\ ~Elided(c)
  BY <1>1, CurFacts, CountsOrdered, TaskFields DEF Begin
<1>3. PICK n \in Nat : SpanInv(n) /\ RowCountInv(n) /\ comp[w].step = n
  BY <1>2, RoundAtHand DEF Begin
<1>4. Begun(c) = n /\ Done(c) = n
  <2>1. \A at : Rounds(c, at) = comp[w].step + (IF comp[w].pc \in at THEN 1 ELSE 0)
    BY <1>1, <1>2, RoundsOfCur
  <2>2. "wait" \notin AtBody /\ "wait" \notin AtPublish
    BY DEF AtBody, AtEnd, AtPublish
  <2> QED
    BY <1>2, <1>3, <2>1, <2>2 DEF Begun, Done, Shown
<1>5. c \notin Running /\ output[c] + 1 = n
  BY <1>2, <1>3, <1>4, AtRest
<1>6. ASSUME NEW p \in Predecessors(c)
      PROVE  p \notin Running /\ output[p] + 1 = n + 1
  <2>1. p \in Task
    BY DEF Predecessors
  <2>2. Done(p) >= n + 1
    BY <1>1, <1>2, <1>3, PredecessorsDone DEF Begin
  <2> QED
    BY <1>3, <2>1, <2>2, AtRest
<1>7. ASSUME NEW y \in Task, c \in Predecessors(y)
      PROVE  y \notin Running /\ output[y] + 1 = n
  <2>1. Begun(y) <= n
    BY <1>4, <1>7 DEF OrderInv
  <2> QED
    BY <1>3, <2>1, AtRest
<1>8. PICK page : Move(w, "run", page)
  <2>1. Move(w, "run", comp[w].page)
    BY DEF Begin, LoopType, Move
  <2> QED
    BY <2>1
<1>9. /\ \A v \in PagedWorker \ {w} : Cur(v)' = Cur(v) /\ comp'[v] = comp[v]
      /\ Cur(w)' = c /\ comp'[w].pc = "run"
  BY <1>1, <1>2, <1>8, RoundsMove DEF Move
<1>10. Running' = Running \cup {c}
  <2>1. BodyOf(w)' = {c} /\ BodyOf(w) = {}
    BY <1>2, <1>9 DEF BodyOf
  <2>2. \A x : x \in Running' <=> (\E v \in PagedWorker \ {w} : x \in BodyOf(v)) \/ x = c
    BY <1>9, <2>1, BodiesMove
  <2>3. \A x : x \in Running <=> \E v \in PagedWorker \ {w} : x \in BodyOf(v)
    BY <2>1, RunningMembers
  <2> QED
    BY <2>2, <2>3
<1>11. {c} \in SUBSET TasksOf(c.stage)
  BY <1>2 DEF TasksOf
<1>12. \A y \in Task : output[y] + 1 >= n
  BY <1>3, AtRest
<1>13. output' = output
  BY DEF Begin
<1> DEFINE X == {c}
<1>15. n < Steps /\ c.stage \in Stage
  BY <1>2, <1>3
<1>14. /\ X \in SUBSET TasksOf(c.stage)
       /\ \A x \in X : x \notin Running /\ output[x] + 1 = n
       /\ \A x \in X : \A p \in Predecessors(x) : p \notin Running /\ output[p] + 1 = n + 1
       /\ \A x \in X : \A y \in Task : x \in Predecessors(y) => y \notin Running /\ output[y] + 1 = n
       /\ Running' = Running \cup X
  BY <1>5, <1>6, <1>7, <1>10, <1>11
<1> HIDE DEF X
<1> QED
  BY <1>12, <1>13, <1>14, <1>15, LoopStart

LEMMA TicketRefines ==
    ASSUME LoopInv, LoopInv', NEW w \in PagedWorker, TakeTicket(w)
    PROVE  Loop!Next \/ UNCHANGED Loop!loopVars
<1> USE DEF LoopInv
<1>1. PICK c \in Queued : c = Cur(w)
  BY CurFacts DEF TakeTicket
<1>2. /\ comp[w].pc = "ticket" /\ comp[w].pc # "done" /\ comp[w].step \in Nat /\ comp[w].step < Steps
      /\ c \in Task /\ ~Elided(c) /\ Ordered
  BY <1>1, CurFacts, CountsOrdered DEF TakeTicket
<1>3. HandsOff(c)
  BY <1>1, <1>2 DEF HandoffInv
<1>4. PICK n \in Nat : SpanInv(n) /\ RowCountInv(n)
  BY DEF StepInv
<1> DEFINE Tile == Reduced(c)
           P == Producers(c)
<1>5. comp[w].step = n /\ Done(c) = n
  <2>1. \A at : Rounds(c, at) = comp[w].step + (IF comp[w].pc \in at THEN 1 ELSE 0)
    BY <1>1, <1>2, RoundsOfCur
  <2>2. "ticket" \in AtBody /\ "ticket" \notin AtPublish
    BY DEF AtBody, AtEnd, AtPublish
  <2>3. Begun(c) = comp[w].step + 1 /\ Done(c) = comp[w].step
    BY <1>2, <1>3, <2>1, <2>2 DEF Begun, Done
  <2>4. Begun(c) \in {n, n + 1} /\ Done(c) \in {n, n + 1}
    BY <1>2, <1>4 DEF SpanInv
  <2> QED
    BY <1>2, <2>3, <2>4
<1>6. PICK pt : comp' = [comp EXCEPT ![w] = [@ EXCEPT !.pc = pt]]
  <2>1. comp' = [comp EXCEPT ![w].pc =
                   IF ticket[Tile] >= Cardinality(P) THEN "trap"
                   ELSE IF ticket[Tile] + 1 = Cardinality(P) THEN "reduce" ELSE "publish"]
    BY <1>1 DEF TakeTicket
  <2> QED
    BY <2>1
<1>7. PICK page : Move(w, pt, page)
  <2>1. Move(w, pt, comp[w].page)
    BY <1>6 DEF LoopType, Move
  <2> QED
    BY <2>1
<1>8. /\ \A v \in PagedWorker \ {w} : Cur(v)' = Cur(v) /\ comp'[v] = comp[v]
      /\ Cur(w)' = c /\ comp'[w].pc = pt /\ comp'[w].step = n
  BY <1>1, <1>2, <1>5, <1>7, RoundsMove DEF Move
<1>9. output' = output
  BY DEF TakeTicket
<1>10. pt \in {"trap", "reduce", "publish"}
  <2>1. comp'[w].pc = (IF ticket[Tile] >= Cardinality(P) THEN "trap"
                       ELSE IF ticket[Tile] + 1 = Cardinality(P) THEN "reduce" ELSE "publish")
    BY <1>1 DEF TakeTicket, LoopType
  <2> QED
    BY <1>8, <2>1
<1>11. \A x : x \in Running <=> \E v \in PagedWorker \ {w} : x \in BodyOf(v)
  <2>1. BodyOf(w) = {}
    BY <1>2 DEF BodyOf
  <2> QED
    BY <2>1, RunningMembers
<1>12. CASE pt # "reduce"
  <2>1. BodyOf(w)' = {}
    BY <1>8, <1>10, <1>12 DEF BodyOf
  <2>2. \A x : x \in Running' <=> x \in Running
    BY <1>8, <1>11, <2>1, BodiesMove
  <2>3. Running' = Running
    BY <2>2 DEF Running
  <2> QED
    BY <1>9, <2>3, LoopStutter
<1>13. CASE pt = "reduce"
  <2>1. PICK y0 : y0 \in Tile
    BY <1>2, <1>3, ProducerFacts
  <2>2. \A y \in Tile : /\ y \in Task /\ y.stage = Reducer[c.stage] /\ Elided(y) /\ Predecessors(y) = P
                        /\ ~InHand(y, "reduce") /\ ~InHand(y, "announce") /\ output[y] + 1 = n
    <3>1. \A y \in Tile : y \in Task /\ y.stage = Reducer[c.stage] /\ Elided(y) /\ Predecessors(y) = P
      BY <1>2, TileFacts DEF Reduced
    <3>2. \A y \in Tile : ~InHand(y, "reduce") /\ ~InHand(y, "announce") /\ output[y] + 1 = n
      BY <1>2, <1>4, <1>5, TileIdle
    <3> QED
      BY <3>1, <3>2
  <2>3. \A y \in Tile : Begun(y) = n /\ Done(y) = n
    <3> SUFFICES ASSUME NEW y \in Tile PROVE Begun(y) = n /\ Done(y) = n
      OBVIOUS
    <3>2. /\ y \in Task /\ Elided(y) /\ output[y] + 1 = n
          /\ ~InHand(y, "reduce") /\ ~InHand(y, "announce")
      BY <2>2
    <3>1. output[y] \in Int
      BY <3>2 DEF LoopType, Unwritten
    <3>3. /\ Begun(y) = output[y] + 1 + (IF InHand(y, "reduce") THEN 1 ELSE 0)
          /\ Shown(y) = output[y] + 1 - (IF InHand(y, "announce") THEN 1 ELSE 0)
          /\ Done(y) = Shown(y)
      BY <3>2, CountsOfElided
    <3> QED
      BY <3>1, <3>2, <3>3
  <2>4. \A y \in Tile : y \notin Running
    BY <1>4, <2>2, <2>3, AtRest
  <2>5. \A y \in Tile : \A z \in Task : y \in Predecessors(z) => z \notin Running /\ output[z] + 1 = n
    <3> SUFFICES ASSUME NEW y \in Tile, NEW z \in Task, y \in Predecessors(z)
                 PROVE  z \notin Running /\ output[z] + 1 = n
      OBVIOUS
    <3>1. Begun(z) <= n
      BY <2>3 DEF OrderInv
    <3> QED
      BY <1>4, <3>1, AtRest
  <2>6. \A p \in P : p \in Task /\ p \in Queued
    BY <1>2, <1>3, ProducerFacts
  <2>7. \A p \in P : output[p] + 1 = n + 1 /\ p \notin Running
    <3> SUFFICES ASSUME NEW p \in P
                 PROVE  output[p] + 1 = n + 1 /\ p \notin Running
      OBVIOUS
    <3>1. \A v \in PagedWorker : comp'[v].pc = "reduce" => \A q \in Producers(Cur(v)') : Done(q)' = comp'[v].step + 1
      <4>1. \A v \in PagedWorker : comp'[v].pc = "reduce" => \A q \in Producers(Cur(v))' : Done(q)' = comp'[v].step + 1
        BY DEF HandoffInv
      <4> QED
        BY <4>1 DEF Producers, Reduced
    <3>2. Done(p)' = n + 1
      BY <1>8, <1>13, <3>1
    <3>3. CASE p = c
      <4>1. output[c] + 1 = n + 1
        BY <1>1, <1>2, <1>5, OutputAtHand DEF AtEnd, AtPublish
      <4>2. Begun(c) <= n + 1
        BY <1>2, <1>4 DEF SpanInv
      <4>3. c \notin Running
        BY <1>2, <4>1, <4>2, RunningMeans DEF Ordered
      <4> QED
        BY <3>3, <4>1, <4>3
    <3>4. CASE p # c
      <4>3. \A x \in Queued \ {c} : Done(x)' = Done(x)
        BY <1>1, <1>2, <1>7, CountsOfMove DEF Move
      <4>1. Done(p)' = Done(p)
        BY <2>6, <3>4, <4>3
      <4>2. Done(p) >= n + 1
        BY <3>2, <4>1
      <4> QED
        BY <1>4, <2>6, <4>2, AtRest
    <3> QED
      BY <3>3, <3>4
  <2>8. Running' = Running \cup Tile
    <3>1. BodyOf(w)' = Tile
      BY <1>8, <1>13 DEF BodyOf, Reduced
    <3>2. \A x : x \in Running' <=> x \in Running \/ x \in Tile
      BY <1>8, <1>11, <3>1, BodiesMove
    <3> QED
      BY <3>2
  <2>9. Reducer[c.stage] \in Stage /\ Tile \in SUBSET TasksOf(Reducer[c.stage])
    BY <2>1, <2>2, TaskFields DEF TasksOf
  <2>10. \A y \in Task : output[y] + 1 >= n
    BY <1>4, AtRest
  <2> DEFINE X == Tile
  <2>11. /\ X \in SUBSET TasksOf(Reducer[c.stage])
         /\ \A x \in X : x \notin Running /\ output[x] + 1 = n
         /\ \A x \in X : \A p \in Predecessors(x) : p \notin Running /\ output[p] + 1 = n + 1
         /\ \A x \in X : \A y \in Task : x \in Predecessors(y) => y \notin Running /\ output[y] + 1 = n
         /\ Running' = Running \cup X
    BY <2>2, <2>4, <2>5, <2>7, <2>8, <2>9
  <2>12. n < Steps /\ Reducer[c.stage] \in Stage
    BY <1>2, <1>5, <2>9
  <2> HIDE DEF X
  <2>13. Loop!Next
    BY <1>9, <2>10, <2>11, <2>12, LoopStart
  <2> QED
    BY <2>13
<1> QED
  BY <1>12, <1>13

LEMMA EndBodyRefines ==
    ASSUME LoopInv, NEW w \in PagedWorker, EndBody(w)
    PROVE  Loop!Next
<1> USE DEF LoopInv
<1>1. PICK c \in Queued : c = Cur(w)
  BY CurFacts DEF EndBody
<1>2. comp[w].pc = "run" /\ comp[w].pc # "done" /\ comp[w].step \in Nat /\ c \in Task /\ ~Elided(c)
      /\ c.stage \in Stage
  BY <1>1, CurFacts, TaskFields DEF EndBody
<1>3. output' = [output EXCEPT ![c] = comp[w].step] /\ output[c] + 1 = comp[w].step
  <2>1. output[c] + 1 = comp[w].step + (IF comp[w].pc \in AtEnd THEN 1 ELSE 0)
    BY <1>1, <1>2, OutputAtHand
  <2> QED
    BY <1>1, <1>2, <2>1 DEF EndBody, AtEnd, AtPublish
<1>4. PICK pt \in {"publish", "ticket"} : comp' = [comp EXCEPT ![w].pc = pt]
  BY <1>1 DEF EndBody
<1>5. PICK page : Move(w, pt, page)
  <2>1. Move(w, pt, comp[w].page)
    BY <1>4 DEF LoopType, Move
  <2> QED
    BY <2>1
<1>6. /\ \A v \in PagedWorker \ {w} : Cur(v)' = Cur(v) /\ comp'[v] = comp[v]
      /\ comp'[w].pc = pt
  BY <1>1, <1>2, <1>5, RoundsMove DEF Move
<1>7. \A v \in PagedWorker \ {w} : c \notin BodyOf(v)
  <2> SUFFICES ASSUME NEW v \in PagedWorker \ {w}, c \in BodyOf(v) PROVE FALSE
    OBVIOUS
  <2>1. CASE comp[v].pc = "run"
    <3>1. Cur(v) = c /\ OwnerOf(Cur(v)) = v
      BY <2>1, CurFacts DEF BodyOf
    <3>2. OwnerOf(c) = w
      BY <1>1, <1>2, CurFacts
    <3> QED
      BY <3>1, <3>2
  <2>2. CASE comp[v].pc = "reduce"
    <3>1. c \in Reduced(Cur(v)) /\ Cur(v) \in Task
      BY <2>2, HandTasks DEF BodyOf
    <3> QED
      BY <1>2, <3>1, TileFacts
  <2>3. CASE comp[v].pc \notin {"run", "reduce"}
    BY <2>3 DEF BodyOf
  <2> QED
    BY <2>1, <2>2, <2>3
<1>8. Running' = Running \ {c} /\ {c} \subseteq Running
  <2>1. BodyOf(w) = {c} /\ BodyOf(w)' = {}
    BY <1>1, <1>2, <1>6 DEF BodyOf
  <2>2. \A x : x \in Running' <=> \E v \in PagedWorker \ {w} : x \in BodyOf(v)
    BY <1>6, <2>1, BodiesMove
  <2>3. \A x : x \in Running <=> (\E v \in PagedWorker \ {w} : x \in BodyOf(v)) \/ x = c
    BY <2>1, RunningMembers
  <2> QED
    BY <1>7, <2>2, <2>3
<1>9. \A x \in Task : output[x] \in Int /\ output'[x] = output[x] + (IF x \in {c} THEN 1 ELSE 0)
  BY <1>2, <1>3 DEF LoopType, Unwritten
<1>10. {c} \in SUBSET TasksOf(c.stage)
  BY <1>2 DEF TasksOf
<1> QED
  BY <1>2, <1>8, <1>9, <1>10, LoopFinish

LEMMA ReduceRefines ==
    ASSUME LoopInv, NEW w \in PagedWorker, Reduce(w)
    PROVE  Loop!Next
<1> USE DEF LoopInv
<1>1. PICK c \in Queued : c = Cur(w)
  BY CurFacts DEF Reduce
<1>2. /\ comp[w].pc = "reduce" /\ comp[w].pc # "done" /\ comp[w].step \in Nat /\ c \in Task
  BY <1>1, CurFacts DEF Reduce
<1>3. HandsOff(c)
  BY <1>1, <1>2 DEF HandoffInv
<1> DEFINE Tile == Reduced(c)
<1>4. \A y \in Tile : y \in Task /\ Elided(y) /\ y.stage = Reducer[c.stage] /\ output[y] + 1 = comp[w].step
  BY <1>1, <1>2, TileFacts DEF HandoffInv, Reduced
<1>5. output' = [x \in Task |-> IF x \in Tile THEN comp[w].step ELSE output[x]]
  BY <1>1 DEF Reduce
<1>6. PICK page : Move(w, "announce", page)
  <2>1. Move(w, "announce", comp[w].page)
    BY DEF Reduce, LoopType, Move
  <2> QED
    BY <2>1
<1>7. /\ \A v \in PagedWorker \ {w} : Cur(v)' = Cur(v) /\ comp'[v] = comp[v]
      /\ comp'[w].pc = "announce"
  BY <1>1, <1>2, <1>6, RoundsMove DEF Move
<1>8. \A v \in PagedWorker \ {w} : \A y \in Tile : y \notin BodyOf(v)
  <2> SUFFICES ASSUME NEW v \in PagedWorker \ {w}, NEW y \in Tile, y \in BodyOf(v) PROVE FALSE
    OBVIOUS
  <2>1. CASE comp[v].pc = "run"
    <3>1. Cur(v) = y /\ ~Elided(y)
      BY <2>1, CurFacts DEF BodyOf
    <3> QED
      BY <1>4, <3>1
  <2>2. CASE comp[v].pc = "reduce"
    <3>1. y \in Reduced(Cur(v)) /\ Cur(v) \in Task
      BY <2>2, HandTasks DEF BodyOf
    <3>2. Reduced(Cur(v)) = Reduced(Cur(w))
      BY <1>1, <1>2, <3>1, TilesApart
    <3>3. comp[v].pc \in InReducer /\ comp[w].pc \in InReducer
      BY <1>2, <2>2 DEF InReducer
    <3> QED
      BY <3>2, <3>3 DEF HandoffInv
  <2>3. CASE comp[v].pc \notin {"run", "reduce"}
    BY <2>3 DEF BodyOf
  <2> QED
    BY <2>1, <2>2, <2>3
<1>9. Running' = Running \ Tile /\ Tile \subseteq Running
  <2>1. BodyOf(w) = Tile /\ BodyOf(w)' = {}
    BY <1>1, <1>2, <1>7 DEF BodyOf
  <2>2. \A x : x \in Running' <=> \E v \in PagedWorker \ {w} : x \in BodyOf(v)
    BY <1>7, <2>1, BodiesMove
  <2>3. \A x : x \in Running <=> (\E v \in PagedWorker \ {w} : x \in BodyOf(v)) \/ x \in Tile
    BY <2>1, RunningMembers
  <2> QED
    BY <1>8, <2>2, <2>3
<1>10. \A x \in Task : output[x] \in Int /\ output'[x] = output[x] + (IF x \in Tile THEN 1 ELSE 0)
  BY <1>4, <1>5 DEF LoopType, Unwritten
<1>11. Reducer[c.stage] \in Stage /\ Tile \in SUBSET TasksOf(Reducer[c.stage])
  <2>1. PICK y : y \in Tile
    BY <1>2, <1>3, ProducerFacts
  <2> QED
    BY <1>4, <2>1, TaskFields DEF TasksOf
<1> QED
  BY <1>9, <1>10, <1>11, LoopFinish

\* A step between two program counters outside the bodies.
LEMMA QuietRefines ==
    ASSUME LoopInv, NEW w \in PagedWorker, output' = output, BodyOf(w)' = BodyOf(w),
           \A v \in PagedWorker \ {w} : Cur(v)' = Cur(v) /\ comp'[v] = comp[v]
    PROVE  UNCHANGED Loop!loopVars
<1>1. \A x : x \in Running' <=> x \in Running
  BY BodiesMove, RunningMembers
<1>2. Running' = Running
  BY <1>1 DEF Running
<1> QED
  BY <1>2, LoopStutter

LEMMA OtherRefines ==
    ASSUME LoopInv, NEW w \in PagedWorker, Drain(w) \/ Announce(w) \/ Stamp(w) \/ Publish(w)
    PROVE  UNCHANGED Loop!loopVars
<1> USE DEF LoopInv
<1>1. PICK c \in Queued : c = Cur(w)
  BY CurFacts DEF Drain, Announce, Stamp, Publish
<1>2. comp[w].pc # "done" /\ output' = output
  BY DEF Drain, Announce, Stamp, Publish
<1>3. CASE Drain(w)
  <2>1. /\ comp'[w].pc = "run" /\ comp[w].pc = "run" /\ comp'[w].slot = comp[w].slot
        /\ \A v \in PagedWorker \ {w} : comp'[v] = comp[v]
    BY <1>3 DEF Drain, LoopType
  <2>2. \A v \in PagedWorker : Cur(v)' = Cur(v)
    BY <2>1 DEF Cur, TaskAt
  <2>3. BodyOf(w)' = BodyOf(w)
    BY <2>1, <2>2 DEF BodyOf, Reduced
  <2> QED
    BY <1>2, <2>1, <2>2, <2>3, QuietRefines
<1>4. CASE Announce(w) \/ Stamp(w)
  <2>1. /\ comp'[w].pc \in {"stamp", "publish"} /\ comp[w].pc \in {"announce", "stamp"}
        /\ \A v \in PagedWorker \ {w} : comp'[v] = comp[v]
    BY <1>4 DEF Announce, Stamp, LoopType
  <2>2. \A v \in PagedWorker \ {w} : Cur(v)' = Cur(v)
    BY <2>1 DEF Cur, TaskAt
  <2>3. BodyOf(w)' = {} /\ BodyOf(w) = {}
    BY <2>1 DEF BodyOf
  <2> QED
    BY <1>2, <2>1, <2>2, <2>3, QuietRefines
<1>5. CASE Publish(w)
  <2>1. /\ \A v \in PagedWorker \ {w} : Cur(v)' = Cur(v) /\ comp'[v] = comp[v]
        /\ comp'[w].pc \in {"wait", "done"}
    BY <1>1, <1>2, <1>5, RoundsGoOn DEF Publish
  <2>2. BodyOf(w)' = {} /\ BodyOf(w) = {}
    BY <1>5, <2>1 DEF Publish, BodyOf
  <2> QED
    BY <1>2, <2>1, <2>2, QuietRefines
<1> QED
  BY <1>3, <1>4, <1>5

LEMMA LoopSimulation ==
    LoopInv /\ LoopInv' /\ [PagedNext]_pagedVars => [Loop!Next]_Loop!loopVars
<1> SUFFICES ASSUME LoopInv, LoopInv', [PagedNext]_pagedVars
             PROVE  Loop!Next \/ UNCHANGED Loop!loopVars
  OBVIOUS
<1>1. CASE UNCHANGED <<comp, output>>
  <2>1. Running' = Running
    BY <1>1 DEF Running, BodyOf, Cur, TaskAt, Reduced
  <2> QED
    BY <1>1, <2>1, LoopStutter
<1>2. ASSUME NEW w \in PagedWorker, LoaderStep(w)
      PROVE  UNCHANGED <<comp, output>>
  BY <1>2 DEF LoaderStep, OpenGate, Prefetch, EndLookahead, WaitHistory, Fill
<1>3. ASSUME NEW w \in PagedWorker, ComputeStep(w)
      PROVE  Loop!Next \/ UNCHANGED Loop!loopVars
  BY <1>3, BeginRefines, TicketRefines, EndBodyRefines, ReduceRefines, OtherRefines DEF ComputeStep
<1> QED
  BY <1>1, <1>2, <1>3 DEF PagedNext, pagedVars

LEMMA LoopStarts == PagedInit => Loop!Init
<1> SUFFICES ASSUME PagedInit PROVE Loop!Init
  OBVIOUS
<1>1. ASSUME NEW w \in PagedWorker
      PROVE  BodyOf(w) = {}
  <2>1. comp[w] = [step |-> 0, slot |-> 1, page |-> 0, pc |-> Enter(w, "wait")]
    BY DEF PagedInit
  <2>2. Enter(w, "wait") \in {"wait", "done"}
    BY DEF Enter
  <2>3. comp[w].pc \in {"wait", "done"}
    BY <2>1, <2>2
  <2> QED
    BY <2>3 DEF BodyOf
<1>2. Running = {}
  BY <1>1 DEF Running
<1>3. RunOf = [x \in Task |-> 0]
  BY DEF RunOf, PagedInit, Unwritten
<1> QED
  BY <1>2, <1>3, SameLoopGraph DEF Loop!Init, Running, RunOf

\* The loop implements the abstract decode loop (ServingPages.cuh,
\* tilemega_loop_kernel): with no barrier between steps, a task runs on the
\* results of its own step, over results whose readers are through with them,
\* and an embedding on the tokens of the step before.
THEOREM LoopRefinement == PagedSpec => ImplementsDecodeLoop
<1>1. PagedSpec => []LoopInv
  BY LoopInductive
<1> QED
  BY <1>1, LoopStarts, LoopSimulation, PTL DEF PagedSpec, ImplementsDecodeLoop, Loop!Spec
=============================================================================
