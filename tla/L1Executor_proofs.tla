-------------------------- MODULE L1Executor_proofs --------------------------
(***************************************************************************)
(* The grid barrier keeps the stages of a launch apart, the tickets of the *)
(* in-place reductions stay inside their epoch, and the kernel implements  *)
(* the task graph: for any number of CTAs, in every build, for any stage   *)
(* table and any number of launches, decode steps and resets.              *)
(***************************************************************************)
EXTENDS L1Executor, RuntimeGraph_proofs

\* Program points at the barrier, after the last ordinal of the stage.
Gone == {"gathered", "publish", "wait", "scatter"}

TypeOK ==
    /\ build \in Builds
    /\ status \in {"idle", "launched"}
    /\ iteration \in Nat
    /\ steps \in Nat
    /\ pc \in [Worker -> {"task", "run", "handoff", "reduce", "done"} \cup Gone]
    /\ at \in [Worker -> [step : Nat, stage : Stage, ordinal : Nat]]
    /\ cur \in [Worker -> Task \cup {NoTask}]
    /\ arrivals \in [Stage -> Nat]
    /\ epoch \in [Stage -> Nat]
    /\ ticket \in [Output -> Nat]
    /\ ended \in [Task -> Nat]

\* The grid meets at the counters: a lone cluster has no need to.
Meeting == ~Clustered \/ Clusters > 1

\* Where the loops of CTA w can stand, and what it holds there.
Standing(w) ==
    /\ ~Elided(at[w].stage)
    /\ at[w].ordinal % Grid = FirstOrdinal(at[w].stage, w)
    /\ at[w].step <= steps
    /\ pc[w] = "done" <=> at[w].step = steps
    /\ pc[w] = "done" => at[w].stage = 0 /\ at[w].ordinal = FirstOrdinal(0, w)
    /\ status = "idle" => pc[w] = "done"
    /\ Busy(w) => /\ at[w].ordinal < ServingL1TaskLimit(at[w].stage)
                  /\ Addressed(w) \in Task
    /\ pc[w] \in {"run", "handoff"} => cur[w] = Addressed(w)
    /\ pc[w] \in {"handoff", "reduce"} => HandoffReduce[at[w].stage] # NoStage
    /\ pc[w] = "reduce" => cur[w] = HandoffOutput(Addressed(w))
    /\ pc[w] \in Gone => Meeting /\ at[w].ordinal >= ServingL1TaskLimit(at[w].stage)
    /\ pc[w] \in {"gathered", "scatter"} => Clustered
    /\ pc[w] = "publish" => ~RedBarrier

\* The CTAs that arrive at the counters: all, or the first of each cluster.
Party == {w \in Worker : Clustered => Rank(w) = 0}

\* The CTAs of a cluster move from stage to stage as one.
InCluster(v, w) ==
    Clustered /\ v \div ClusterDim = w \div ClusterDim =>
        /\ at[v].step = at[w].step
        /\ at[v].stage = at[w].stage
        /\ v \notin Party => pc[v] \notin {"gathered", "publish", "wait"}
        /\ v \notin Party /\ w \in Party => (pc[v] = "scatter" <=> pc[w] \in Gone)

\* How often w has got past barrier s in this launch, released or not yet
\* told the rest of its cluster; how often it has arrived at its counter; how
\* often it has walked stage s.
Past(w, s, here) ==
    at[w].step + (IF at[w].stage > s \/ (at[w].stage = s /\ pc[w] \in here) THEN 1 ELSE 0)

Freed(w, s) == Past(w, s, {"scatter"})
Arrived(w, s) == Past(w, s, {"publish", "wait", "scatter"})
Walked(w, s) == Past(w, s, Gone)
Left(w, s) == Past(w, s, {})

ArrivedAt(s) == [w \in Party |-> Arrived(w, s)]

BarrierInv(s) ==
    /\ \A v, w \in Party : Freed(w, s) <= Arrived(v, s)
    /\ status = "launched" =>
          /\ Meeting => Tally(Party, ArrivedAt(s), arrivals[s], Parties, iteration)
          /\ \A k \in Nat : epoch[s] >= iteration + k + 1 =>
                \A v \in Party : Arrived(v, s) >= k + 1
    /\ status = "idle" =>
          /\ Meeting => arrivals[s] = Parties * iteration
          /\ epoch[s] <= iteration
    /\ \A w \in Worker : pc[w] = "publish" /\ at[w].stage = s =>
          \A v \in Party : Arrived(v, s) >= at[w].step + 1

-----------------------------------------------------------------------------
\* The ordinal that names task x, and the CTA that walks over it.
OrdinalOf(x) ==
    CHOOSE o \in 0 .. (ServingL1TaskLimit(x.stage) - 1) :
        ServingL1Task(x.stage, o) = x.logical

OwnerOf(x) ==
    CHOOSE w \in Worker : FirstOrdinal(x.stage, w) = OrdinalOf(x) % Grid

\* How often the owner of x has got past it, in the loops or at `here`.
PastTask(x, here) ==
    LET w == OwnerOf(x)
    IN  at[w].step +
           (IF \/ at[w].stage > x.stage
               \/ at[w].stage = x.stage /\ at[w].ordinal > OrdinalOf(x)
               \/ at[w].stage = x.stage /\ at[w].ordinal = OrdinalOf(x) /\ pc[w] \in here
            THEN 1 ELSE 0)

Ran(x) == PastTask(x, {"handoff", "reduce"})
Drew(x) == PastTask(x, {"reduce"})

EndedInv == \A x \in Task : ~Elided(x.stage) => ended[x] = Ran(x)

Parts(y) == {x \in Task : HandoffReduce[x.stage] # NoStage /\ HandoffOutput(x) = y}

Reducing(w, y) == pc[w] = "reduce" /\ cur[w] = y

DrewAt(y) == [x \in Parts(y) |-> Drew(x)]

TicketInv(y) ==
    /\ status = "launched" =>
          \A s \in Stage : HandoffReduce[s] = y.stage =>
              Tally(Parts(y), DrewAt(y), ticket[y], Producers[s], iteration)
    /\ status = "idle" =>
          \A s \in Stage : HandoffReduce[s] = y.stage => ticket[y] = Producers[s] * iteration
    /\ \A k \in Nat :
          (\A x \in Parts(y) : Drew(x) >= k + 1) <=>
              \/ ended[y] >= k + 1
              \/ ended[y] >= k /\ \E w \in Worker : Reducing(w, y)
    /\ \A w \in Worker : Reducing(w, y) => ended[y] = at[w].step
    /\ \A v, w \in Worker : Reducing(v, y) /\ Reducing(w, y) => v = w

IInv ==
    /\ TypeOK
    /\ \A w \in Worker : Standing(w)
    /\ \A v, w \in Worker : InCluster(v, w)
    /\ \A s \in Stage : ~Elided(s) => BarrierInv(s)
    /\ EndedInv
    /\ \A y \in Output : TicketInv(y)

-----------------------------------------------------------------------------
(***************************************************************************)
(* Which CTA runs which task: the grid-stride deal of a stage, straight,   *)
(* prefix-first or spread, names each of its tasks exactly once.           *)
(***************************************************************************)
LEMMA Multiple ==
    ASSUME NEW k \in Nat \ {0}, NEW n \in Nat
    PROVE  n % k = 0 <=> \E j \in Nat : n = j * k
<1>1. ASSUME n % k = 0
      PROVE  \E j \in Nat : n = j * k
  <2>1. n = (n \div k) * k /\ n \div k \in Nat
    BY <1>1, Division
  <2>2. QED
    BY <2>1
<1>2. ASSUME NEW j \in Nat, n = j * k
      PROVE  n % k = 0
  <2>1. (j * k + 0) % k = 0
    BY DivisionUnique
  <2>2. j * k + 0 = j * k
    OBVIOUS
  <2>3. QED
    BY <1>2, <2>1, <2>2
<1>3. QED
  BY <1>1, <1>2

LEMMA ProductBelow ==
    ASSUME NEW a \in Nat, NEW b \in Nat, NEW k \in Nat, a < b
    PROVE  a * k + k <= b * k
<1>1. a + 1 <= b
  OBVIOUS
<1>2. (a + 1) * k <= b * k
  BY <1>1, SMT
<1>3. QED
  BY <1>2, SMT

\* What a number prime to g must be multiplied with to give a multiple of g.
LEMMA CoprimeMultiple ==
    ASSUME NEW n \in Nat \ {0}, NEW g \in Nat \ {0}, Coprime(n, g),
           NEW a \in Nat, (a * n) % g = 0
    PROVE  a % g = 0
<1> DEFINE S == {k \in Nat \ {0} : (k * n) % g = 0}
<1>1. \A k \in Nat : k * n \in Nat
  OBVIOUS
<1>2. g \in S
  <2>1. g * n = n * g
    OBVIOUS
  <2>2. QED
    BY <1>1, <2>1, Multiple
<1>3. PICK d \in S : \A k \in S : d <= k
  <2>1. S \in SUBSET Nat /\ S # {}
    BY <1>2
  <2>2. QED
    BY <2>1, LeastNatural
<1>4. PICK j \in Nat : d * n = j * g
  BY <1>1, <1>3, Multiple
<1>5. ASSUME NEW k \in Nat, (k * n) % g = 0
      PROVE  k % d = 0
  <2> DEFINE q == k \div d
             r == k % d
  <2>1. r \in 0 .. (d - 1) /\ k = q * d + r /\ q \in Nat
    BY <1>3, Division
  <2>2. PICK i \in Nat : k * n = i * g
    BY <1>1, <1>5, Multiple
  <2> HIDE DEF q, r
  <2>3. r * n = (i - q * j) * g
    <3>1. (q * d + r) * n = q * (d * n) + r * n
      BY <1>3, <2>1, SMT
    <3>2. q * (j * g) = (q * j) * g
      BY <2>1, SMT
    <3>3. k * n = (q * d + r) * n
      BY <2>1
    <3>4. i * g = (q * j) * g + r * n
      BY <1>4, <2>2, <3>1, <3>2, <3>3
    <3>5. (i - q * j) * g = i * g - (q * j) * g
      BY <2>1, SMT
    <3>6. QED
      BY <1>3, <2>1, <3>4, <3>5, SMT
  <2>4. r * n \in Nat
    BY <2>1, <1>3
  <2>5. i - q * j \in Nat
    <3>1. q * j \in Nat
      BY <2>1
    <3>2. CASE i - q * j < 0
      <4>1. (i - q * j) * g < 0
        BY <3>1, <3>2, SMT
      <4>2. QED
        BY <2>3, <2>4, <4>1
    <3>3. QED
      BY <3>1, <3>2
  <2>6. (r * n) % g = 0
    BY <2>3, <2>4, <2>5, Multiple
  <2>7. r = 0
    BY <1>3, <2>1, <2>6
  <2>8. QED
    BY <2>7 DEF r
<1>6. PICK q \in Nat : g = q * d
  BY <1>2, <1>3, <1>5, Multiple
<1>7. q \in 1 .. g
  BY <1>3, <1>6, SMT
<1>8. n = j * q
  <2>1. d * n = d * (j * q)
    BY <1>3, <1>4, <1>6, SMT
  <2>2. QED
    BY <1>3, <2>1, SMT
<1>9. q = 1
  <2>1. n % q = 0
    BY <1>7, <1>8, Multiple
  <2>2. g = d * q
    BY <1>3, <1>6
  <2>3. g % q = 0
    BY <1>3, <1>7, <2>2, Multiple
  <2>4. q \notin 2 .. g
    BY <2>1, <2>3 DEF Coprime
  <2>5. QED
    BY <1>7, <2>4
<1>10. g = d
  BY <1>3, <1>6, <1>9
<1>11. QED
  BY <1>5, <1>10
\* The stride the search finds is prime to the grid: among Grid numbers in a
\* row one is a multiple of Grid plus one.
LEMMA SpreadStrideUnit ==
    SpreadStride \in Nat \ {0} /\ Coprime(SpreadStride, Grid)
<1> DEFINE from == (Grid * 3) \div 8 + 1
           S == {n \in from .. (from + Grid) : Coprime(n, Grid)}
<1>1. Grid \in Nat \ {0} /\ from \in Nat \ {0}
  <2>1. Grid \in Nat \ {0} /\ Grid * 3 \in Nat
    BY L1Assumption
  <2>2. (Grid * 3) \div 8 \in Nat
    BY <2>1, Division
  <2>3. QED
    BY <2>1, <2>2
<1>2. ASSUME NEW m \in Nat
      PROVE  Coprime(m * Grid + 1, Grid)
  <2>1. SUFFICES ASSUME NEW k \in 2 .. Grid, (m * Grid + 1) % k = 0, Grid % k = 0
                 PROVE  FALSE
    BY DEF Coprime
  <2>2. k \in Nat \ {0} /\ m * Grid \in Nat /\ m * Grid + 1 \in Nat
    BY <1>1
  <2>3. PICK a \in Nat : Grid = a * k
    BY <1>1, <2>1, <2>2, Multiple
  <2>4. PICK b \in Nat : m * Grid + 1 = b * k
    BY <2>1, <2>2, Multiple
  <2>5. m * (a * k) = (m * a) * k
    BY <2>2, <2>3, SMT
  <2>6. 1 = (b - m * a) * k
    <3>1. (b - m * a) * k = b * k - (m * a) * k
      BY <2>2, <2>3, <2>4, SMT
    <3>2. QED
      BY <2>2, <2>3, <2>4, <2>5, <3>1
  <2>7. QED
    <3>1. m * a \in Nat
      BY <2>3
    <3>2. CASE b - m * a <= 0
      <4>1. (b - m * a) * k <= 0
        BY <2>2, <3>1, <3>2, SMT
      <4>2. QED
        BY <2>6, <4>1
    <3>3. CASE b - m * a >= 1
      <4>1. (b - m * a) * k >= k
        BY <2>2, <3>1, <3>3, SMT
      <4>2. QED
        BY <2>1, <2>6, <4>1
    <3>4. QED
      BY <3>1, <3>2, <3>3
<1>3. S # {}
  <2> DEFINE q == from \div Grid
             r == from % Grid
  <2>1. q \in Nat /\ r \in 0 .. (Grid - 1) /\ from = q * Grid + r
    BY <1>1, Division
  <2> HIDE DEF from, q, r
  <2>2. (q + 1) * Grid = q * Grid + Grid
    BY <1>1, <2>1, SMT
  <2>3. CASE r = 0
    <3>1. q * Grid + 1 \in from .. (from + Grid)
      BY <1>1, <2>1, <2>3
    <3>2. QED
      BY <1>2, <2>1, <3>1
  <2>4. CASE r # 0
    <3>1. (q + 1) * Grid + 1 \in from .. (from + Grid)
      BY <1>1, <2>1, <2>2, <2>4
    <3>2. QED
      BY <1>2, <2>1, <3>1
  <2>5. QED
    BY <2>3, <2>4
<1>4. PICK n \in S : \A m \in S : n <= m
  <2>1. S \in SUBSET Nat
    BY <1>1
  <2>2. QED
    BY <1>3, <2>1, LeastNatural
<1>5. /\ n \in from .. (from + Grid) /\ Coprime(n, Grid)
      /\ \A m \in from .. (n - 1) : ~Coprime(m, Grid)
  BY <1>1, <1>4
<1>6. SpreadStride \in from .. (from + Grid) /\ Coprime(SpreadStride, Grid)
  <2> HIDE DEF from
  <2>1. SpreadStride = CHOOSE m \in from .. (from + Grid) :
            Coprime(m, Grid) /\ \A i \in from .. (m - 1) : ~Coprime(i, Grid)
    BY DEF SpreadStride, from
  <2>2. QED
    BY <1>5, <2>1
<1>7. QED
  BY <1>1, <1>6

\* Within a wave the spread stride visits every residue once.
LEMMA SpreadOnto ==
    ASSUME NEW r \in 0 .. (Grid - 1)
    PROVE  \E b \in 0 .. (Grid - 1) :
               /\ (b * SpreadStride) % Grid = r
               /\ \A c \in 0 .. (Grid - 1) : (c * SpreadStride) % Grid = r => c = b
<1> DEFINE I == 0 .. (Grid - 1)
           f == [b \in I |-> (b * SpreadStride) % Grid]
<1>1. Grid \in Nat \ {0}
  BY L1Assumption
<1>2. SpreadStride \in Nat \ {0} /\ Coprime(SpreadStride, Grid)
  BY SpreadStrideUnit
<1>3. ASSUME NEW b \in I
      PROVE  b * SpreadStride \in Nat
  BY <1>1, <1>2
<1>4. f \in [I -> I]
  BY <1>1, <1>3, Division
<1>5. ASSUME NEW b \in I, NEW c \in I, b < c
      PROVE  f[b] # f[c]
  <2> SUFFICES ASSUME f[b] = f[c]
               PROVE  FALSE
    OBVIOUS
  <2> DEFINE n == SpreadStride
  <2>1. PICK i \in Nat : b * n = i * Grid + f[b]
    BY <1>1, <1>3, Division
  <2>2. PICK j \in Nat : c * n = j * Grid + f[c]
    BY <1>1, <1>3, Division
  <2>3. f[b] \in Nat /\ n \in Nat \ {0}
    BY <1>1, <1>2, <1>4
  <2>4. (c - b) * n = (j - i) * Grid
    <3>1. (c - b) * n = c * n - b * n
      BY <1>1, <2>3, SMT
    <3>2. (j - i) * Grid = j * Grid - i * Grid
      BY <1>1, SMT
    <3>3. c * n \in Nat /\ b * n \in Nat /\ i * Grid \in Nat /\ j * Grid \in Nat
      BY <1>1, <1>3
    <3> HIDE DEF f
    <3>4. QED
      BY <2>1, <2>2, <2>3, <3>1, <3>2, <3>3
  <2>5. c - b \in Nat \ {0} /\ (c - b) * n \in Nat
    BY <1>1, <1>5, <2>3
  <2>6. j - i \in Nat
    <3>1. CASE j - i < 0
      <4>1. (j - i) * Grid < 0
        BY <1>1, <3>1, SMT
      <4>2. QED
        BY <2>4, <2>5, <4>1
    <3>2. QED
      BY <3>1
  <2>7. ((c - b) * n) % Grid = 0
    BY <1>1, <2>4, <2>5, <2>6, Multiple
  <2>8. (c - b) % Grid = 0
    BY <1>1, <1>2, <2>3, <2>5, <2>7, CoprimeMultiple
  <2>9. PICK k \in Nat : c - b = k * Grid
    BY <1>1, <2>5, <2>8, Multiple
  <2>10. k * Grid = 0 \/ k * Grid >= Grid
    BY <1>1, SMT
  <2>11. QED
    BY <1>1, <2>5, <2>9, <2>10
<1>6. \A b, c \in I : f[b] = f[c] => b = c
  <2> HIDE DEF f
  <2>1. QED
    BY <1>1, <1>5
<1>7. IsFiniteSet(I)
  BY <1>1, FS_Interval
<1>8. f \in Surjection(I, I)
  <2> HIDE DEF f, I
  <2>1. f \in Injection(I, I)
    BY <1>4, <1>6 DEF Injection, IsInjective
  <2>2. QED
    BY <1>7, <2>1, FS_Injection
<1>9. PICK b \in I : f[b] = r
  BY <1>8 DEF Surjection
<1>10. QED
  BY <1>6, <1>9

LEMMA SpreadDeal ==
    ASSUME NEW l \in Nat
    PROVE  \E o \in Nat :
               /\ o \div Grid = l \div Grid
               /\ ServingSpreadTailTask(o) = l
               /\ \A p \in Nat : ServingSpreadTailTask(p) = l => p = o
<1> DEFINE a == l \div Grid
           r == l % Grid
           turned(b) == (b * SpreadStride) % Grid
<1>1. Grid \in Nat \ {0} /\ SpreadStride \in Nat \ {0}
  BY L1Assumption, SpreadStrideUnit
<1>2. a \in Nat /\ r \in 0 .. (Grid - 1) /\ l = a * Grid + r
  BY <1>1, Division
<1>3. PICK b \in 0 .. (Grid - 1) :
          /\ turned(b) = r
          /\ \A c \in 0 .. (Grid - 1) : turned(c) = r => c = b
  BY <1>2, SpreadOnto
<1> DEFINE o == a * Grid + b
<1>4. o \in Nat /\ o \div Grid = a /\ o % Grid = b
  <2> HIDE DEF a, r, turned
  <2>1. (a * Grid + b) \div Grid = a /\ (a * Grid + b) % Grid = b
    BY <1>1, <1>2, DivisionUnique
  <2>2. a * Grid + b \in Nat
    BY <1>1, <1>2
  <2>3. QED
    BY <2>1, <2>2
<1>5. ServingSpreadTailTask(o) = l
  BY <1>2, <1>3, <1>4 DEF ServingSpreadTailTask
<1>6. ASSUME NEW p \in Nat, ServingSpreadTailTask(p) = l
      PROVE  p = o
  <2> DEFINE i == p \div Grid
             c == p % Grid
  <2>1. i \in Nat /\ c \in 0 .. (Grid - 1) /\ p = i * Grid + c
    BY <1>1, Division
  <2>2. turned(c) \in 0 .. (Grid - 1)
    <3>1. c * SpreadStride \in Nat
      BY <1>1, <2>1
    <3>2. QED
      BY <1>1, <3>1, Division
  <2>3. l = i * Grid + turned(c)
    BY <1>6 DEF ServingSpreadTailTask
  <2>4. i = a /\ turned(c) = r
    <3> HIDE DEF c, i, turned
    <3>1. (i * Grid + turned(c)) \div Grid = i /\ (i * Grid + turned(c)) % Grid = turned(c)
      BY <1>1, <2>1, <2>2, DivisionUnique
    <3>2. QED
      BY <2>3, <3>1
  <2>5. c = b
    BY <1>3, <2>1, <2>4
  <2>6. QED
    BY <2>1, <2>4, <2>5
<1>7. QED
  BY <1>4, <1>5, <1>6

LEMMA PrefixDeal ==
    ASSUME NEW s \in Stage \ GemmStages, AttentionHeads[s] > 0,
           NEW l \in 0 .. (Count[s] - 1)
    PROVE  \E o \in 0 .. (Count[s] - 1) :
               /\ ServingAttentionL1Task(s, o) = l
               /\ \A p \in 0 .. (Count[s] - 1) : ServingAttentionL1Task(s, p) = l => p = o
<1> DEFINE h == AttentionHeads[s]
           q == Count[s] \div h
<1>1. h \in Nat \ {0} /\ Count[s] \in Nat
  BY GraphAssumption, L1Assumption
<1>2. Count[s] = q * h /\ q \in Nat
  <2>1. Count[s] % h = 0
    BY L1Assumption
  <2> HIDE DEF h
  <2>2. /\ Count[s] \div h \in Nat
        /\ Count[s] = (Count[s] \div h) * h + (Count[s] % h)
    BY <1>1, Division
  <2>3. (Count[s] \div h) * h \in Nat
    BY <1>1, <2>2
  <2>4. QED
    BY <2>1, <2>2, <2>3 DEF h
<1> HIDE DEF h, q
<1>3. q \in Nat \ {0} /\ l \in Nat
  BY <1>1, <1>2
<1>4. ServingAttentionL1Task(s, l) = (l % h) * q + (l \div h)
  BY DEF ServingAttentionL1Task, h, q
<1> DEFINE b == l \div q
           a == l % q
<1>5. b \in Nat /\ a \in 0 .. (q - 1) /\ l = b * q + a
  BY <1>3, Division
<1> HIDE DEF a, b
<1>6. b < h
  <2>1. CASE b >= h
    <3>1. b * q >= h * q
      BY <1>1, <1>3, <1>5, <2>1, SMT
    <3>2. h * q = q * h
      BY <1>1, <1>3
    <3>3. QED
      BY <1>1, <1>2, <1>3, <1>5, <3>1, <3>2
  <2>2. QED
    BY <1>1, <1>5, <2>1
<1> DEFINE o == a * h + b
<1>7. o \div h = a /\ o % h = b
  <2>1. b \in 0 .. (h - 1) /\ a \in Nat
    BY <1>1, <1>3, <1>5, <1>6
  <2>2. QED
    BY <1>1, <2>1, DivisionUnique
<1>8. o \in 0 .. (Count[s] - 1)
  <2>1. a * h + h <= q * h
    BY <1>1, <1>3, <1>5, ProductBelow
  <2>2. a * h \in Nat
    BY <1>1, <1>5
  <2>3. QED
    BY <1>1, <1>2, <1>5, <1>6, <2>1, <2>2
<1>9. ServingAttentionL1Task(s, o) = l
  BY <1>5, <1>7 DEF ServingAttentionL1Task, h, q
<1>10. ASSUME NEW p \in 0 .. (Count[s] - 1), ServingAttentionL1Task(s, p) = l
       PROVE  p = o
  <2> DEFINE i == p \div h
             c == p % h
  <2>1. i \in Nat /\ c \in 0 .. (h - 1) /\ p = i * h + c
    <3>1. p \in Nat
      BY <1>1
    <3>2. QED
      BY <1>1, <3>1, Division
  <2>2. l = c * q + i
    BY <1>10 DEF ServingAttentionL1Task, h, q
  <2> HIDE DEF i, c
  <2>3. i < q
    <3>1. CASE i >= q
      <4>1. i * h >= q * h
        BY <1>1, <1>3, <2>1, <3>1, SMT
      <4>2. QED
        BY <1>1, <1>2, <1>3, <2>1, <4>1
    <3>2. QED
      BY <1>3, <2>1, <3>1
  <2>4. (c * q + i) \div q = c /\ (c * q + i) % q = i
    <3>1. i \in 0 .. (q - 1) /\ c \in Nat
      BY <1>1, <1>3, <2>1, <2>3
    <3>2. QED
      BY <1>3, <3>1, DivisionUnique
  <2>5. i = a /\ c = b
    BY <2>2, <2>4 DEF a, b
  <2>6. QED
    BY <2>1, <2>5
<1>11. QED
  BY <1>8, <1>9, <1>10

\* Whichever way a stage is dealt, one ordinal below its limit names the task.
LEMMA DealtOnce ==
    ASSUME NEW x \in Task
    PROVE  \E o \in 0 .. (ServingL1TaskLimit(x.stage) - 1) :
               /\ ServingL1Task(x.stage, o) = x.logical
               /\ \A p \in 0 .. (ServingL1TaskLimit(x.stage) - 1) :
                     ServingL1Task(x.stage, p) = x.logical => p = o
<1> DEFINE s == x.stage
           l == x.logical
<1>1. s \in Stage /\ l \in Nat /\ l \in 0 .. (Count[s] - 1) /\ Count[s] \in Nat
  BY TaskFields
<1> HIDE DEF s, l
<1>2. CASE s \in SpreadHead
  <2>1. PICK o \in Nat :
            /\ o \div Grid = l \div Grid
            /\ ServingSpreadTailTask(o) = l
            /\ \A p \in Nat : ServingSpreadTailTask(p) = l => p = o
    BY <1>1, SpreadDeal
  <2> DEFINE n == (Count[s] + Grid - 1) \div Grid
  <2>2. Grid \in Nat \ {0}
    BY L1Assumption
  <2>3. n \in Nat /\ Count[s] <= n * Grid /\ n * Grid \in Nat
    <3>1. Count[s] + Grid - 1 \in Nat
      BY <1>1, <2>2
    <3>2. /\ n \in Nat
          /\ (Count[s] + Grid - 1) % Grid \in 0 .. (Grid - 1)
          /\ Count[s] + Grid - 1 = n * Grid + ((Count[s] + Grid - 1) % Grid)
      BY <2>2, <3>1, Division
    <3> HIDE DEF n
    <3>3. n * Grid \in Nat
      BY <2>2, <3>2
    <3>4. QED
      BY <1>1, <2>2, <3>2, <3>3
  <2> HIDE DEF n
  <2>4. o < n * Grid
    <3>1. /\ l \div Grid \in Nat /\ l % Grid \in 0 .. (Grid - 1)
          /\ l = (l \div Grid) * Grid + (l % Grid)
      BY <1>1, <2>2, Division
    <3>2. o % Grid \in 0 .. (Grid - 1) /\ o = (o \div Grid) * Grid + (o % Grid)
      BY <2>2, Division
    <3>3. l \div Grid < n
      <4>1. CASE l \div Grid >= n
        <5>1. (l \div Grid) * Grid >= n * Grid
          BY <2>2, <2>3, <3>1, <4>1, SMT
        <5>2. (l \div Grid) * Grid \in Nat
          BY <2>2, <3>1
        <5>3. l >= (l \div Grid) * Grid
          BY <2>2, <3>1, <5>2
        <5>4. QED
          BY <1>1, <2>3, <5>1, <5>2, <5>3
      <4>2. QED
        BY <2>3, <3>1, <4>1
    <3>4. (l \div Grid) * Grid + Grid <= n * Grid
      BY <2>2, <2>3, <3>1, <3>3, ProductBelow
    <3>5. (l \div Grid) * Grid \in Nat
      BY <2>2, <3>1
    <3>6. QED
      BY <2>1, <2>2, <2>3, <3>2, <3>4, <3>5
  <2>5. ServingL1TaskLimit(s) = n * Grid
    BY <1>2 DEF ServingL1TaskLimit, n
  <2>6. \A p \in Nat : ServingL1Task(s, p) = ServingSpreadTailTask(p)
    BY <1>2 DEF ServingL1Task
  <2>7. o \in 0 .. (n * Grid - 1) /\ \A p \in 0 .. (n * Grid - 1) : p \in Nat
    BY <2>1, <2>3, <2>4
  <2>8. QED
    BY <2>1, <2>5, <2>6, <2>7 DEF s, l
<1>3. CASE s \notin SpreadHead /\ s \notin GemmStages /\ AttentionHeads[s] > 0
  <2>1. ServingL1TaskLimit(s) = Count[s]
    BY <1>3 DEF ServingL1TaskLimit
  <2>2. \A p : ServingL1Task(s, p) = ServingAttentionL1Task(s, p)
    BY <1>3 DEF ServingL1Task
  <2>3. QED
    BY <1>1, <1>3, <2>1, <2>2, PrefixDeal DEF s, l
<1>4. CASE s \notin SpreadHead /\ ~(s \notin GemmStages /\ AttentionHeads[s] > 0)
  <2>1. ServingL1TaskLimit(s) = Count[s]
    BY <1>4 DEF ServingL1TaskLimit
  <2>2. \A p : ServingL1Task(s, p) = p
    BY <1>4 DEF ServingL1Task
  <2>3. QED
    BY <1>1, <2>1, <2>2 DEF s, l
<1>5. QED
  BY <1>2, <1>3, <1>4

\* Every residue is the first ordinal of one CTA (PlacedBlock is one to one).
LEMMA FirstOrdinals ==
    ASSUME NEW s \in Stage
    PROVE  /\ \A w \in Worker : FirstOrdinal(s, w) \in Worker
           /\ \A v, w \in Worker : FirstOrdinal(s, v) = FirstOrdinal(s, w) => v = w
           /\ \A i \in Worker : \E w \in Worker : FirstOrdinal(s, w) = i
<1>1. \A w \in Worker : FirstOrdinal(s, w) \in Worker
  BY L1Assumption DEF FirstOrdinal
<1>2. \A v, w \in Worker : FirstOrdinal(s, v) = FirstOrdinal(s, w) => v = w
  BY L1Assumption DEF FirstOrdinal
<1>3. \A i \in Worker : \E w \in Worker : PlacedBlock[w] = i
  <2>1. IsFiniteSet(Worker)
    BY L1Assumption, FS_Interval DEF Worker
  <2>2. PlacedBlock \in Injection(Worker, Worker)
    BY L1Assumption DEF Injection, IsInjective
  <2>3. PlacedBlock \in Surjection(Worker, Worker)
    BY <2>1, <2>2, FS_Injection
  <2>4. QED
    BY <2>3 DEF Surjection
<1>4. QED
  BY <1>1, <1>2, <1>3 DEF FirstOrdinal

LEMMA LimitType ==
    ASSUME NEW s \in Stage
    PROVE  ServingL1TaskLimit(s) \in Nat
<1>1. Grid \in Nat \ {0} /\ Count[s] \in Nat
  BY L1Assumption, GraphAssumption
<1>2. (Count[s] + Grid - 1) \div Grid \in Nat
  BY <1>1, Division
<1>3. QED
  BY <1>1, <1>2 DEF ServingL1TaskLimit

LEMMA Deal ==
    ASSUME NEW x \in Task
    PROVE  /\ OrdinalOf(x) \in Nat
           /\ ServingL1Task(x.stage, OrdinalOf(x)) = x.logical
           /\ OrdinalOf(x) < ServingL1TaskLimit(x.stage)
           /\ OwnerOf(x) \in Worker
           /\ FirstOrdinal(x.stage, OwnerOf(x)) = OrdinalOf(x) % Grid
           /\ \A o \in Nat, w \in Worker :
                 /\ o < ServingL1TaskLimit(x.stage)
                 /\ ServingL1Task(x.stage, o) = x.logical
                 /\ o % Grid = FirstOrdinal(x.stage, w)
                 => o = OrdinalOf(x) /\ w = OwnerOf(x)
<1> DEFINE s == x.stage
           limit == ServingL1TaskLimit(s)
<1>1. s \in Stage /\ Grid \in Nat \ {0} /\ Count[s] \in Nat
  BY TaskFields, L1Assumption
<1>2. limit \in Nat
  BY <1>1, LimitType
<1>3. PICK o \in 0 .. (limit - 1) :
          /\ ServingL1Task(s, o) = x.logical
          /\ \A p \in 0 .. (limit - 1) : ServingL1Task(s, p) = x.logical => p = o
  BY DealtOnce
<1> HIDE DEF s, limit
<1>4. OrdinalOf(x) = CHOOSE p \in 0 .. (limit - 1) : ServingL1Task(s, p) = x.logical
  BY DEF OrdinalOf, s, limit
<1>5. OrdinalOf(x) = o
  BY <1>3, <1>4
<1>6. o \in Nat /\ o < limit /\ o % Grid \in Worker
  <2>1. o \in Nat /\ o < limit
    BY <1>2, <1>3
  <2>2. QED
    BY <1>1, <2>1, Division DEF Worker
<1>7. PICK w \in Worker : FirstOrdinal(s, w) = o % Grid
  BY <1>1, <1>6, FirstOrdinals
<1>8. OwnerOf(x) = CHOOSE v \in Worker : FirstOrdinal(s, v) = o % Grid
  BY <1>5 DEF OwnerOf, s
<1>9. OwnerOf(x) = w
  BY <1>1, <1>7, <1>8, FirstOrdinals
<1>10. ASSUME NEW p \in Nat, NEW v \in Worker,
              p < limit, ServingL1Task(s, p) = x.logical, p % Grid = FirstOrdinal(s, v)
       PROVE  p = o /\ v = w
  <2>1. p = o
    BY <1>2, <1>3, <1>10
  <2>2. QED
    BY <1>1, <1>7, <1>10, <2>1, FirstOrdinals
<1>11. QED
  BY <1>3, <1>5, <1>6, <1>7, <1>9, <1>10 DEF s, limit
-----------------------------------------------------------------------------
(***************************************************************************)
(* How many arrive at a barrier, and how many partials a reduction has.    *)
(***************************************************************************)
USE DEF Stage

LEMMA BuildFields ==
    ASSUME build \in Builds
    PROVE  /\ Grid \in Nat \ {0} /\ ClusterDim \in Nat \ {0}
           /\ Clusters \in Nat \ {0} /\ Grid = Clusters * ClusterDim
           /\ RedBarrier \in BOOLEAN
           /\ Parties \in Nat \ {0}
<1>1. /\ Grid \in Nat \ {0}
      /\ build \in [cluster : {n \in 1 .. Grid : Grid % n = 0}, red : BOOLEAN]
  BY L1Assumption
<1>2. ClusterDim \in Nat \ {0} /\ Grid % ClusterDim = 0 /\ RedBarrier \in BOOLEAN
  BY <1>1 DEF ClusterDim, RedBarrier
<1>3. /\ Grid \div ClusterDim \in Nat
      /\ Grid = (Grid \div ClusterDim) * ClusterDim + (Grid % ClusterDim)
  BY <1>1, <1>2, Division
<1>4. Clusters \in Nat /\ Grid = Clusters * ClusterDim
  <2> DEFINE d == ClusterDim
             c == Grid \div d
  <2>1. c \in Nat /\ d \in Nat /\ Grid = c * d + (Grid % d) /\ Grid % d = 0
    BY <1>2, <1>3
  <2> HIDE DEF c, d
  <2>2. c * d \in Nat
    BY <2>1
  <2>3. Grid = c * d
    BY <2>1, <2>2
  <2>4. QED
    BY <2>1, <2>3 DEF Clusters, c, d
<1>5. Clusters # 0
  BY <1>1, <1>2, <1>4
<1>6. QED
  BY <1>1, <1>2, <1>4, <1>5 DEF Parties

LEMMA WorkerFinite == IsFiniteSet(Worker) /\ Cardinality(Worker) = Grid /\ 0 \in Worker
<1>1. Grid \in Nat \ {0}
  BY L1Assumption
<1>2. IsFiniteSet(0 .. (Grid - 1)) /\ Cardinality(0 .. (Grid - 1)) = (Grid - 1) - 0 + 1
  BY <1>1, IntervalCardinality
<1>3. QED
  BY <1>1, <1>2 DEF Worker

\* The first CTA of the cluster w is in.
LEMMA ClusterHead ==
    ASSUME build \in Builds, NEW w \in Worker
    PROVE  /\ w \div ClusterDim \in 0 .. (Clusters - 1)
           /\ (w \div ClusterDim) * ClusterDim \in Worker
           /\ Rank((w \div ClusterDim) * ClusterDim) = 0
           /\ ((w \div ClusterDim) * ClusterDim) \div ClusterDim = w \div ClusterDim
           /\ Rank(w) = 0 => w = (w \div ClusterDim) * ClusterDim
<1> DEFINE d == ClusterDim
           c == w \div d
<1>1. d \in Nat \ {0} /\ Clusters \in Nat /\ Grid = Clusters * d /\ Grid \in Nat \ {0}
  BY BuildFields
<1> HIDE DEF d
<1>2. w \in Nat /\ w < Grid
  BY <1>1 DEF Worker
<1>3. c \in Nat /\ w % d \in 0 .. (d - 1) /\ w = c * d + (w % d)
  BY <1>1, <1>2, Division
<1> HIDE DEF c
<1>4. c * d \in Nat /\ c * d <= w
  BY <1>1, <1>2, <1>3
<1>5. c < Clusters
  <2>1. CASE c >= Clusters
    <3>1. c * d >= Clusters * d
      BY <1>1, <1>3, <2>1, SMT
    <3>2. QED
      BY <1>1, <1>2, <1>4, <3>1
  <2>2. QED
    BY <1>1, <1>3, <2>1
<1>6. (c * d) % d = 0 /\ (c * d) \div d = c
  <2>1. 0 \in 0 .. (d - 1) /\ c * d + 0 = c * d
    BY <1>1, <1>4
  <2>2. QED
    BY <1>1, <1>3, <2>1, DivisionUnique
<1>7. c * d \in Worker
  BY <1>1, <1>2, <1>4 DEF Worker
<1>8. w % d = 0 => w = c * d
  BY <1>3, <1>4
<1>9. QED
  BY <1>1, <1>3, <1>5, <1>6, <1>7, <1>8 DEF c, d, Rank

LEMMA PartyCount ==
    ASSUME build \in Builds
    PROVE  /\ IsFiniteSet(Party) /\ Cardinality(Party) = Parties
           /\ Party # {} /\ Party \subseteq Worker
           /\ ~Clustered => Party = Worker
<1>1. Party \subseteq Worker /\ IsFiniteSet(Party)
  BY WorkerFinite, FS_Subset DEF Party
<1>2. CASE ~Clustered
  BY <1>1, <1>2, WorkerFinite DEF Party, Parties
<1>3. CASE Clustered
  <2> DEFINE d == ClusterDim
             I == 0 .. (Clusters - 1)
             f == [c \in I |-> c * d]
  <2>1. d \in Nat \ {0} /\ Clusters \in Nat \ {0} /\ Grid = Clusters * d /\ Grid \in Nat
    BY BuildFields
  <2>2. Party = {w \in Worker : w % d = 0}
    BY <1>3 DEF Party, Rank
  <2> HIDE DEF d
  <2>3. ASSUME NEW c \in I
        PROVE  c * d \in Party /\ (c * d) \div d = c
    <3>1. c \in Nat /\ c < Clusters
      BY <2>1
    <3>2. c * d + d <= Clusters * d
      BY <2>1, <3>1, ProductBelow
    <3>3. c * d \in Nat
      BY <2>1, <3>1
    <3>4. 0 \in 0 .. (d - 1) /\ c * d + 0 = c * d
      BY <2>1, <3>3
    <3>5. (c * d) % d = 0 /\ (c * d) \div d = c
      BY <2>1, <3>1, <3>4, DivisionUnique
    <3>6. c * d \in Worker
      BY <2>1, <3>2, <3>3 DEF Worker
    <3>7. QED
      BY <2>2, <3>5, <3>6
  <2>4. ASSUME NEW w \in Party
        PROVE  \E c \in I : c * d = w
    <3>1. w \in Worker /\ Rank(w) = 0
      BY <1>3 DEF Party
    <3>2. w \div d \in I /\ w = (w \div d) * d
      BY <3>1, ClusterHead DEF d
    <3>3. QED
      BY <3>2
  <2>5. f \in Bijection(I, Party)
    <3>1. f \in [I -> Party]
      BY <2>3
    <3>2. \A a, b \in I : f[a] = f[b] => a = b
      BY <2>3
    <3>3. \A w \in Party : \E c \in I : f[c] = w
      BY <2>4
    <3> HIDE DEF I, f
    <3>4. QED
      BY <3>1, <3>2, <3>3 DEF Bijection, Injection, Surjection, IsInjective
  <2>6. IsFiniteSet(I) /\ Cardinality(I) = (Clusters - 1) - 0 + 1
    BY <2>1, IntervalCardinality
  <2>7. Cardinality(Party) = Cardinality(I)
    <3> HIDE DEF I, f
    <3>1. QED
      BY <2>5, <2>6, FS_Bijection DEF ExistsBijection
  <2>8. 0 * d \in Party
    <3>1. 0 \in I
      BY <2>1
    <3>2. QED
      BY <2>3, <3>1
  <2>9. Parties = Clusters
    BY <1>3 DEF Parties
  <2>10. QED
    BY <1>1, <1>3, <2>1, <2>6, <2>7, <2>8, <2>9
<1>4. QED
  BY <1>2, <1>3

\* A reduced output has as many partials as its stage has producers.
LEMMA OutputFields ==
    ASSUME NEW y \in Output
    PROVE  /\ y \in Task /\ Elided(y.stage)
           /\ \E s \in Stage : HandoffReduce[s] = y.stage
           /\ \A s \in Stage : HandoffReduce[s] = y.stage =>
                 /\ s < y.stage /\ ~Elided(s)
                 /\ Producers[s] \in Nat \ {0}
                 /\ Parts(y) = {x \in TasksOf(s) : x.logical \div Producers[s] = y.logical}
                 /\ IsFiniteSet(Parts(y))
                 /\ Cardinality(Parts(y)) = Producers[s]
                 /\ Parts(y) # {}
<1>1. y \in Task /\ Elided(y.stage)
  BY DEF Output
<1>2. y.stage \in Stage /\ y.logical \in 0 .. (Count[y.stage] - 1)
        /\ y.logical \in Nat /\ Count[y.stage] \in Nat
        /\ y = [stage |-> y.stage, logical |-> y.logical]
  BY <1>1, TaskFields
<1>3. ASSUME NEW s \in Stage, HandoffReduce[s] = y.stage
      PROVE  /\ s < y.stage /\ ~Elided(s)
             /\ Producers[s] \in Nat \ {0}
             /\ Parts(y) = {x \in TasksOf(s) : x.logical \div Producers[s] = y.logical}
             /\ IsFiniteSet(Parts(y))
             /\ Cardinality(Parts(y)) = Producers[s]
             /\ Parts(y) # {}
  <2> DEFINE n == Producers[s]
             lo == y.logical * n
             I == lo .. (lo + n - 1)
             f == [i \in I |-> [stage |-> s, logical |-> i]]
  <2>1. HandoffReduce[s] # NoStage
    BY <1>2, <1>3 DEF NoStage
  <2>2. s < y.stage /\ n \in Nat \ {0} /\ Count[s] = n * Count[y.stage]
    BY <1>3, <2>1, L1Assumption
  <2>3. ~Elided(s)
    <3>1. ASSUME NEW t \in Stage, HandoffReduce[t] = s
          PROVE  FALSE
      <4>1. HandoffReduce[t] # NoStage
        BY <3>1 DEF NoStage
      <4>2. HandoffReduce[HandoffReduce[t]] = NoStage
        BY <4>1, L1Assumption
      <4>3. QED
        BY <2>1, <3>1, <4>2
    <3>2. QED
      BY <3>1 DEF Elided
  <2>4. \A t \in Stage : HandoffReduce[t] = y.stage => t = s
    BY <1>3, <2>1, L1Assumption
  <2> HIDE DEF n
  <2>5. Parts(y) = {x \in TasksOf(s) : x.logical \div n = y.logical}
    <3>1. ASSUME NEW x \in Task, HandoffReduce[x.stage] # NoStage, HandoffOutput(x) = y
          PROVE  x \in TasksOf(s) /\ x.logical \div n = y.logical
      <4>1. HandoffReduce[x.stage] = y.stage /\ x.logical \div Producers[x.stage] = y.logical
        BY <3>1 DEF HandoffOutput
      <4>2. x.stage = s
        BY <2>4, <4>1, TaskFields
      <4>3. QED
        BY <4>1, <4>2 DEF TasksOf, n
    <3>2. ASSUME NEW x \in TasksOf(s), x.logical \div n = y.logical
          PROVE  x \in Task /\ HandoffReduce[x.stage] # NoStage /\ HandoffOutput(x) = y
      <4>1. x \in Task /\ x.stage = s
        BY DEF TasksOf
      <4>2. HandoffOutput(x) = [stage |-> y.stage, logical |-> y.logical]
        BY <1>3, <3>2, <4>1 DEF HandoffOutput, n
      <4>3. QED
        BY <1>2, <2>1, <4>1, <4>2
    <3>3. QED
      BY <3>1, <3>2 DEF Parts
  <2>6. lo \in Nat /\ lo + n <= Count[s] /\ Count[s] \in Nat
    <3>1. y.logical * n + n <= Count[y.stage] * n
      BY <1>2, <2>2, ProductBelow
    <3>2. Count[y.stage] * n = n * Count[y.stage] /\ y.logical * n \in Nat
      BY <1>2, <2>2
    <3>3. QED
      BY <1>2, <2>2, <3>1, <3>2
  <2>7. ASSUME NEW x \in TasksOf(s)
        PROVE  x.logical \div n = y.logical <=> x.logical \in I
    <3>1. x.logical \in Nat
      BY TaskFields DEF TasksOf
    <3>2. x.logical \div n = y.logical <=> lo <= x.logical /\ x.logical < lo + n
      BY <1>2, <2>2, <3>1, DivisionBlock
    <3> HIDE DEF lo
    <3>3. QED
      BY <2>2, <2>6, <3>1, <3>2
  <2> HIDE DEF lo
  <2>8. ASSUME NEW i \in I
        PROVE  f[i] \in Parts(y)
    <3>1. i \in 0 .. (Count[s] - 1)
      BY <2>2, <2>6
    <3>2. [stage |-> s, logical |-> i] \in TasksOf(s)
      BY <3>1, TaskMembership DEF TasksOf
    <3>3. QED
      BY <2>5, <2>7, <3>2
  <2>9. \A x \in Parts(y) : \E i \in I : f[i] = x
    <3> TAKE x \in Parts(y)
    <3>1. x \in TasksOf(s) /\ x.logical \in I
      BY <2>5, <2>7
    <3>2. x = [stage |-> s, logical |-> x.logical]
      BY <3>1, TaskFields DEF TasksOf
    <3>3. QED
      BY <3>1, <3>2
  <2>10. f \in Bijection(I, Parts(y))
    <3>1. f \in [I -> Parts(y)]
      BY <2>8
    <3>2. \A i, j \in I : f[i] = f[j] => i = j
      OBVIOUS
    <3> HIDE DEF I, f
    <3>3. QED
      BY <2>9, <3>1, <3>2 DEF Bijection, Injection, Surjection, IsInjective
  <2>11. IsFiniteSet(I) /\ Cardinality(I) = n
    <3>1. IsFiniteSet(I) /\ Cardinality(I) = (lo + n - 1) - lo + 1
      BY <2>2, <2>6, IntervalCardinality
    <3>2. QED
      BY <2>2, <2>6, <3>1
  <2>12. IsFiniteSet(Parts(y)) /\ Cardinality(Parts(y)) = n
    <3> HIDE DEF I, f
    <3>1. QED
      BY <2>10, <2>11, FS_Bijection DEF ExistsBijection
  <2>13. Parts(y) # {}
    BY <2>2, <2>12, FS_EmptySet
  <2>14. QED
    BY <2>2, <2>3, <2>5, <2>12, <2>13 DEF n
<1>4. \E s \in Stage : HandoffReduce[s] = y.stage
  BY <1>1 DEF Elided
<1>5. QED
  BY <1>1, <1>3, <1>4

LEMMA OutputOfPart ==
    ASSUME NEW x \in Task, HandoffReduce[x.stage] # NoStage
    PROVE  HandoffOutput(x) \in Output /\ x \in Parts(HandoffOutput(x)) /\ ~Elided(x.stage)
<1> DEFINE s == x.stage
           t == HandoffReduce[s]
           n == Producers[s]
           c == x.logical \div n
<1>1. s \in Stage /\ x.logical \in Nat /\ x.logical < Count[s]
  BY TaskFields
<1>2. t \in Stage /\ n \in Nat \ {0} /\ Count[s] = n * Count[t]
  BY <1>1, L1Assumption
<1>3. Count[t] \in Nat
  BY <1>2, GraphAssumption
<1> HIDE DEF s, t, n
<1>4. c \in Nat /\ c * n <= x.logical
  <2>1. c \in Nat /\ x.logical % n \in 0 .. (n - 1) /\ x.logical = c * n + (x.logical % n)
    BY <1>1, <1>2, Division
  <2> HIDE DEF c
  <2>2. c * n \in Nat
    BY <1>2, <2>1
  <2>3. QED
    BY <1>1, <1>2, <2>1, <2>2
<1> HIDE DEF c
<1>5. c < Count[t]
  <2>1. CASE c >= Count[t]
    <3>1. c * n >= Count[t] * n
      BY <1>2, <1>3, <1>4, <2>1, SMT
    <3>2. Count[t] * n = n * Count[t] /\ c * n \in Nat
      BY <1>2, <1>3, <1>4
    <3>3. QED
      BY <1>1, <1>2, <1>3, <1>4, <3>1, <3>2
  <2>2. QED
    BY <1>3, <1>4, <2>1
<1>6. HandoffOutput(x) = [stage |-> t, logical |-> c]
  BY DEF HandoffOutput, s, t, n, c
<1>7. [stage |-> t, logical |-> c] \in Task
  <2>1. c \in 0 .. (Count[t] - 1)
    BY <1>3, <1>4, <1>5
  <2>2. QED
    BY <1>2, <2>1, TaskMembership
<1>8. Elided(t)
  BY <1>1 DEF Elided, t
<1>9. HandoffOutput(x) \in Output
  BY <1>6, <1>7, <1>8 DEF Output
<1>10. x \in Parts(HandoffOutput(x))
  BY DEF Parts
<1>11. HandoffOutput(x).stage = HandoffReduce[x.stage]
  BY <1>6 DEF t, s
<1>12. ~Elided(x.stage)
  BY <1>1, <1>9, <1>11, OutputFields DEF s
<1>13. QED
  BY <1>9, <1>10, <1>12

-----------------------------------------------------------------------------
(***************************************************************************)
(* The stage loop.                                                         *)
(***************************************************************************)
LEMMA FirstStage == 0 \in Stage /\ ~Elided(0)
<1>1. 0 \in Stage
  BY GraphAssumption, L1Assumption
<1>2. ASSUME NEW t \in Stage, HandoffReduce[t] = 0
      PROVE  FALSE
  <2>1. t < HandoffReduce[t]
    BY <1>2, L1Assumption DEF NoStage
  <2>2. QED
    BY <1>2, <2>1, GraphAssumption
<1>3. QED
  BY <1>1, <1>2 DEF Elided

LEMMA FirstOrdinalType ==
    ASSUME NEW s \in Stage, NEW w \in Worker
    PROVE  /\ FirstOrdinal(s, w) \in Nat
           /\ FirstOrdinal(s, w) % Grid = FirstOrdinal(s, w)
<1>1. Grid \in Nat \ {0} /\ FirstOrdinal(s, w) \in 0 .. (Grid - 1)
  BY L1Assumption, FirstOrdinals DEF Worker
<1>2. 0 * Grid + FirstOrdinal(s, w) = FirstOrdinal(s, w)
  BY <1>1
<1>3. QED
  BY <1>1, <1>2, DivisionUnique

\* From stage s the loop goes to the next stage that is not elided, or to the
\* first stage of the next decode step.
Follows(w, n, s, e) ==
    /\ e \in [step : Nat, stage : Stage, ordinal : Nat]
    /\ ~Elided(e.stage)
    /\ e.ordinal = FirstOrdinal(e.stage, w)
    /\ \/ /\ e.step = n /\ e.stage > s
          /\ \A t \in Stage : s < t /\ t < e.stage => Elided(t)
       \/ /\ e.step = n + 1 /\ e.stage = 0
          /\ \A t \in Stage : s < t => Elided(t)

LEMMA EnterNext ==
    ASSUME NEW w \in Worker, NEW n \in Nat, NEW s \in Stage,
           NEW e, e = EnterStage(w, n, s + 1)
    PROVE  Follows(w, n, s, e)
<1> DEFINE live(from) == {t \in from .. (StageCount - 1) : ~Elided(t)}
           first(S) == CHOOSE t \in S : \A u \in S : t <= u
<1>1. StageCount \in Nat \ {0} /\ Stage = 0 .. (StageCount - 1)
  BY GraphAssumption, L1Assumption
<1>2. CASE live(s + 1) # {}
  <2>1. live(s + 1) \in SUBSET Nat
    BY <1>1
  <2>2. \E t \in live(s + 1) : \A u \in live(s + 1) : t <= u
    BY <1>2, <2>1, LeastNatural
  <2>3. first(live(s + 1)) \in live(s + 1) /\ \A u \in live(s + 1) : first(live(s + 1)) <= u
    BY <2>2
  <2>4. PICK t : t = first(live(s + 1))
    OBVIOUS
  <2>5. e = [step |-> n, stage |-> t, ordinal |-> FirstOrdinal(t, w)]
    BY <1>2, <2>4 DEF EnterStage
  <2>6. t \in Stage /\ t > s /\ ~Elided(t)
    BY <1>1, <2>3, <2>4
  <2>7. ASSUME NEW u \in Stage, s < u, u < t
        PROVE  Elided(u)
    <3>1. u \in (s + 1) .. (StageCount - 1)
      BY <1>1, <2>7
    <3>2. u \in live(s + 1) => t <= u
      BY <2>3, <2>4
    <3>3. QED
      BY <1>1, <2>6, <2>7, <3>1, <3>2
  <2>8. FirstOrdinal(t, w) \in Nat
    BY <2>6, FirstOrdinalType
  <2>9. QED
    BY <2>5, <2>6, <2>7, <2>8 DEF Follows
<1>3. CASE live(s + 1) = {}
  <2>1. 0 \in live(0) /\ \A u \in live(0) : 0 <= u
    BY <1>1, FirstStage
  <2>2. first(live(0)) = 0
    <3>1. live(0) \in SUBSET Nat
      BY <1>1
    <3>2. \A t \in live(0) : (\A u \in live(0) : t <= u) => t = 0
      BY <2>1, <3>1
    <3> HIDE DEF live
    <3>3. QED
      BY <2>1, <3>2
  <2>3. e = [step |-> n + 1, stage |-> 0, ordinal |-> FirstOrdinal(0, w)]
    BY <1>3, <2>2 DEF EnterStage
  <2>4. \A t \in Stage : s < t => Elided(t)
    <3> SUFFICES ASSUME NEW t \in Stage, s < t
                 PROVE  Elided(t)
      OBVIOUS
    <3>1. t \in (s + 1) .. (StageCount - 1)
      BY <1>1
    <3>2. QED
      BY <1>3, <3>1
  <2>5. FirstOrdinal(0, w) \in Nat
    BY FirstStage, FirstOrdinalType
  <2>6. QED
    BY <2>3, <2>4, <2>5, FirstStage DEF Follows
<1>4. QED
  BY <1>2, <1>3

LEMMA EnterFirst ==
    ASSUME NEW w \in Worker
    PROVE  EnterStage(w, 0, 0) = [step |-> 0, stage |-> 0, ordinal |-> FirstOrdinal(0, w)]
<1> DEFINE live(from) == {t \in from .. (StageCount - 1) : ~Elided(t)}
           first(S) == CHOOSE t \in S : \A u \in S : t <= u
<1>1. StageCount \in Nat \ {0} /\ Stage = 0 .. (StageCount - 1)
  BY GraphAssumption, L1Assumption
<1>2. 0 \in live(0) /\ \A u \in live(0) : 0 <= u
  BY <1>1, FirstStage
<1>3. first(live(0)) = 0
  <2>1. live(0) \in SUBSET Nat
    BY <1>1
  <2>2. \A t \in live(0) : (\A u \in live(0) : t <= u) => t = 0
    BY <1>2, <2>1
  <2> HIDE DEF live
  <2>3. QED
    BY <1>2, <2>2
<1>4. QED
  BY <1>2, <1>3 DEF EnterStage

-----------------------------------------------------------------------------
(***************************************************************************)
(* How the loops of a CTA count its passages.                              *)
(***************************************************************************)
LEMMA WorkerFields ==
    ASSUME TypeOK, NEW w \in Worker
    PROVE  /\ at[w].step \in Nat /\ at[w].stage \in Stage /\ at[w].ordinal \in Nat
           /\ at[w] = [step |-> at[w].step, stage |-> at[w].stage, ordinal |-> at[w].ordinal]
           /\ pc[w] \in {"task", "run", "handoff", "reduce", "done"} \cup Gone
BY DEF TypeOK

LEMMA StageOrder ==
    \A s \in Stage : s \in Nat
BY GraphAssumption

LEMMA PastOrder ==
    ASSUME TypeOK, NEW w \in Worker, NEW s \in Stage
    PROVE  /\ Left(w, s) \in Nat /\ Freed(w, s) \in Nat
           /\ Arrived(w, s) \in Nat /\ Walked(w, s) \in Nat
           /\ Left(w, s) <= Freed(w, s) /\ Freed(w, s) <= Arrived(w, s)
           /\ Arrived(w, s) <= Walked(w, s) /\ Walked(w, s) <= Left(w, s) + 1
           /\ Arrived(w, s) <= Freed(w, s) + 1
           /\ at[w].step <= Left(w, s) /\ Walked(w, s) <= at[w].step + 1
<1>1. at[w].step \in Nat /\ at[w].stage \in Nat /\ s \in Nat
  BY WorkerFields, StageOrder
<1>2. QED
  BY <1>1 DEF Left, Freed, Arrived, Walked, Past, Gone

LEMMA OwnCluster ==
    ASSUME NEW w \in Worker, InCluster(w, w)
    PROVE  pc[w] \in {"gathered", "publish", "wait"} => w \in Party
BY DEF InCluster, Party

\* No CTA gets out of a stage before all have walked it.
LEMMA Apart ==
    ASSUME IInv, NEW v \in Worker, NEW w \in Worker, NEW s \in Stage, ~Elided(s)
    PROVE  Left(w, s) <= Walked(v, s)
<1>1. TypeOK /\ BarrierInv(s) /\ build \in Builds
  BY DEF IInv, TypeOK
<1>2. \A a, b \in Party : Freed(a, s) <= Arrived(b, s)
  BY <1>1 DEF BarrierInv
<1>3. CASE ~Clustered
  <2>1. v \in Party /\ w \in Party
    BY <1>3 DEF Party
  <2>2. Freed(w, s) <= Arrived(v, s)
    BY <1>2, <2>1
  <2>3. QED
    BY <1>1, <2>2, PastOrder
<1>4. CASE Clustered
  <2> DEFINE head(x) == (x \div ClusterDim) * ClusterDim
  <2>1. ASSUME NEW x \in Worker
        PROVE  /\ head(x) \in Party /\ head(x) \in Worker
               /\ Left(head(x), s) = Left(x, s)
               /\ Walked(head(x), s) = Walked(x, s)
    <3>1. head(x) \in Worker /\ Rank(head(x)) = 0 /\ head(x) \div ClusterDim = x \div ClusterDim
      BY <1>1, ClusterHead
    <3>2. head(x) \in Party
      BY <3>1 DEF Party
    <3> HIDE DEF head
    <3>3. InCluster(x, head(x)) /\ InCluster(head(x), x)
      BY <3>1 DEF IInv
    <3>4. /\ at[x].step = at[head(x)].step /\ at[x].stage = at[head(x)].stage
          /\ x \notin Party => pc[x] \notin {"gathered", "publish", "wait"}
          /\ x \notin Party => (pc[x] = "scatter" <=> pc[head(x)] \in Gone)
      BY <1>4, <3>1, <3>2, <3>3 DEF InCluster
    <3>5. pc[x] \in Gone <=> pc[head(x)] \in Gone
      <4>1. CASE x \in Party
        <5>1. x = head(x)
          BY <1>1, <1>4, <4>1, ClusterHead DEF Party, head
        <5>2. QED
          BY <5>1
      <4>2. CASE x \notin Party
        BY <3>4, <4>2 DEF Gone
      <4>3. QED
        BY <4>1, <4>2
    <3>6. QED
      BY <3>1, <3>2, <3>4, <3>5 DEF Left, Walked, Past
  <2> HIDE DEF head
  <2>2. Freed(head(w), s) <= Arrived(head(v), s)
    BY <1>2, <2>1
  <2>3. /\ Left(head(w), s) \in Nat /\ Freed(head(w), s) \in Nat
        /\ Arrived(head(v), s) \in Nat /\ Walked(head(v), s) \in Nat
        /\ Left(head(w), s) <= Freed(head(w), s)
        /\ Arrived(head(v), s) <= Walked(head(v), s)
    BY <1>1, <2>1, PastOrder
  <2>4. Left(head(w), s) <= Walked(head(v), s)
    BY <2>2, <2>3
  <2>5. QED
    BY <2>1, <2>4
<1>5. QED
  BY <1>3, <1>4

\* StagesDoNotOverlap: two task bodies that run at once are of one stage.
LEMMA BusyTogether ==
    ASSUME IInv, NEW v \in Worker, NEW w \in Worker, Busy(v), Busy(w)
    PROVE  at[v].step = at[w].step /\ at[v].stage = at[w].stage
<1>1. TypeOK /\ Standing(v) /\ Standing(w)
  BY DEF IInv
<1>2. /\ at[v].step \in Nat /\ at[v].stage \in Stage /\ at[v].stage \in Nat
      /\ at[w].step \in Nat /\ at[w].stage \in Stage /\ at[w].stage \in Nat
  BY <1>1, WorkerFields, StageOrder
<1>3. Left(w, at[v].stage) <= Walked(v, at[v].stage)
  BY <1>1, <1>2, Apart DEF Standing
<1>4. Left(v, at[w].stage) <= Walked(w, at[w].stage)
  BY <1>1, <1>2, Apart DEF Standing
<1>5. pc[v] \notin Gone /\ pc[w] \notin Gone
  BY DEF Busy, Gone
<1>6. QED
  BY <1>2, <1>3, <1>4, <1>5 DEF Left, Walked, Past

-----------------------------------------------------------------------------
(***************************************************************************)
(* The partials of one output are drawn within one round of each other.    *)
(***************************************************************************)
LEMMA PastTaskOrder ==
    ASSUME IInv, NEW x \in Task, ~Elided(x.stage)
    PROVE  /\ Ran(x) \in Nat /\ Drew(x) \in Nat /\ Drew(x) <= Ran(x)
           /\ Walked(OwnerOf(x), x.stage) <= Drew(x)
           /\ Ran(x) <= Left(OwnerOf(x), x.stage) + 1
<1> DEFINE w == OwnerOf(x)
<1>1. w \in Worker /\ OrdinalOf(x) \in Nat /\ OrdinalOf(x) < ServingL1TaskLimit(x.stage)
  BY Deal
<1>2. TypeOK /\ Standing(w)
  BY <1>1 DEF IInv
<1>3. at[w].step \in Nat /\ at[w].stage \in Nat /\ at[w].ordinal \in Nat /\ x.stage \in Nat
  BY <1>1, <1>2, WorkerFields, StageOrder, TaskFields
<1>4. ServingL1TaskLimit(x.stage) \in Nat
  BY LimitType, TaskFields
<1>5. pc[w] \in Gone => at[w].ordinal >= ServingL1TaskLimit(at[w].stage)
  BY <1>2 DEF Standing
<1> DEFINE late == \/ at[w].stage > x.stage
                   \/ at[w].stage = x.stage /\ at[w].ordinal > OrdinalOf(x)
<1>6. /\ Ran(x) = at[w].step + (IF late \/ (at[w].stage = x.stage /\ at[w].ordinal = OrdinalOf(x) /\ pc[w] \in {"handoff", "reduce"}) THEN 1 ELSE 0)
      /\ Drew(x) = at[w].step + (IF late \/ (at[w].stage = x.stage /\ at[w].ordinal = OrdinalOf(x) /\ pc[w] \in {"reduce"}) THEN 1 ELSE 0)
  BY DEF Ran, Drew, PastTask
<1>7. /\ Walked(w, x.stage) = at[w].step + (IF at[w].stage > x.stage \/ (at[w].stage = x.stage /\ pc[w] \in Gone) THEN 1 ELSE 0)
      /\ Left(w, x.stage) = at[w].step + (IF at[w].stage > x.stage THEN 1 ELSE 0)
  BY DEF Walked, Left, Past
<1>8. pc[w] \in Gone /\ at[w].stage = x.stage => at[w].ordinal > OrdinalOf(x)
  BY <1>1, <1>3, <1>4, <1>5
<1> HIDE DEF w
<1>9. QED
  BY <1>1, <1>3, <1>6, <1>7, <1>8 DEF w

\* The task a CTA stands at, and no other, is the one its ordinal names.
Here(x, w) ==
    OwnerOf(x) = w /\ at[w].stage = x.stage /\ at[w].ordinal = OrdinalOf(x)

LEMMA HereAddressed ==
    ASSUME TypeOK, NEW w \in Worker, Standing(w), NEW x \in Task,
           at[w].ordinal < ServingL1TaskLimit(at[w].stage)
    PROVE  Here(x, w) <=> x = Addressed(w)
<1>1. at[w].stage \in Stage /\ at[w].ordinal \in Nat
      /\ at[w].ordinal % Grid = FirstOrdinal(at[w].stage, w)
  BY WorkerFields DEF Standing
<1>2. x = [stage |-> x.stage, logical |-> x.logical]
  BY TaskFields
<1>3. ASSUME Here(x, w)
      PROVE  x = Addressed(w)
  BY <1>2, <1>3, Deal DEF Here, Addressed
<1>4. ASSUME x = Addressed(w)
      PROVE  Here(x, w)
  <2>1. x.stage = at[w].stage /\ ServingL1Task(x.stage, at[w].ordinal) = x.logical
    BY <1>4 DEF Addressed
  <2>2. at[w].ordinal = OrdinalOf(x) /\ w = OwnerOf(x)
    BY <1>1, <2>1, Deal
  <2>3. QED
    BY <2>1, <2>2 DEF Here
<1>5. QED
  BY <1>3, <1>4

\* While w is at work in step k, its stage is drawn k or k + 1 times.
LEMMA DrawnTogether ==
    ASSUME IInv, NEW w \in Worker, Busy(w), NEW x \in Task, x.stage = at[w].stage
    PROVE  Drew(x) \in {at[w].step, at[w].step + 1}
<1>1. TypeOK /\ Standing(w) /\ ~Elided(x.stage) /\ x.stage \in Stage
  BY TaskFields DEF IInv, Standing
<1> DEFINE o == OwnerOf(x)
           s == x.stage
           k == at[w].step
<1>2. o \in Worker
  BY Deal
<1>3. Left(w, s) <= Walked(o, s) /\ Left(o, s) <= Walked(w, s)
  BY <1>1, <1>2, Apart
<1>4. Left(w, s) = k /\ Walked(w, s) = k /\ k \in Nat
  <2>1. k \in Nat /\ s \in Nat /\ at[w].stage = s /\ pc[w] \notin Gone
    BY <1>1, WorkerFields, StageOrder DEF Busy, Gone
  <2>2. QED
    BY <2>1 DEF Left, Walked, Past
<1>5. /\ Ran(x) \in Nat /\ Drew(x) \in Nat /\ Drew(x) <= Ran(x)
      /\ Walked(o, s) <= Drew(x) /\ Ran(x) <= Left(o, s) + 1
  BY <1>1, PastTaskOrder
<1>6. Walked(o, s) \in Nat /\ Left(o, s) \in Nat
  BY <1>1, <1>2, PastOrder
<1> HIDE DEF o, s, k
<1>7. QED
  BY <1>3, <1>4, <1>5, <1>6 DEF k

-----------------------------------------------------------------------------
(***************************************************************************)
(* What a step leaves alone.                                               *)
(***************************************************************************)
LEMMA BuildSame ==
    ASSUME build' = build
    PROVE  /\ Party' = Party /\ Parties' = Parties
           /\ Clustered' = Clustered /\ Meeting' = Meeting
           /\ RedBarrier' = RedBarrier /\ ClusterDim' = ClusterDim /\ Clusters' = Clusters
BY DEF Party, Parties, Clustered, Meeting, RedBarrier, ClusterDim, Clusters, Rank

LEMMA StandingSame ==
    ASSUME NEW v \in Worker, Standing(v),
           at'[v] = at[v], pc'[v] = pc[v], cur'[v] = cur[v],
           UNCHANGED <<build, status, steps>>
    PROVE  Standing(v)'
BY BuildSame DEF Standing, Busy, Addressed

\* The counters of a barrier stand, CTAs arrive or get past it.
LEMMA BarrierKeeps ==
    ASSUME NEW s \in Stage, BarrierInv(s),
           UNCHANGED <<build, status, iteration>>,
           arrivals'[s] = arrivals[s],
           status = "idle" => epoch'[s] = epoch[s],
           \A k \in Nat : epoch'[s] >= iteration + k + 1 =>
              epoch[s] >= iteration + k + 1 \/ \A v \in Party : Arrived(v, s) >= k + 1,
           \A v \in Party : /\ Arrived(v, s) \in Nat /\ Arrived(v, s)' \in Nat
                            /\ Arrived(v, s) <= Arrived(v, s)'
                            /\ Meeting => Arrived(v, s)' = Arrived(v, s),
           \A v, w \in Party : Freed(w, s)' <= Arrived(v, s)',
           \A w \in Worker : pc'[w] = "publish" /\ at'[w].stage = s =>
              pc[w] = "publish" /\ at[w].stage = s /\ at'[w].step = at[w].step,
           \A w \in Worker : at[w].step \in Nat
    PROVE  BarrierInv(s)'
<1>1. Party' = Party /\ Parties' = Parties /\ Meeting' = Meeting /\ Party \subseteq Worker
  BY BuildSame DEF Party
<1>2. ASSUME status = "launched", Meeting
      PROVE  Tally(Party, ArrivedAt(s), arrivals[s], Parties, iteration)'
  <2>1. Tally(Party, ArrivedAt(s), arrivals[s], Parties, iteration)
    BY <1>2 DEF BarrierInv
  <2>2. \A v \in Party : ArrivedAt(s)'[v] = ArrivedAt(s)[v]
    BY <1>1, <1>2 DEF ArrivedAt
  <2>3. Tally(Party, ArrivedAt(s)', arrivals[s], Parties, iteration)
    BY <2>1, <2>2, TallySame
  <2>4. QED
    BY <1>1, <2>3
<1>3. ASSUME NEW k \in Nat, epoch'[s] >= iteration + k + 1, status = "launched", NEW v \in Party
      PROVE  Arrived(v, s)' >= k + 1
  <2>1. Arrived(v, s) >= k + 1
    BY <1>3 DEF BarrierInv
  <2>2. QED
    BY <2>1
<1>4. ASSUME status = "idle"
      PROVE  (Meeting => arrivals[s] = Parties * iteration) /\ epoch[s] <= iteration
  BY <1>4 DEF BarrierInv
<1>5. ASSUME NEW w \in Worker, pc'[w] = "publish", at'[w].stage = s, NEW v \in Party
      PROVE  Arrived(v, s)' >= at'[w].step + 1
  <2>1. Arrived(v, s) >= at[w].step + 1 /\ at'[w].step = at[w].step
    BY <1>5 DEF BarrierInv
  <2>2. QED
    BY <2>1
<1>6. (\A v, w \in Party : Freed(w, s) <= Arrived(v, s))'
  BY <1>1
<1>7. (\A k \in Nat : epoch[s] >= iteration + k + 1 =>
                \A v \in Party : Arrived(v, s) >= k + 1)' \/ status # "launched"
  BY <1>1, <1>3
<1>8. (\A w \in Worker : pc[w] = "publish" /\ at[w].stage = s =>
          \A v \in Party : Arrived(v, s) >= at[w].step + 1)'
  BY <1>1, <1>5
<1>9. (Meeting => arrivals[s] = Parties * iteration)' \/ status # "idle"
  BY <1>1, <1>4
<1>10. QED
  BY <1>1, <1>2, <1>4, <1>6, <1>7, <1>8, <1>9 DEF BarrierInv

\* A CTA works on inside its stage.
Working == {"task", "run", "handoff", "reduce"}

LEMMA LocalStep ==
    ASSUME IInv, NEW w \in Worker, pc[w] \in Working, pc'[w] \in Working,
           at'[w].step = at[w].step, at'[w].stage = at[w].stage,
           \A v \in Worker \ {w} : at'[v] = at[v] /\ pc'[v] = pc[v],
           UNCHANGED <<build, status, iteration, arrivals, epoch>>
    PROVE  /\ (\A u, v \in Worker : InCluster(u, v))'
           /\ (\A s \in Stage : ~Elided(s) => BarrierInv(s))'
<1>1. \A v \in Worker : at'[v].step = at[v].step /\ at'[v].stage = at[v].stage
  OBVIOUS
<1>2. \A v \in Worker : pc'[v] = pc[v] \/ (pc[v] \in Working /\ pc'[v] \in Working)
  OBVIOUS
<1>3. ASSUME NEW u \in Worker, NEW v \in Worker
      PROVE  InCluster(u, v)'
  <2>1. InCluster(u, v)
    BY DEF IInv
  <2>2. /\ pc'[u] \in {"gathered", "publish", "wait"} <=> pc[u] \in {"gathered", "publish", "wait"}
        /\ pc'[u] = "scatter" <=> pc[u] = "scatter"
        /\ pc'[v] \in Gone <=> pc[v] \in Gone
    BY <1>2 DEF Working, Gone
  <2>3. QED
    BY <1>1, <2>1, <2>2, BuildSame DEF InCluster
<1>4. ASSUME NEW s \in Stage, ~Elided(s)
      PROVE  BarrierInv(s)'
  <2>1. TypeOK /\ BarrierInv(s)
    BY <1>4 DEF IInv
  <2>2. \A v \in Worker : Freed(v, s)' = Freed(v, s) /\ Arrived(v, s)' = Arrived(v, s)
    BY <1>1, <1>2 DEF Freed, Arrived, Past, Working
  <2>3. \A v \in Worker : Freed(v, s) \in Nat /\ Arrived(v, s) \in Nat /\ at[v].step \in Nat
    BY <2>1, PastOrder, WorkerFields
  <2>4. Party \subseteq Worker
    BY DEF Party
  <2>5. \A u, v \in Party : Freed(v, s) <= Arrived(u, s)
    BY <2>1 DEF BarrierInv
  <2>6. QED
    BY <1>1, <1>2, <2>1, <2>2, <2>3, <2>4, <2>5, BarrierKeeps DEF Working
<1>5. QED
  BY <1>3, <1>4

\* A CTA that stays at its ordinal passes at most the task there.
LEMMA StayTask ==
    ASSUME TypeOK, NEW w \in Worker, NEW x \in Task, NEW here,
           at'[w] = at[w],
           \A v \in Worker \ {w} : at'[v] = at[v] /\ pc'[v] = pc[v]
    PROVE  PastTask(x, here)' =
              IF Here(x, w) THEN at[w].step + (IF pc'[w] \in here THEN 1 ELSE 0)
              ELSE PastTask(x, here)
<1>1. OwnerOf(x) \in Worker /\ OrdinalOf(x) \in Nat /\ x.stage \in Nat
  BY Deal, TaskFields, StageOrder
<1>2. at[w].ordinal \in Nat /\ at[w].stage \in Nat
  BY WorkerFields, StageOrder
<1>3. CASE Here(x, w)
  BY <1>1, <1>2, <1>3 DEF PastTask, Here
<1>4. CASE OwnerOf(x) # w
  BY <1>1, <1>4 DEF PastTask, Here
<1>5. CASE OwnerOf(x) = w /\ ~Here(x, w)
  BY <1>5 DEF PastTask, Here
<1>6. QED
  BY <1>3, <1>4, <1>5

LEMMA SameClass ==
    ASSUME NEW g \in Nat \ {0}, NEW a \in Nat, NEW b \in Nat, a < b, a % g = b % g
    PROVE  a + g <= b
<1> DEFINE p == a \div g
           q == b \div g
           r == a % g
<1>1. p \in Nat /\ q \in Nat /\ r \in Nat
  <2>1. r \in 0 .. (g - 1)
    BY Division
  <2>2. p \in Nat /\ q \in Nat
    BY Division
  <2> HIDE DEF p, q, r
  <2>3. QED
    BY <2>1, <2>2
<1>2. a = p * g + r /\ b = q * g + r
  BY Division
<1> HIDE DEF p, q, r
<1>3. p * g \in Nat /\ q * g \in Nat
  BY <1>1
<1>4. p < q
  <2>1. CASE p >= q
    <3>1. p * g >= q * g
      BY <1>1, <2>1, SMT
    <3>2. QED
      BY <1>1, <1>2, <1>3, <3>1
  <2>2. QED
    BY <1>1, <2>1
<1>5. p * g + g <= q * g
  BY <1>1, <1>4, ProductBelow
<1>6. QED
  BY <1>1, <1>2, <1>3, <1>5

\* A CTA that strides passes the task it stood at, and no other of its share.
LEMMA StrideTask ==
    ASSUME TypeOK, NEW w \in Worker, Standing(w), NEW x \in Task, NEW here, "task" \notin here,
           at'[w].step = at[w].step, at'[w].stage = at[w].stage,
           at'[w].ordinal = at[w].ordinal + Grid, pc'[w] = "task",
           \A v \in Worker \ {w} : at'[v] = at[v] /\ pc'[v] = pc[v]
    PROVE  PastTask(x, here)' =
              IF Here(x, w) THEN at[w].step + 1 ELSE PastTask(x, here)
<1>1. OwnerOf(x) \in Worker /\ OrdinalOf(x) \in Nat /\ x.stage \in Nat
      /\ FirstOrdinal(x.stage, OwnerOf(x)) = OrdinalOf(x) % Grid
  BY Deal, TaskFields, StageOrder
<1>2. at[w].ordinal \in Nat /\ at[w].stage \in Nat /\ Grid \in Nat \ {0}
  BY WorkerFields, StageOrder, L1Assumption
<1>3. CASE Here(x, w)
  BY <1>1, <1>2, <1>3 DEF PastTask, Here
<1>4. CASE OwnerOf(x) # w
  BY <1>1, <1>4 DEF PastTask, Here
<1>5. CASE OwnerOf(x) = w /\ at[w].stage # x.stage
  BY <1>5 DEF PastTask, Here
<1>6. CASE OwnerOf(x) = w /\ at[w].stage = x.stage /\ at[w].ordinal # OrdinalOf(x)
  <2>1. at[w].ordinal % Grid = OrdinalOf(x) % Grid
    BY <1>1, <1>6 DEF Standing
  <2>2. at[w].ordinal < OrdinalOf(x) => at[w].ordinal + Grid <= OrdinalOf(x)
    BY <1>1, <1>2, <2>1, SameClass
  <2>3. QED
    BY <1>1, <1>2, <1>6, <2>2 DEF PastTask, Here
<1>7. QED
  BY <1>3, <1>4, <1>5, <1>6 DEF Here

\* The task a CTA stands at, in the two counts the proof needs.
LEMMA CountsHere ==
    ASSUME TypeOK, NEW w \in Worker, NEW x \in Task, Here(x, w)
    PROVE  /\ Ran(x) = at[w].step + (IF pc[w] \in {"handoff", "reduce"} THEN 1 ELSE 0)
           /\ Drew(x) = at[w].step + (IF pc[w] \in {"reduce"} THEN 1 ELSE 0)
<1>1. OrdinalOf(x) \in Nat /\ x.stage \in Nat
  BY Deal, TaskFields, StageOrder
<1>2. OwnerOf(x) = w /\ at[w].stage = x.stage /\ at[w].ordinal = OrdinalOf(x)
  BY DEF Here
<1>3. QED
  BY <1>1, <1>2 DEF Ran, Drew, PastTask

LEMMA CountsStay ==
    ASSUME TypeOK, NEW w \in Worker, NEW x \in Task,
           at'[w] = at[w],
           \A v \in Worker \ {w} : at'[v] = at[v] /\ pc'[v] = pc[v]
    PROVE  /\ Ran(x)' = IF Here(x, w)
                        THEN at[w].step + (IF pc'[w] \in {"handoff", "reduce"} THEN 1 ELSE 0)
                        ELSE Ran(x)
           /\ Drew(x)' = IF Here(x, w)
                         THEN at[w].step + (IF pc'[w] \in {"reduce"} THEN 1 ELSE 0)
                         ELSE Drew(x)
<1>1. ASSUME NEW here
      PROVE  PastTask(x, here)' =
                IF Here(x, w) THEN at[w].step + (IF pc'[w] \in here THEN 1 ELSE 0)
                ELSE PastTask(x, here)
  BY StayTask
<1>2. Ran(x)' = IF Here(x, w)
                THEN at[w].step + (IF pc'[w] \in {"handoff", "reduce"} THEN 1 ELSE 0)
                ELSE Ran(x)
  BY <1>1 DEF Ran
<1>3. Drew(x)' = IF Here(x, w)
                 THEN at[w].step + (IF pc'[w] \in {"reduce"} THEN 1 ELSE 0)
                 ELSE Drew(x)
  BY <1>1 DEF Drew
<1>4. QED
  BY <1>2, <1>3

LEMMA CountsStride ==
    ASSUME TypeOK, NEW w \in Worker, Standing(w), NEW x \in Task,
           at'[w].step = at[w].step, at'[w].stage = at[w].stage,
           at'[w].ordinal = at[w].ordinal + Grid, pc'[w] = "task",
           \A v \in Worker \ {w} : at'[v] = at[v] /\ pc'[v] = pc[v]
    PROVE  /\ Ran(x)' = IF Here(x, w) THEN at[w].step + 1 ELSE Ran(x)
           /\ Drew(x)' = IF Here(x, w) THEN at[w].step + 1 ELSE Drew(x)
<1>1. ASSUME NEW here, "task" \notin here
      PROVE  PastTask(x, here)' =
                IF Here(x, w) THEN at[w].step + 1 ELSE PastTask(x, here)
  BY <1>1, StrideTask
<1>2. Ran(x)' = IF Here(x, w) THEN at[w].step + 1 ELSE Ran(x)
  BY <1>1 DEF Ran
<1>3. Drew(x)' = IF Here(x, w) THEN at[w].step + 1 ELSE Drew(x)
  BY <1>1 DEF Drew
<1>4. QED
  BY <1>2, <1>3

\* A reduction none of whose partials moves.
LEMMA TicketKeeps ==
    ASSUME NEW y \in Output, TicketInv(y),
           UNCHANGED <<status, iteration>>,
           ticket'[y] = ticket[y], ended'[y] = ended[y],
           \A x \in Parts(y) : Drew(x)' = Drew(x),
           \A w \in Worker : Reducing(w, y)' => Reducing(w, y) /\ at'[w].step = at[w].step,
           \A w \in Worker : Reducing(w, y) => Reducing(w, y)'
    PROVE  TicketInv(y)'
<1>1. ASSUME NEW s \in Stage, HandoffReduce[s] = y.stage, status = "launched"
      PROVE  Tally(Parts(y), DrewAt(y), ticket[y], Producers[s], iteration)'
  <2>1. Tally(Parts(y), DrewAt(y), ticket[y], Producers[s], iteration)
    BY <1>1 DEF TicketInv
  <2>2. \A x \in Parts(y) : DrewAt(y)'[x] = DrewAt(y)[x]
    BY DEF DrewAt
  <2>3. Tally(Parts(y), DrewAt(y)', ticket[y], Producers[s], iteration)
    BY <2>1, <2>2, TallySame
  <2>4. QED
    BY <2>3
<1>2. ASSUME NEW s \in Stage, HandoffReduce[s] = y.stage, status = "idle"
      PROVE  ticket[y] = Producers[s] * iteration
  BY <1>2 DEF TicketInv
<1>3. ASSUME NEW k \in Nat
      PROVE  ((\A x \in Parts(y) : Drew(x) >= k + 1) <=>
                \/ ended[y] >= k + 1
                \/ ended[y] >= k /\ \E w \in Worker : Reducing(w, y))'
  <2>1. (\A x \in Parts(y) : Drew(x) >= k + 1) <=>
              \/ ended[y] >= k + 1
              \/ ended[y] >= k /\ \E w \in Worker : Reducing(w, y)
    BY DEF TicketInv
  <2>2. (\E w \in Worker : Reducing(w, y))' <=> \E w \in Worker : Reducing(w, y)
    OBVIOUS
  <2>3. QED
    BY <2>1, <2>2
<1>4. (\A w \in Worker : Reducing(w, y) => ended[y] = at[w].step)'
  BY DEF TicketInv
<1>5. (\A v, w \in Worker : Reducing(v, y) /\ Reducing(w, y) => v = w)'
  BY DEF TicketInv
<1>6. QED
  BY <1>1, <1>2, <1>3, <1>4, <1>5 DEF TicketInv

-----------------------------------------------------------------------------
(***************************************************************************)
(* The steps inside a stage.                                               *)
(***************************************************************************)
LEMMA LocalInv ==
    ASSUME IInv, NEW w \in Worker, pc[w] \in Working, pc'[w] \in Working,
           at'[w].step = at[w].step, at'[w].stage = at[w].stage,
           \A v \in Worker \ {w} : at'[v] = at[v] /\ pc'[v] = pc[v] /\ cur'[v] = cur[v],
           UNCHANGED <<build, status, iteration, steps, arrivals, epoch>>,
           TypeOK', Standing(w)', EndedInv', (\A y \in Output : TicketInv(y))'
    PROVE  IInv'
<1>1. /\ (\A u, v \in Worker : InCluster(u, v))'
      /\ (\A s \in Stage : ~Elided(s) => BarrierInv(s))'
  BY LocalStep
<1>2. ASSUME NEW v \in Worker, v # w
      PROVE  Standing(v)'
  <2>1. Standing(v) /\ at'[v] = at[v] /\ pc'[v] = pc[v] /\ cur'[v] = cur[v]
    BY <1>2 DEF IInv
  <2>2. QED
    BY <2>1, StandingSame
<1>3. (\A v \in Worker : Standing(v))'
  BY <1>2
<1>4. QED
  BY <1>1, <1>3 DEF IInv

\* What a CTA between two barriers knows of itself.
LEMMA AtWork ==
    ASSUME IInv, NEW w \in Worker, pc[w] \in Working
    PROVE  /\ TypeOK /\ Standing(w) /\ status = "launched"
           /\ at[w].step \in Nat /\ at[w].stage \in Stage /\ at[w].ordinal \in Nat
           /\ at[w].stage \in Nat /\ ~Elided(at[w].stage)
           /\ Grid \in Nat \ {0}
           /\ (at[w].ordinal + Grid) % Grid = at[w].ordinal % Grid
<1>1. TypeOK /\ Standing(w)
  BY DEF IInv
<1>2. /\ at[w].step \in Nat /\ at[w].stage \in Stage /\ at[w].ordinal \in Nat
      /\ at[w].stage \in Nat /\ Grid \in Nat \ {0}
  BY <1>1, WorkerFields, StageOrder, L1Assumption
<1>3. status = "launched" /\ ~Elided(at[w].stage)
  BY <1>1 DEF Standing, Working, TypeOK
<1>4. (at[w].ordinal + Grid) % Grid = at[w].ordinal % Grid
  <2> DEFINE o == at[w].ordinal
             q == o \div Grid
             r == o % Grid
  <2>1. q \in Nat /\ r \in 0 .. (Grid - 1) /\ o = q * Grid + r
    BY <1>2, Division
  <2> HIDE DEF o, q, r
  <2>2. q * Grid \in Nat /\ (q + 1) * Grid = q * Grid + Grid
    BY <1>2, <2>1, SMT
  <2>3. o + Grid = (q + 1) * Grid + r /\ q + 1 \in Nat
    BY <1>2, <2>1, <2>2
  <2>4. (o + Grid) % Grid = r
    BY <1>2, <2>1, <2>3, DivisionUnique
  <2>5. QED
    BY <2>4 DEF o, r
<1>5. QED
  BY <1>1, <1>2, <1>3, <1>4

LEMMA StartStep ==
    ASSUME IInv, NEW w \in Worker, StartTask(w)
    PROVE  IInv'
<1>1. /\ pc[w] = "task" /\ at[w].ordinal < ServingL1TaskLimit(at[w].stage)
      /\ Addressed(w) \in Task
      /\ pc' = [pc EXCEPT ![w] = "run"] /\ cur' = [cur EXCEPT ![w] = Addressed(w)]
      /\ UNCHANGED <<build, status, iteration, steps, at, arrivals, epoch, ticket, ended>>
  BY DEF StartTask, InStage, counterVars
<1>2. TypeOK /\ Standing(w) /\ status = "launched" /\ at[w].step \in Nat
  BY <1>1, AtWork DEF Working
<1>3. TypeOK'
  BY <1>1, <1>2 DEF TypeOK
<1>4. pc'[w] = "run" /\ cur'[w] = Addressed(w)
      /\ \A v \in Worker \ {w} : at'[v] = at[v] /\ pc'[v] = pc[v] /\ cur'[v] = cur[v]
  BY <1>1, <1>2 DEF TypeOK
<1>5. Standing(w)'
  BY <1>1, <1>2, <1>4 DEF Standing, Busy, Gone, Addressed
<1>6. ASSUME NEW x \in Task
      PROVE  Ran(x)' = Ran(x) /\ Drew(x)' = Drew(x)
  <2>1. at'[w] = at[w] /\ pc[w] = "task"
    BY <1>1
  <2>2. /\ Ran(x)' = IF Here(x, w) THEN at[w].step + 0 ELSE Ran(x)
        /\ Drew(x)' = IF Here(x, w) THEN at[w].step + 0 ELSE Drew(x)
    BY <1>2, <1>4, <2>1, CountsStay
  <2>3. Here(x, w) => Ran(x) = at[w].step + 0 /\ Drew(x) = at[w].step + 0
    BY <1>2, <2>1, CountsHere
  <2>4. QED
    BY <1>2, <2>2, <2>3
<1>7. EndedInv'
  BY <1>1, <1>6 DEF IInv, EndedInv
<1>8. ASSUME NEW y \in Output
      PROVE  TicketInv(y)'
  <2>1. TicketInv(y) /\ Parts(y) \subseteq Task
    BY DEF IInv, Parts
  <2>2. \A v \in Worker : Reducing(v, y)' <=> Reducing(v, y)
    BY <1>1, <1>4 DEF Reducing
  <2>3. QED
    BY <1>1, <1>6, <2>1, <2>2, TicketKeeps
<1>9. QED
  BY <1>1, <1>3, <1>4, <1>5, <1>7, <1>8, LocalInv DEF Working

LEMMA SkipStep ==
    ASSUME IInv, NEW w \in Worker, SkipPadding(w)
    PROVE  IInv'
<1>1. /\ pc[w] = "task" /\ at[w].ordinal < ServingL1TaskLimit(at[w].stage)
      /\ Addressed(w) \notin Task
      /\ at' = [at EXCEPT ![w].ordinal = @ + Grid]
      /\ UNCHANGED <<build, status, iteration, steps, pc, cur, arrivals, epoch, ticket, ended>>
  BY DEF SkipPadding, InStage, Stride, counterVars
<1>2. /\ TypeOK /\ Standing(w) /\ status = "launched"
      /\ at[w].step \in Nat /\ at[w].stage \in Stage /\ at[w].ordinal \in Nat /\ Grid \in Nat \ {0}
      /\ (at[w].ordinal + Grid) % Grid = at[w].ordinal % Grid
  BY <1>1, AtWork DEF Working
<1>3. TypeOK'
  BY <1>1, <1>2 DEF TypeOK
<1>4. /\ at'[w].step = at[w].step /\ at'[w].stage = at[w].stage
      /\ at'[w].ordinal = at[w].ordinal + Grid /\ pc'[w] = "task"
      /\ \A v \in Worker \ {w} : at'[v] = at[v] /\ pc'[v] = pc[v] /\ cur'[v] = cur[v]
  BY <1>1, <1>2 DEF TypeOK
<1>5. Standing(w)'
  BY <1>1, <1>2, <1>4 DEF Standing, Busy, Gone
<1>6. ASSUME NEW x \in Task
      PROVE  Ran(x)' = Ran(x) /\ Drew(x)' = Drew(x)
  <2>1. ~Here(x, w)
    BY <1>1, <1>2, HereAddressed
  <2>2. QED
    BY <1>2, <1>4, <2>1, CountsStride
<1>7. EndedInv'
  BY <1>1, <1>6 DEF IInv, EndedInv
<1>8. ASSUME NEW y \in Output
      PROVE  TicketInv(y)'
  <2>1. TicketInv(y) /\ Parts(y) \subseteq Task
    BY DEF IInv, Parts
  <2>2. \A v \in Worker : Reducing(v, y)' <=> Reducing(v, y)
    BY <1>1 DEF Reducing
  <2>3. \A v \in Worker : Reducing(v, y) => at'[v].step = at[v].step
    BY <1>1, <1>4
  <2>4. QED
    BY <1>1, <1>6, <2>1, <2>2, <2>3, TicketKeeps
<1>9. QED
  BY <1>1, <1>3, <1>4, <1>5, <1>7, <1>8, LocalInv DEF Working

\* What a CTA holds while it runs a task or draws its ticket.
LEMMA AtTask ==
    ASSUME IInv, NEW w \in Worker, pc[w] \in {"run", "handoff"}
    PROVE  /\ cur[w] = Addressed(w) /\ cur[w] \in Task /\ cur[w].stage = at[w].stage
           /\ ~Elided(cur[w].stage) /\ cur[w] \notin Output
           /\ \A x \in Task : Here(x, w) <=> x = cur[w]
<1>1. TypeOK /\ Standing(w) /\ Busy(w)
  BY DEF IInv, Busy
<1>2. /\ cur[w] = Addressed(w) /\ cur[w] \in Task /\ ~Elided(at[w].stage)
      /\ at[w].ordinal < ServingL1TaskLimit(at[w].stage)
  BY <1>1 DEF Standing
<1>3. cur[w].stage = at[w].stage
  BY <1>2 DEF Addressed
<1>4. \A x \in Task : Here(x, w) <=> x = cur[w]
  BY <1>1, <1>2, HereAddressed
<1>5. QED
  BY <1>2, <1>3, <1>4 DEF Output

LEMMA RunStep ==
    ASSUME IInv, NEW w \in Worker, RunTask(w)
    PROVE  IInv'
<1>1. /\ pc[w] = "run"
      /\ ended' = [ended EXCEPT ![cur[w]] = @ + 1]
      /\ \/ /\ HandoffReduce[at[w].stage] = NoStage
            /\ pc' = [pc EXCEPT ![w] = "task"]
            /\ at' = [at EXCEPT ![w].ordinal = @ + Grid]
         \/ /\ HandoffReduce[at[w].stage] # NoStage
            /\ pc' = [pc EXCEPT ![w] = "handoff"]
            /\ at' = at
      /\ UNCHANGED <<build, status, iteration, steps, cur, arrivals, epoch, ticket>>
  BY DEF RunTask, EndBody, Stride, counterVars
<1>2. /\ TypeOK /\ Standing(w) /\ status = "launched"
      /\ at[w].step \in Nat /\ at[w].stage \in Stage /\ at[w].ordinal \in Nat /\ Grid \in Nat \ {0}
      /\ (at[w].ordinal + Grid) % Grid = at[w].ordinal % Grid
  BY <1>1, AtWork DEF Working
<1>3. /\ cur[w] = Addressed(w) /\ cur[w] \in Task /\ cur[w].stage = at[w].stage
      /\ ~Elided(cur[w].stage) /\ cur[w] \notin Output
      /\ \A x \in Task : Here(x, w) <=> x = cur[w]
  BY <1>1, AtTask
<1>4. TypeOK'
  <2>1. ended' \in [Task -> Nat]
    BY <1>1, <1>2, <1>3 DEF TypeOK
  <2>2. at' \in [Worker -> [step : Nat, stage : Stage, ordinal : Nat]]
    <3>1. at \in [Worker -> [step : Nat, stage : Stage, ordinal : Nat]]
      BY <1>2 DEF TypeOK
    <3>2. CASE at' = [at EXCEPT ![w].ordinal = @ + Grid]
      BY <1>2, <3>1, <3>2
    <3>3. QED
      BY <1>1, <3>1, <3>2
  <2>3. pc' \in [Worker -> Working \cup {"done"} \cup Gone]
    BY <1>1, <1>2 DEF TypeOK, Working
  <2>4. QED
    BY <1>1, <1>2, <2>1, <2>2, <2>3 DEF TypeOK, Working
<1>5. /\ at'[w].step = at[w].step /\ at'[w].stage = at[w].stage
      /\ \A v \in Worker \ {w} : at'[v] = at[v] /\ pc'[v] = pc[v] /\ cur'[v] = cur[v]
      /\ \/ /\ HandoffReduce[at[w].stage] = NoStage
            /\ pc'[w] = "task" /\ at'[w].ordinal = at[w].ordinal + Grid
         \/ HandoffReduce[at[w].stage] # NoStage /\ pc'[w] = "handoff" /\ at'[w] = at[w]
  BY <1>1, <1>2 DEF TypeOK
<1>6. Standing(w)'
  <2>1. CASE pc'[w] = "task"
    BY <1>1, <1>2, <1>5, <2>1 DEF Standing, Busy, Gone
  <2>2. CASE pc'[w] = "handoff"
    BY <1>1, <1>2, <1>3, <1>5, <2>2 DEF Standing, Busy, Gone, Addressed
  <2>3. QED
    BY <1>5, <2>1, <2>2
<1>7. ASSUME NEW x \in Task
      PROVE  /\ Ran(x)' = IF x = cur[w] THEN Ran(x) + 1 ELSE Ran(x)
             /\ HandoffReduce[x.stage] # NoStage => Drew(x)' = Drew(x)
  <2>1. Here(x, w) <=> x = cur[w]
    BY <1>3
  <2>2. Here(x, w) => Ran(x) = at[w].step + 0 /\ Drew(x) = at[w].step + 0
    BY <1>1, <1>2, CountsHere
  <2>3. CASE pc'[w] = "task"
    <3>1. /\ Ran(x)' = IF Here(x, w) THEN at[w].step + 1 ELSE Ran(x)
          /\ Drew(x)' = IF Here(x, w) THEN at[w].step + 1 ELSE Drew(x)
      BY <1>2, <1>5, <2>3, CountsStride
    <3>2. Here(x, w) => HandoffReduce[x.stage] = NoStage
      BY <1>5, <2>3 DEF Here
    <3>3. QED
      BY <1>2, <2>1, <2>2, <3>1, <3>2
  <2>4. CASE pc'[w] = "handoff"
    <3>1. /\ Ran(x)' = IF Here(x, w) THEN at[w].step + 1 ELSE Ran(x)
          /\ Drew(x)' = IF Here(x, w) THEN at[w].step + 0 ELSE Drew(x)
      BY <1>2, <1>5, <2>4, CountsStay
    <3>2. QED
      BY <1>2, <2>1, <2>2, <3>1
  <2>5. QED
    BY <1>5, <2>3, <2>4
<1>8. EndedInv'
  <2> SUFFICES ASSUME NEW x \in Task, ~Elided(x.stage)
               PROVE  ended'[x] = Ran(x)'
    BY DEF EndedInv
  <2>1. ended[x] = Ran(x) /\ ended[x] \in Nat
    BY <1>2 DEF IInv, EndedInv, TypeOK
  <2>2. ended'[x] = IF x = cur[w] THEN ended[x] + 1 ELSE ended[x]
    BY <1>1, <1>2, <1>3 DEF TypeOK
  <2>3. QED
    BY <1>7, <2>1, <2>2
<1>9. ASSUME NEW y \in Output
      PROVE  TicketInv(y)'
  <2>1. TicketInv(y) /\ y \in Task /\ y # cur[w]
    BY <1>3 DEF IInv, Output
  <2>2. \A v \in Worker : Reducing(v, y)' <=> Reducing(v, y)
    BY <1>1, <1>5 DEF Reducing
  <2>3. \A v \in Worker : at'[v].step = at[v].step
    BY <1>5
  <2>4. ended'[y] = ended[y]
    BY <1>1, <1>2, <2>1 DEF TypeOK
  <2>5. \A x \in Parts(y) : Drew(x)' = Drew(x)
    BY <1>7 DEF Parts
  <2>6. QED
    BY <1>1, <2>1, <2>2, <2>3, <2>4, <2>5, TicketKeeps
<1>10. QED
  BY <1>1, <1>4, <1>5, <1>6, <1>8, <1>9, LocalInv DEF Working

\* While w draws, the counter is in the epoch of its step.
LEMMA TicketInEpoch ==
    ASSUME IInv, NEW w \in Worker, pc[w] = "handoff"
    PROVE  LET y == HandoffOutput(cur[w])
           IN  /\ y \in Output /\ cur[w] \in Parts(y)
               /\ HandoffReduce[at[w].stage] = y.stage
               /\ IsFiniteSet(Parts(y)) /\ Cardinality(Parts(y)) = Producers[at[w].stage]
               /\ Producers[at[w].stage] \in Nat
               /\ Tally(Parts(y), DrewAt(y), ticket[y], Producers[at[w].stage], iteration)
               /\ Drew(cur[w]) = at[w].step
               /\ \A x \in Parts(y) : Drew(x) \in {at[w].step, at[w].step + 1}
<1> DEFINE y == HandoffOutput(cur[w])
           s == at[w].stage
<1>1. /\ TypeOK /\ Standing(w) /\ status = "launched" /\ at[w].step \in Nat /\ s \in Stage
  BY AtWork DEF Working
<1>2. /\ cur[w] \in Task /\ cur[w].stage = s /\ Here(cur[w], w)
  BY AtTask
<1>3. HandoffReduce[s] # NoStage
  BY <1>1 DEF Standing
<1>4. y \in Output /\ cur[w] \in Parts(y)
  BY <1>2, <1>3, OutputOfPart
<1>5. HandoffReduce[s] = y.stage
  BY <1>2 DEF HandoffOutput
<1>6. /\ IsFiniteSet(Parts(y)) /\ Cardinality(Parts(y)) = Producers[s]
      /\ Producers[s] \in Nat /\ Parts(y) \subseteq TasksOf(s)
  BY <1>1, <1>4, <1>5, OutputFields
<1>7. Tally(Parts(y), DrewAt(y), ticket[y], Producers[s], iteration)
  BY <1>1, <1>4, <1>5 DEF IInv, TicketInv
<1>8. Drew(cur[w]) = at[w].step
  <2>1. Drew(cur[w]) = at[w].step + 0
    BY <1>1, <1>2, CountsHere
  <2>2. QED
    BY <1>1, <2>1
<1>9. ASSUME NEW x \in Parts(y)
      PROVE  Drew(x) \in {at[w].step, at[w].step + 1}
  <2>1. x \in Task /\ x.stage = s
    BY <1>6 DEF TasksOf
  <2>2. QED
    BY <2>1, DrawnTogether DEF Busy
<1>10. QED
  BY <1>4, <1>5, <1>6, <1>7, <1>8, <1>9

LEMMA HandoffStep ==
    ASSUME IInv, NEW w \in Worker, Handoff(w)
    PROVE  IInv'
<1>1. HandoffOutput(cur[w]) \in Output
  BY TicketInEpoch DEF Handoff
<1>2. PICK y \in Output : y = HandoffOutput(cur[w])
  BY <1>1
<1>3. at[w].stage \in Stage /\ at[w].step \in Nat
  BY AtWork DEF Handoff, Working
<1>4. PICK s \in Stage, k \in Nat : s = at[w].stage /\ k = at[w].step
  BY <1>3
<1>5. /\ pc[w] = "handoff"
      /\ ticket' = [ticket EXCEPT ![y] = @ + 1]
      /\ \/ /\ LastArriver(w)
            /\ pc' = [pc EXCEPT ![w] = "reduce"]
            /\ cur' = [cur EXCEPT ![w] = y]
            /\ at' = at
         \/ /\ ~LastArriver(w)
            /\ pc' = [pc EXCEPT ![w] = "task"]
            /\ at' = [at EXCEPT ![w].ordinal = @ + Grid]
            /\ cur' = cur
      /\ UNCHANGED <<build, status, iteration, steps, arrivals, epoch, ended>>
  BY <1>2 DEF Handoff, Stride
<1>6. /\ TypeOK /\ Standing(w) /\ status = "launched"
      /\ at[w].step \in Nat /\ at[w].stage \in Stage /\ at[w].ordinal \in Nat /\ Grid \in Nat \ {0}
      /\ (at[w].ordinal + Grid) % Grid = at[w].ordinal % Grid
  BY <1>5, AtWork DEF Working
<1>7. /\ cur[w] = Addressed(w) /\ cur[w] \in Task /\ cur[w].stage = at[w].stage
      /\ \A x \in Task : Here(x, w) <=> x = cur[w]
  BY <1>5, AtTask
<1>8. /\ cur[w] \in Parts(y)
      /\ HandoffReduce[s] = y.stage
      /\ IsFiniteSet(Parts(y)) /\ Cardinality(Parts(y)) = Producers[s]
      /\ Producers[s] \in Nat
      /\ Tally(Parts(y), DrewAt(y), ticket[y], Producers[s], iteration)
      /\ Drew(cur[w]) = k
      /\ \A x \in Parts(y) : Drew(x) \in {k, k + 1}
  BY <1>5, <1>2, <1>4, TicketInEpoch
<1>9. y \in Task /\ ticket[y] \in Nat /\ iteration \in Nat
  BY <1>6 DEF Output, TypeOK
<1>10. TypeOK'
  <2>1. ticket' \in [Output -> Nat]
    BY <1>5, <1>6, <1>8 DEF TypeOK
  <2>2. at' \in [Worker -> [step : Nat, stage : Stage, ordinal : Nat]]
    <3>1. at \in [Worker -> [step : Nat, stage : Stage, ordinal : Nat]]
      BY <1>6 DEF TypeOK
    <3>2. CASE at' = [at EXCEPT ![w].ordinal = @ + Grid]
      BY <1>6, <3>1, <3>2
    <3>3. QED
      BY <1>5, <3>1, <3>2
  <2>3. pc' \in [Worker -> Working \cup {"done"} \cup Gone]
    BY <1>5, <1>6 DEF TypeOK, Working
  <2>4. cur' \in [Worker -> Task \cup {NoTask}]
    BY <1>5, <1>6, <1>9 DEF TypeOK
  <2>5. QED
    BY <1>5, <1>6, <2>1, <2>2, <2>3, <2>4 DEF TypeOK, Working
<1>11. /\ at'[w].step = at[w].step /\ at'[w].stage = at[w].stage
       /\ \A v \in Worker \ {w} : at'[v] = at[v] /\ pc'[v] = pc[v] /\ cur'[v] = cur[v]
       /\ \/ LastArriver(w) /\ pc'[w] = "reduce" /\ cur'[w] = y /\ at'[w] = at[w]
          \/ ~LastArriver(w) /\ pc'[w] = "task" /\ at'[w].ordinal = at[w].ordinal + Grid
  <2>1. w \in DOMAIN pc /\ w \in DOMAIN cur /\ w \in DOMAIN at
        /\ DOMAIN pc = Worker /\ DOMAIN cur = Worker /\ DOMAIN at = Worker
    BY <1>6 DEF TypeOK
  <2>2. CASE /\ LastArriver(w)
             /\ pc' = [pc EXCEPT ![w] = "reduce"]
             /\ cur' = [cur EXCEPT ![w] = y]
             /\ at' = at
    BY <2>1, <2>2
  <2>3. CASE /\ ~LastArriver(w)
             /\ pc' = [pc EXCEPT ![w] = "task"]
             /\ at' = [at EXCEPT ![w].ordinal = @ + Grid]
             /\ cur' = cur
    <3>1. at \in [Worker -> [step : Nat, stage : Stage, ordinal : Nat]]
      BY <1>6 DEF TypeOK
    <3>2. at'[w] = [at[w] EXCEPT !.ordinal = @ + Grid]
      BY <2>3, <3>1
    <3>3. at[w] \in [step : Nat, stage : Stage, ordinal : Nat]
      BY <3>1
    <3>4. /\ at'[w].step = at[w].step /\ at'[w].stage = at[w].stage
          /\ at'[w].ordinal = at[w].ordinal + Grid
      BY <3>2, <3>3
    <3>5. QED
      BY <2>1, <2>3, <3>4
  <2>4. QED
    BY <1>5, <2>2, <2>3
<1>12. Standing(w)'
  <2>1. CASE pc'[w] = "task"
    BY <1>5, <1>6, <1>11, <2>1 DEF Standing, Busy, Gone
  <2>2. CASE pc'[w] = "reduce"
    BY <1>5, <1>6, <1>7, <1>11, <1>2, <2>2 DEF Standing, Busy, Gone, Addressed
  <2>3. QED
    BY <1>11, <2>1, <2>2
<1>13. ASSUME NEW x \in Task
      PROVE  /\ Ran(x)' = Ran(x)
             /\ Drew(x)' = IF x = cur[w] THEN Drew(x) + 1 ELSE Drew(x)
  <2>1. Here(x, w) <=> x = cur[w]
    BY <1>7
  <2>2. Here(x, w) => Ran(x) = at[w].step + 1 /\ Drew(x) = at[w].step + 0
    BY <1>5, <1>6, CountsHere
  <2>3. /\ Ran(x)' = IF Here(x, w) THEN at[w].step + 1 ELSE Ran(x)
        /\ Drew(x)' = IF Here(x, w) THEN at[w].step + 1 ELSE Drew(x)
    <3>1. CASE pc'[w] = "task"
      BY <1>6, <1>11, <3>1, CountsStride
    <3>2. CASE pc'[w] = "reduce"
      BY <1>6, <1>11, <3>2, CountsStay
    <3>3. QED
      BY <1>11, <3>1, <3>2
  <2>4. QED
    BY <1>6, <2>1, <2>2, <2>3
<1>14. EndedInv'
  BY <1>5, <1>13 DEF IInv, EndedInv
<1>15. /\ Tally(Parts(y), DrewAt(y)', ticket[y] + 1, Producers[s], iteration)
       /\ ticket[y] + 1 = Producers[s] * (iteration + k + 1)
             <=> \A x \in Parts(y) : DrewAt(y)'[x] = k + 1
  <2>1. \A x \in Parts(y) : DrewAt(y)[x] = Drew(x) /\ DrewAt(y)'[x] = Drew(x)'
    BY DEF DrewAt
  <2>2. Parts(y) \subseteq Task
    BY DEF Parts
  <2>3. DrewAt(y)[cur[w]] = k /\ DrewAt(y)'[cur[w]] = k + 1
    BY <1>8, <1>13, <2>1, <2>2
  <2>4. \A x \in Parts(y) : x # cur[w] => DrewAt(y)'[x] = DrewAt(y)[x]
    BY <1>13, <2>1, <2>2
  <2>5. \A x \in Parts(y) : DrewAt(y)[x] \in {k, k + 1}
    BY <1>8, <2>1
  <2>6. PICK f, g, c, size, P :
            f = DrewAt(y) /\ g = DrewAt(y)' /\ c = ticket[y] /\ size = Producers[s] /\ P = Parts(y)
    OBVIOUS
  <2>7. PICK x : x = cur[w]
    OBVIOUS
  <2>8. Raises(P, f, g, x, k)
    BY <1>8, <2>3, <2>4, <2>5, <2>6, <2>7 DEF Raises
  <2>9. /\ IsFiniteSet(P) /\ Cardinality(P) = size /\ size \in Nat
        /\ Tally(P, f, c, size, iteration) /\ iteration \in Nat /\ c \in Nat
    BY <1>8, <1>9, <2>6
  <2>10. PICK target \in Nat : target = RoundTarget(size, iteration, k)
    BY <2>9 DEF RoundTarget
  <2>11. Tally(P, g, c + 1, size, iteration)
    BY <2>8, <2>9, <2>10, TallyStep
  <2>12. ASSUME AllPast(P, g, k)
         PROVE  c + 1 = target
    BY <2>8, <2>9, <2>10, <2>12, TallyStep
  <2>13. ASSUME c + 1 = target
         PROVE  AllPast(P, g, k)
    BY <2>8, <2>9, <2>10, <2>13, TallyStep
  <2>14. target = size * (iteration + k + 1)
    BY <2>10 DEF RoundTarget
  <2>15. c + 1 = size * (iteration + k + 1) <=> \A z \in P : g[z] = k + 1
    BY <2>12, <2>13, <2>14 DEF AllPast
  <2>16. QED
    BY <2>6, <2>11, <2>15
<1>16. LastArriver(w) <=> \A x \in Parts(y) : Drew(x)' = k + 1
  <2>1. LastArriver(w) <=> ticket[y] + 1 = Producers[s] * (iteration + k + 1)
    BY <1>2, <1>4 DEF LastArriver, TicketTarget, Iteration
  <2>2. QED
    BY <1>15, <2>1 DEF DrewAt
<1>17. TicketInv(y)'
  <2>1. TicketInv(y)
    BY <1>8 DEF IInv
  <2>2. ticket'[y] = ticket[y] + 1
    BY <1>5, <1>6, <1>8 DEF TypeOK
  <2>3. ASSUME NEW t \in Stage, HandoffReduce[t] = y.stage
        PROVE  Tally(Parts(y), DrewAt(y), ticket[y], Producers[t], iteration)'
    <3>1. t = s
      <4>1. HandoffReduce[s] # NoStage
        BY <1>8, <1>9, TaskFields DEF NoStage
      <4>2. QED
        BY <1>8, <2>3, <4>1, L1Assumption
    <3>2. Tally(Parts(y), DrewAt(y)', ticket'[y], Producers[t], iteration)
      BY <1>15, <2>2, <3>1
    <3>3. QED
      BY <1>5, <3>2
  <2>4. ended[y] \in Nat /\ k \in Nat /\ \A x \in Parts(y) : Drew(x) \in Nat
    BY <1>6, <1>8, <1>9 DEF TypeOK
  <2>5. \A v \in Worker : ~Reducing(v, y)
    <3> SUFFICES ASSUME NEW v \in Worker, Reducing(v, y)
                 PROVE  FALSE
      OBVIOUS
    <3>1. at[v].step = k
      BY <1>5, <1>4, BusyTogether DEF Reducing, Busy
    <3>2. ended[y] = k
      BY <2>1, <3>1 DEF TicketInv
    <3>3. \A x \in Parts(y) : Drew(x) >= k + 1
      BY <2>1, <2>4, <3>2 DEF TicketInv
    <3>4. QED
      BY <1>8, <2>4, <3>3
  <2>6. ended[y] = k
    <3>1. ASSUME ended[y] > k
          PROVE  FALSE
      <4>1. \A x \in Parts(y) : Drew(x) >= k + 1
        BY <2>1, <2>4, <3>1 DEF TicketInv
      <4>2. QED
        BY <1>8, <2>4, <4>1
    <3>2. ASSUME ended[y] < k
          PROVE  FALSE
      <4>1. (k - 1) \in Nat /\ \A x \in Parts(y) : Drew(x) >= (k - 1) + 1
        BY <1>8, <2>4, <3>2
      <4>2. ended[y] >= (k - 1) + 1
        BY <2>1, <2>5, <4>1 DEF TicketInv
      <4>3. QED
        BY <2>4, <3>2, <4>2
    <3>3. QED
      BY <2>4, <3>1, <3>2
  <2>7. \A v \in Worker : Reducing(v, y)' <=> v = w /\ LastArriver(w)
    BY <1>11, <2>5 DEF Reducing
  <2>8. ASSUME NEW n \in Nat
        PROVE  ((\A x \in Parts(y) : Drew(x) >= n + 1) <=>
                  \/ ended[y] >= n + 1
                  \/ ended[y] >= n /\ \E v \in Worker : Reducing(v, y))'
    <3>1. \A x \in Parts(y) : Drew(x)' \in {k, k + 1}
      BY <1>8, <1>13, <2>4 DEF Parts
    <3>2. (\A x \in Parts(y) : Drew(x)' >= n + 1) <=> n < k \/ (n = k /\ LastArriver(w))
      <4>1. CASE n < k
        BY <2>4, <3>1, <4>1
      <4>2. CASE n = k
        BY <1>16, <2>4, <3>1, <4>2
      <4>3. CASE n > k
        BY <1>8, <2>4, <3>1, <4>3
      <4>4. QED
        BY <2>4, <4>1, <4>2, <4>3
    <3>3. (\E v \in Worker : Reducing(v, y))' <=> LastArriver(w)
      BY <2>7
    <3>4. ended'[y] = k
      BY <1>5, <2>6
    <3>5. QED
      BY <2>4, <3>2, <3>3, <3>4
  <2>9. (\A v \in Worker : Reducing(v, y) => ended[y] = at[v].step)'
    BY <1>5, <1>11, <1>4, <2>6, <2>7
  <2>10. (\A u, v \in Worker : Reducing(u, y) /\ Reducing(v, y) => u = v)'
    BY <2>7
  <2>11. status' = "launched"
    BY <1>5, <1>6
  <2>12. QED
    BY <2>3, <2>8, <2>9, <2>10, <2>11 DEF TicketInv
<1>18. ASSUME NEW z \in Output, z # y
       PROVE  TicketInv(z)'
  <2>1. TicketInv(z)
    BY DEF IInv
  <2>2. ticket'[z] = ticket[z] /\ ended'[z] = ended[z]
    BY <1>5, <1>6, <1>18 DEF TypeOK
  <2>3. \A x \in Parts(z) : Drew(x)' = Drew(x)
    BY <1>13, <1>18, <1>2 DEF Parts
  <2>4. \A v \in Worker : Reducing(v, z)' <=> Reducing(v, z)
    BY <1>5, <1>11, <1>18 DEF Reducing
  <2>5. \A v \in Worker : at'[v].step = at[v].step
    BY <1>11
  <2>6. QED
    BY <1>5, <2>1, <2>2, <2>3, <2>4, <2>5, TicketKeeps
<1>19. QED
  BY <1>5, <1>10, <1>11, <1>12, <1>14, <1>17, <1>18, LocalInv DEF Working

LEMMA ReduceStep ==
    ASSUME IInv, NEW w \in Worker, Reduce(w)
    PROVE  IInv'
<1>1. /\ pc[w] = "reduce"
      /\ ended' = [ended EXCEPT ![cur[w]] = @ + 1]
      /\ pc' = [pc EXCEPT ![w] = "task"]
      /\ at' = [at EXCEPT ![w].ordinal = @ + Grid]
      /\ UNCHANGED <<build, status, iteration, steps, cur, arrivals, epoch, ticket>>
  BY DEF Reduce, EndBody, Stride, counterVars
<1>2. /\ TypeOK /\ Standing(w) /\ status = "launched"
      /\ at[w].step \in Nat /\ at[w].stage \in Stage /\ at[w].ordinal \in Nat /\ Grid \in Nat \ {0}
      /\ (at[w].ordinal + Grid) % Grid = at[w].ordinal % Grid
  BY <1>1, AtWork DEF Working
<1>3. /\ Addressed(w) \in Task /\ HandoffReduce[Addressed(w).stage] # NoStage
      /\ cur[w] = HandoffOutput(Addressed(w))
      /\ at[w].ordinal < ServingL1TaskLimit(at[w].stage)
  BY <1>1, <1>2 DEF Standing, Busy, Addressed
<1>4. cur[w] \in Output
  BY <1>3, OutputOfPart
<1>5. PICK y \in Output : y = cur[w]
  BY <1>4
<1>6. PICK k \in Nat : k = at[w].step
  BY <1>2
<1>7. y \in Task /\ Elided(y.stage)
  BY DEF Output
<1>8. TypeOK'
  <2>1. ended' \in [Task -> Nat]
    BY <1>1, <1>2, <1>5, <1>7 DEF TypeOK
  <2>2. at' \in [Worker -> [step : Nat, stage : Stage, ordinal : Nat]]
    <3>1. at \in [Worker -> [step : Nat, stage : Stage, ordinal : Nat]]
      BY <1>2 DEF TypeOK
    <3>2. QED
      BY <1>1, <1>2, <3>1
  <2>3. pc' \in [Worker -> Working \cup {"done"} \cup Gone]
    BY <1>1, <1>2 DEF TypeOK, Working
  <2>4. QED
    BY <1>1, <1>2, <2>1, <2>2, <2>3 DEF TypeOK, Working
<1>9. /\ at'[w].step = at[w].step /\ at'[w].stage = at[w].stage
      /\ at'[w].ordinal = at[w].ordinal + Grid /\ pc'[w] = "task"
      /\ \A v \in Worker \ {w} : at'[v] = at[v] /\ pc'[v] = pc[v] /\ cur'[v] = cur[v]
  BY <1>1, <1>2 DEF TypeOK
<1>10. Standing(w)'
  BY <1>1, <1>2, <1>9 DEF Standing, Busy, Gone
<1>11. ASSUME NEW x \in Task
       PROVE  Ran(x)' = Ran(x) /\ Drew(x)' = Drew(x)
  <2>1. Here(x, w) => Ran(x) = at[w].step + 1 /\ Drew(x) = at[w].step + 1
    BY <1>1, <1>2, CountsHere
  <2>2. /\ Ran(x)' = IF Here(x, w) THEN at[w].step + 1 ELSE Ran(x)
        /\ Drew(x)' = IF Here(x, w) THEN at[w].step + 1 ELSE Drew(x)
    BY <1>2, <1>9, CountsStride
  <2>3. QED
    BY <2>1, <2>2
<1>12. EndedInv'
  <2> SUFFICES ASSUME NEW x \in Task, ~Elided(x.stage)
               PROVE  ended'[x] = Ran(x)'
    BY DEF EndedInv
  <2>1. ended[x] = Ran(x) /\ x # y
    BY <1>7 DEF IInv, EndedInv
  <2>2. ended'[x] = ended[x]
    BY <1>1, <1>2, <1>5, <2>1 DEF TypeOK
  <2>3. QED
    BY <1>11, <2>1, <2>2
<1>13. TicketInv(y)'
  <2>1. TicketInv(y)
    BY DEF IInv
  <2>2. Reducing(w, y)
    BY <1>1, <1>5 DEF Reducing
  <2>3. ended[y] = k
    BY <1>6, <2>1, <2>2 DEF TicketInv
  <2>4. ended'[y] = k + 1
    BY <1>1, <1>2, <1>5, <1>7, <2>3 DEF TypeOK
  <2>5. \A v \in Worker : ~Reducing(v, y)'
    BY <1>1, <1>9, <2>1, <2>2 DEF TicketInv, Reducing
  <2>6. \A x \in Parts(y) : Drew(x)' = Drew(x)
    BY <1>11 DEF Parts
  <2>7. ASSUME NEW t \in Stage, HandoffReduce[t] = y.stage
        PROVE  Tally(Parts(y), DrewAt(y), ticket[y], Producers[t], iteration)'
    <3>1. Tally(Parts(y), DrewAt(y), ticket[y], Producers[t], iteration)
      BY <1>2, <2>1, <2>7 DEF TicketInv
    <3>2. \A x \in Parts(y) : DrewAt(y)'[x] = DrewAt(y)[x]
      BY <2>6 DEF DrewAt
    <3>3. Tally(Parts(y), DrewAt(y)', ticket[y], Producers[t], iteration)
      BY <3>1, <3>2, TallySame
    <3>4. QED
      BY <1>1, <3>3
  <2>8. ASSUME NEW n \in Nat
        PROVE  ((\A x \in Parts(y) : Drew(x) >= n + 1) <=>
                  \/ ended[y] >= n + 1
                  \/ ended[y] >= n /\ \E v \in Worker : Reducing(v, y))'
    <3>1. (\A x \in Parts(y) : Drew(x) >= n + 1) <=> k >= n
      BY <2>1, <2>2, <2>3 DEF TicketInv
    <3>2. (\A x \in Parts(y) : Drew(x)' >= n + 1) <=> k >= n
      BY <2>6, <3>1
    <3>3. QED
      BY <2>4, <2>5, <3>2
  <2>9. status' = "launched"
    BY <1>1, <1>2
  <2>10. QED
    BY <2>5, <2>7, <2>8, <2>9 DEF TicketInv
<1>14. ASSUME NEW z \in Output, z # y
       PROVE  TicketInv(z)'
  <2>1. TicketInv(z) /\ z \in Task
    BY DEF IInv, Output
  <2>2. ended'[z] = ended[z]
    BY <1>1, <1>2, <1>5, <1>14, <2>1 DEF TypeOK
  <2>3. \A x \in Parts(z) : Drew(x)' = Drew(x)
    BY <1>11 DEF Parts
  <2>4. \A v \in Worker : Reducing(v, z)' <=> Reducing(v, z)
    BY <1>1, <1>5, <1>9, <1>14 DEF Reducing
  <2>5. \A v \in Worker : at'[v].step = at[v].step
    BY <1>9
  <2>6. QED
    BY <1>1, <2>1, <2>2, <2>3, <2>4, <2>5, TicketKeeps
<1>15. QED
  BY <1>1, <1>8, <1>9, <1>10, <1>12, <1>13, <1>14, LocalInv DEF Working

-----------------------------------------------------------------------------
(***************************************************************************)
(* Between launches, and at the start of one.                              *)
(***************************************************************************)
\* Every loop at the first stage of step n, and nothing running.
AllAtStart(n) ==
    \A w \in Worker :
        /\ at[w].step = n /\ at[w].stage = 0 /\ at[w].ordinal = FirstOrdinal(0, w)
        /\ pc[w] \in {"task", "done"}
        /\ pc[w] = "done" <=> n = steps

LEMMA StartCounts ==
    ASSUME TypeOK, NEW n \in Nat, AllAtStart(n)
    PROVE  /\ \A w \in Worker, s \in Stage : Freed(w, s) = n /\ Arrived(w, s) = n
           /\ \A x \in Task : Ran(x) = n /\ Drew(x) = n
           /\ \A y : \A w \in Worker : ~Reducing(w, y)
<1>1. ASSUME NEW w \in Worker, NEW s \in Stage
      PROVE  Freed(w, s) = n /\ Arrived(w, s) = n
  BY <1>1, StageOrder DEF AllAtStart, Freed, Arrived, Past
<1>2. ASSUME NEW x \in Task
      PROVE  Ran(x) = n /\ Drew(x) = n
  <2> DEFINE w == OwnerOf(x)
             o == OrdinalOf(x)
  <2>1. /\ w \in Worker /\ o \in Nat /\ x.stage \in Stage /\ x.stage \in Nat
        /\ FirstOrdinal(x.stage, w) = o % Grid /\ Grid \in Nat \ {0}
    BY Deal, TaskFields, StageOrder, L1Assumption
  <2>2. o % Grid <= o /\ o % Grid \in Nat
    <3>1. o % Grid \in 0 .. (Grid - 1) /\ o \div Grid \in Nat /\ o = (o \div Grid) * Grid + (o % Grid)
      BY <2>1, Division
    <3> DEFINE q == o \div Grid
               r == o % Grid
    <3> HIDE DEF q, r, o
    <3>2. q * Grid \in Nat
      BY <2>1, <3>1 DEF q
    <3>3. QED
      BY <2>1, <3>1, <3>2 DEF q, r
  <2>3. /\ at[w].step = n /\ at[w].stage = 0 /\ at[w].ordinal = FirstOrdinal(0, w)
        /\ pc[w] \notin {"handoff", "reduce"}
    BY <2>1 DEF AllAtStart
  <2> HIDE DEF w, o
  <2>4. \/ x.stage > 0
        \/ x.stage = 0 /\ at[w].ordinal <= o
    BY <2>1, <2>2, <2>3
  <2>5. at[w].ordinal \in Nat
    BY <2>1, WorkerFields
  <2>6. QED
    BY <2>1, <2>3, <2>4, <2>5 DEF Ran, Drew, PastTask, w, o
<1>3. \A y : \A w \in Worker : ~Reducing(w, y)
  BY DEF AllAtStart, Reducing
<1>4. QED
  BY <1>1, <1>2, <1>3

\* A launch just begun, or none: the counters are complete up to `iteration`.
LaunchBoundary(n) ==
    /\ TypeOK
    /\ AllAtStart(n)
    /\ n <= steps
    /\ status = "launched" => n = 0
    /\ status = "idle" => n = steps
    /\ \A x \in Task : ended[x] = n
    /\ \A s \in Stage : ~Elided(s) =>
          (Meeting => arrivals[s] = Parties * iteration) /\ epoch[s] <= iteration
    /\ \A y \in Output : \A s \in Stage :
          HandoffReduce[s] = y.stage => ticket[y] = Producers[s] * iteration

LEMMA BoundaryInv == (\E n \in Nat : LaunchBoundary(n)) => IInv
<1> SUFFICES ASSUME NEW n \in Nat, LaunchBoundary(n)
             PROVE  IInv
  OBVIOUS
<1>0. /\ TypeOK /\ AllAtStart(n) /\ n <= steps
      /\ status = "launched" => n = 0
      /\ status = "idle" => n = steps
      /\ \A x \in Task : ended[x] = n
      /\ \A s \in Stage : ~Elided(s) =>
            (Meeting => arrivals[s] = Parties * iteration) /\ epoch[s] <= iteration
      /\ \A y \in Output : \A s \in Stage :
            HandoffReduce[s] = y.stage => ticket[y] = Producers[s] * iteration
  BY DEF LaunchBoundary
<1>1. status \in {"idle", "launched"} /\ iteration \in Nat /\ build \in Builds
  BY <1>0 DEF TypeOK
<1>2. /\ \A w \in Worker, s \in Stage : Freed(w, s) = n /\ Arrived(w, s) = n
      /\ \A x \in Task : Ran(x) = n /\ Drew(x) = n
      /\ \A y : \A w \in Worker : ~Reducing(w, y)
  BY <1>0, StartCounts
<1>3. ASSUME NEW w \in Worker
      PROVE  Standing(w)
  <2>1. /\ at[w].step = n /\ at[w].stage = 0 /\ at[w].ordinal = FirstOrdinal(0, w)
        /\ pc[w] \in {"task", "done"} /\ (pc[w] = "done" <=> n = steps)
    BY <1>0 DEF AllAtStart
  <2>2. ~Elided(0) /\ FirstOrdinal(0, w) % Grid = FirstOrdinal(0, w)
    BY FirstStage, FirstOrdinalType
  <2>3. QED
    BY <1>1, <1>0, <2>1, <2>2 DEF Standing, Busy, Gone
<1>4. ASSUME NEW v \in Worker, NEW w \in Worker
      PROVE  InCluster(v, w)
  BY <1>0 DEF AllAtStart, InCluster, Gone
<1>5. ASSUME NEW s \in Stage, ~Elided(s)
      PROVE  BarrierInv(s)
  <2>1. IsFiniteSet(Party) /\ Party # {} /\ Party \subseteq Worker /\ Parties \in Nat
    BY <1>1, PartyCount, BuildFields
  <2>2. \A v, w \in Party : Freed(w, s) <= Arrived(v, s)
    BY <1>2, <2>1
  <2>3. ASSUME status = "launched"
        PROVE  /\ Meeting => Tally(Party, ArrivedAt(s), arrivals[s], Parties, iteration)
               /\ \A k \in Nat : epoch[s] >= iteration + k + 1 =>
                     \A v \in Party : Arrived(v, s) >= k + 1
    <3>1. n = 0 /\ (Meeting => arrivals[s] = Parties * iteration) /\ epoch[s] <= iteration
      BY <1>0, <1>5, <2>3
    <3>2. \A v \in Party : ArrivedAt(s)[v] = 0
      BY <1>2, <2>1, <3>1 DEF ArrivedAt
    <3>3. Meeting => Tally(Party, ArrivedAt(s), arrivals[s], Parties, iteration)
      BY <1>1, <2>1, <3>1, <3>2, TallyStart
    <3>4. epoch[s] \in Nat
      BY <1>0 DEF TypeOK
    <3>5. QED
      BY <1>1, <3>1, <3>3, <3>4
  <2>4. \A w \in Worker : pc[w] # "publish"
    BY <1>0 DEF AllAtStart
  <2>5. status = "idle" => (Meeting => arrivals[s] = Parties * iteration) /\ epoch[s] <= iteration
    BY <1>0, <1>5
  <2>6. QED
    BY <2>2, <2>3, <2>4, <2>5 DEF BarrierInv
<1>6. EndedInv
  BY <1>0, <1>2 DEF EndedInv
<1>7. ASSUME NEW y \in Output
      PROVE  TicketInv(y)
  <2>1. y \in Task /\ IsFiniteSet(Parts(y)) /\ Parts(y) # {} /\ Parts(y) \subseteq Task
    BY OutputFields DEF Parts
  <2>2. ended[y] = n
    BY <1>0, <2>1
  <2>3. ASSUME NEW s \in Stage, HandoffReduce[s] = y.stage, status = "launched"
        PROVE  Tally(Parts(y), DrewAt(y), ticket[y], Producers[s], iteration)
    <3>1. ticket[y] = Producers[s] * iteration /\ Producers[s] \in Nat /\ n = 0
      BY <1>0, <2>3, L1Assumption
    <3>2. \A x \in Parts(y) : DrewAt(y)[x] = 0
      BY <1>2, <2>1, <3>1 DEF DrewAt
    <3>3. QED
      BY <1>1, <2>1, <3>1, <3>2, TallyStart
  <2>4. \A x \in Parts(y) : Drew(x) = n
    BY <1>2, <2>1
  <2>5. QED
    BY <1>1, <1>2, <1>0, <2>1, <2>2, <2>3, <2>4 DEF TicketInv
<1>8. QED
  BY <1>3, <1>4, <1>5, <1>6, <1>7, <1>0 DEF IInv

LEMMA BoundaryNext == (\E n \in Nat : LaunchBoundary(n))' => IInv'
BY BoundaryInv, PTL

LEMMA EnterFirstFields ==
    ASSUME NEW w \in Worker
    PROVE  /\ EnterStage(w, 0, 0).step = 0 /\ EnterStage(w, 0, 0).stage = 0
           /\ EnterStage(w, 0, 0).ordinal = FirstOrdinal(0, w)
           /\ EnterStage(w, 0, 0) \in [step : Nat, stage : Stage, ordinal : Nat]
BY EnterFirst, FirstStage, FirstOrdinalType

LEMMA InitStep == Init => IInv
<1> SUFFICES ASSUME Init
             PROVE  \E n \in Nat : LaunchBoundary(n)
  BY BoundaryInv
<1>1. TypeOK
  <2>1. at \in [Worker -> [step : Nat, stage : Stage, ordinal : Nat]]
    BY EnterFirstFields DEF Init
  <2>2. QED
    BY <2>1 DEF Init, TypeOK, NoTask
<1>2. AllAtStart(0)
  BY EnterFirstFields DEF Init, AllAtStart
<1>3. /\ \A s \in Stage : arrivals[s] = 0 /\ epoch[s] = 0
      /\ \A y \in Output : ticket[y] = 0
      /\ \A x \in Task : ended[x] = 0
      /\ steps = 0 /\ iteration = 0 /\ status = "idle"
  BY DEF Init
<1>4. Parties \in Nat
  BY <1>1, BuildFields DEF TypeOK
<1>5. Parties * 0 = 0 /\ \A s \in Stage : Producers[s] * 0 = 0
  BY <1>4, L1Assumption
<1>6. \A y \in Output : \A s \in Stage : HandoffReduce[s] = y.stage => ticket[y] = Producers[s] * iteration
  BY <1>3, <1>5
<1>7. LaunchBoundary(0)
  BY <1>1, <1>2, <1>3, <1>5, <1>6 DEF LaunchBoundary
<1>8. QED
  BY <1>7

\* Between two launches the loops stand behind the last step, and each task
\* has ended once a step.
LEMMA Finished ==
    ASSUME IInv, \A w \in Worker : pc[w] = "done"
    PROVE  /\ steps \in Nat /\ AllAtStart(steps)
           /\ \A x \in Task : ended[x] = steps
<1>1. TypeOK /\ steps \in Nat
  BY DEF IInv, TypeOK
<1>2. AllAtStart(steps)
  BY DEF IInv, Standing, AllAtStart
<1>3. /\ \A x \in Task : Ran(x) = steps /\ Drew(x) = steps
      /\ \A y : \A w \in Worker : ~Reducing(w, y)
  BY <1>1, <1>2, StartCounts
<1>4. ASSUME NEW x \in Task
      PROVE  ended[x] = steps
  <2>1. CASE ~Elided(x.stage)
    BY <1>3, <2>1 DEF IInv, EndedInv
  <2>2. CASE Elided(x.stage)
    <3>1. x \in Output /\ Parts(x) \subseteq Task
      BY <2>2 DEF Output, Parts
    <3>2. TicketInv(x) /\ Parts(x) # {}
      BY <3>1, OutputFields DEF IInv
    <3>3. \A k \in Nat : steps >= k + 1 <=> ended[x] >= k + 1
      BY <1>3, <3>1, <3>2 DEF TicketInv
    <3>4. ended[x] \in Nat
      BY <1>1 DEF TypeOK
    <3>5. ~(steps >= steps + 1) /\ ~(ended[x] >= ended[x] + 1)
      BY <1>1, <3>4
    <3>6. ~(ended[x] >= steps + 1) /\ ~(steps >= ended[x] + 1)
      BY <1>1, <3>3, <3>4, <3>5
    <3>7. QED
      BY <1>1, <3>4, <3>6
  <2>3. QED
    BY <2>1, <2>2
<1>5. QED
  BY <1>1, <1>2, <1>4

LEMMA LaunchStep ==
    ASSUME IInv, NEW n \in 1 .. MaxSteps, LaunchL1(n)
    PROVE  IInv'
<1> SUFFICES (\E k \in Nat : LaunchBoundary(k))'
  BY BoundaryNext
<1>1. /\ status = "idle" /\ status' = "launched" /\ steps' = n
      /\ pc' = [w \in Worker |-> "task"]
      /\ at' = [w \in Worker |-> EnterStage(w, 0, 0)]
      /\ ended' = [x \in Task |-> 0]
      /\ UNCHANGED <<build, iteration, cur, arrivals, epoch, ticket>>
  BY DEF LaunchL1, counterVars
<1>2. TypeOK /\ n \in Nat /\ n > 0
  BY L1Assumption DEF IInv
<1>3. TypeOK'
  <2>1. at' \in [Worker -> [step : Nat, stage : Stage, ordinal : Nat]]
    BY <1>1, EnterFirstFields
  <2>2. QED
    BY <1>1, <1>2, <2>1 DEF TypeOK
<1>4. AllAtStart(0)'
  BY <1>1, <1>2, EnterFirstFields DEF AllAtStart
<1>5. ASSUME NEW s \in Stage, ~Elided(s)
      PROVE  (Meeting => arrivals[s] = Parties * iteration) /\ epoch[s] <= iteration
  BY <1>1, <1>5 DEF IInv, BarrierInv
<1>6. ASSUME NEW y \in Output, NEW s \in Stage, HandoffReduce[s] = y.stage
      PROVE  ticket[y] = Producers[s] * iteration
  BY <1>1, <1>6 DEF IInv, TicketInv
<1>7. LaunchBoundary(0)'
  BY <1>1, <1>2, <1>3, <1>4, <1>5, <1>6, BuildSame DEF LaunchBoundary
<1>8. QED
  BY <1>7

LEMMA EndStep ==
    ASSUME IInv, EndLaunch
    PROVE  IInv'
<1> SUFFICES (\E k \in Nat : LaunchBoundary(k))'
  BY BoundaryNext
<1>1. /\ status = "launched" /\ status' = "idle" /\ iteration' = iteration + steps
      /\ \A w \in Worker : pc[w] = "done"
      /\ UNCHANGED <<build, steps, pc, at, cur, arrivals, epoch, ticket, ended>>
  BY DEF EndLaunch, counterVars, ctaVars
<1>2. /\ TypeOK /\ steps \in Nat /\ iteration \in Nat
      /\ AllAtStart(steps) /\ \A x \in Task : ended[x] = steps
  BY <1>1, Finished DEF IInv, TypeOK
<1>3. PICK n \in Nat : n = steps
  BY <1>2
<1>4. TypeOK'
  BY <1>1, <1>2 DEF TypeOK
<1>5. AllAtStart(n)'
  BY <1>1, <1>2, <1>3 DEF AllAtStart
<1>6. /\ \A w \in Worker, s \in Stage : Arrived(w, s) = n
      /\ \A x \in Task : Drew(x) = n
  BY <1>2, <1>3, StartCounts
<1>7. ASSUME NEW s \in Stage, ~Elided(s)
      PROVE  (Meeting => arrivals[s] = Parties * (iteration + n)) /\ epoch[s] <= iteration + n
  <2>1. BarrierInv(s)
    BY <1>7 DEF IInv
  <2>2. Party # {} /\ Party \subseteq Worker /\ Parties \in Nat
    BY <1>2, PartyCount, BuildFields DEF TypeOK
  <2>3. ASSUME Meeting
        PROVE  arrivals[s] = Parties * (iteration + n)
    <3>1. Tally(Party, ArrivedAt(s), arrivals[s], Parties, iteration)
      BY <1>1, <2>1, <2>3 DEF BarrierInv
    <3>2. \A v \in Party : ArrivedAt(s)[v] = n
      BY <1>6, <2>2 DEF ArrivedAt
    <3>3. arrivals[s] = RoundStart(Parties, iteration, n)
      BY <1>2, <1>3, <2>2, <3>1, <3>2, TallyLevel
    <3>4. QED
      BY <3>3 DEF RoundStart
  <2>4. epoch[s] <= iteration + n
    <3>1. epoch[s] >= iteration + n + 1 => \A v \in Party : Arrived(v, s) >= n + 1
      BY <1>1, <2>1 DEF BarrierInv
    <3>2. epoch[s] \in Nat
      BY <1>2 DEF TypeOK
    <3>3. QED
      BY <1>2, <1>6, <2>2, <3>1, <3>2
  <2>5. QED
    BY <2>3, <2>4
<1>8. ASSUME NEW y \in Output, NEW s \in Stage, HandoffReduce[s] = y.stage
      PROVE  ticket[y] = Producers[s] * (iteration + n)
  <2>1. Tally(Parts(y), DrewAt(y), ticket[y], Producers[s], iteration)
    BY <1>1, <1>8 DEF IInv, TicketInv
  <2>2. \A x \in Parts(y) : DrewAt(y)[x] = n
    BY <1>6 DEF DrewAt, Parts
  <2>3. Producers[s] \in Nat
    BY L1Assumption
  <2>4. ticket[y] = RoundStart(Producers[s], iteration, n)
    BY <1>2, <1>3, <2>1, <2>2, <2>3, TallyLevel
  <2>5. QED
    BY <2>4 DEF RoundStart
<1>9. LaunchBoundary(n)'
  BY <1>1, <1>2, <1>3, <1>4, <1>5, <1>7, <1>8, BuildSame DEF LaunchBoundary
<1>10. QED
  BY <1>9

LEMMA ResetStep ==
    ASSUME IInv, Reset
    PROVE  IInv'
<1> SUFFICES (\E k \in Nat : LaunchBoundary(k))'
  BY BoundaryNext
<1>1. /\ status = "idle" /\ iteration' = 0
      /\ arrivals' = [s \in Stage |-> 0]
      /\ epoch' = [s \in Stage |-> 0]
      /\ ticket' = [y \in Output |-> 0]
      /\ UNCHANGED <<build, status, steps, pc, at, cur, ended>>
  BY DEF Reset, ctaVars
<1>2. \A w \in Worker : pc[w] = "done"
  BY <1>1 DEF IInv, Standing
<1>3. /\ TypeOK /\ steps \in Nat
      /\ AllAtStart(steps) /\ \A x \in Task : ended[x] = steps
  BY <1>2, Finished DEF IInv
<1>4. PICK n \in Nat : n = steps
  BY <1>3
<1>5. TypeOK'
  BY <1>1, <1>3 DEF TypeOK
<1>6. AllAtStart(n)'
  BY <1>1, <1>3, <1>4 DEF AllAtStart
<1>7. Parties \in Nat
  BY <1>3, BuildFields DEF TypeOK
<1>8. Parties * 0 = 0 /\ \A s \in Stage : Producers[s] * 0 = 0
  BY <1>7, L1Assumption
<1>9. /\ (\A s \in Stage : ~Elided(s) =>
            (Meeting => arrivals[s] = Parties * iteration) /\ epoch[s] <= iteration)'
      /\ (\A y \in Output : \A s \in Stage :
            HandoffReduce[s] = y.stage => ticket[y] = Producers[s] * iteration)'
  BY <1>1, <1>8, BuildSame
<1>10. LaunchBoundary(n)'
  BY <1>1, <1>3, <1>4, <1>5, <1>6, <1>9 DEF LaunchBoundary
<1>11. QED
  BY <1>10

-----------------------------------------------------------------------------
(***************************************************************************)
(* Leaving a stage.                                                        *)
(***************************************************************************)
\* w has walked its stage and goes on to the next.
Leaves(w) ==
    /\ at'[w] = EnterStage(w, at[w].step, at[w].stage + 1)
    /\ pc'[w] = IF at'[w].step = steps THEN "done" ELSE "task"

LEMMA LeaveFields ==
    ASSUME TypeOK, NEW w \in Worker, Leaves(w)
    PROVE  /\ at'[w].step \in Nat /\ at'[w].stage \in Stage /\ at'[w].stage \in Nat
           /\ at'[w].ordinal = FirstOrdinal(at'[w].stage, w) /\ at'[w].ordinal \in Nat
           /\ at'[w] \in [step : Nat, stage : Stage, ordinal : Nat]
           /\ ~Elided(at'[w].stage)
           /\ pc'[w] \in {"task", "done"}
           /\ \/ /\ at'[w].step = at[w].step /\ at'[w].stage > at[w].stage
                 /\ \A s \in Stage : at[w].stage < s /\ s < at'[w].stage => Elided(s)
              \/ /\ at'[w].step = at[w].step + 1 /\ at'[w].stage = 0
                 /\ \A s \in Stage : at[w].stage < s => Elided(s)
<1>1. at[w].step \in Nat /\ at[w].stage \in Stage
  BY WorkerFields
<1>2. at'[w] = EnterStage(w, at[w].step, at[w].stage + 1)
  BY DEF Leaves
<1>3. PICK n \in Nat, t \in Stage : n = at[w].step /\ t = at[w].stage
  BY <1>1
<1>4. PICK e : e = at'[w]
  OBVIOUS
<1>5. Follows(w, n, t, e)
  BY <1>2, <1>3, <1>4, EnterNext
<1>6. /\ e \in [step : Nat, stage : Stage, ordinal : Nat]
      /\ ~Elided(e.stage)
      /\ e.ordinal = FirstOrdinal(e.stage, w)
      /\ \/ /\ e.step = n /\ e.stage > t
            /\ \A s \in Stage : t < s /\ s < e.stage => Elided(s)
         \/ /\ e.step = n + 1 /\ e.stage = 0
            /\ \A s \in Stage : t < s => Elided(s)
  BY <1>5 DEF Follows
<1>7. e.step \in Nat /\ e.stage \in Stage /\ e.stage \in Nat /\ e.ordinal \in Nat
  BY <1>6, StageOrder
<1>8. pc'[w] \in {"task", "done"}
  BY DEF Leaves
<1>9. QED
  BY <1>3, <1>4, <1>6, <1>7, <1>8

LEMMA LeavePast ==
    ASSUME TypeOK, NEW w \in Worker, Leaves(w), NEW s \in Stage, ~Elided(s)
    PROVE  /\ Freed(w, s)' = IF s = at[w].stage THEN at[w].step + 1 ELSE Freed(w, s)
           /\ Arrived(w, s)' = IF s = at[w].stage THEN at[w].step + 1 ELSE Arrived(w, s)
<1>1. at[w].step \in Nat /\ at[w].stage \in Nat /\ s \in Nat
  BY WorkerFields, StageOrder
<1>2. /\ at'[w].step \in Nat /\ at'[w].stage \in Nat
      /\ pc'[w] \in {"task", "done"}
      /\ \/ /\ at'[w].step = at[w].step /\ at'[w].stage > at[w].stage
            /\ ~(at[w].stage < s /\ s < at'[w].stage)
         \/ /\ at'[w].step = at[w].step + 1 /\ at'[w].stage = 0
            /\ ~(at[w].stage < s)
  BY LeaveFields
<1>3. QED
  BY <1>1, <1>2 DEF Freed, Arrived, Past

LEMMA LeaveTask ==
    ASSUME TypeOK, NEW w \in Worker, Leaves(w), NEW x \in Task, ~Elided(x.stage), OwnerOf(x) = w,
           at[w].ordinal >= ServingL1TaskLimit(at[w].stage)
    PROVE  Ran(x)' = Ran(x) /\ Drew(x)' = Drew(x)
<1> DEFINE o == OrdinalOf(x)
<1>1. /\ at[w].step \in Nat /\ at[w].stage \in Nat /\ at[w].stage \in Stage
      /\ x.stage \in Nat /\ x.stage \in Stage /\ at[w].ordinal \in Nat
  BY WorkerFields, StageOrder, TaskFields
<1>2. /\ at'[w].step \in Nat /\ at'[w].stage \in Nat /\ at'[w].ordinal \in Nat
      /\ at'[w].ordinal = FirstOrdinal(at'[w].stage, w)
      /\ pc'[w] \in {"task", "done"}
      /\ \/ /\ at'[w].step = at[w].step /\ at'[w].stage > at[w].stage
            /\ ~(at[w].stage < x.stage /\ x.stage < at'[w].stage)
         \/ /\ at'[w].step = at[w].step + 1 /\ at'[w].stage = 0
            /\ ~(at[w].stage < x.stage)
  BY <1>1, LeaveFields
<1>3. /\ o \in Nat /\ o < ServingL1TaskLimit(x.stage) /\ Grid \in Nat \ {0}
      /\ FirstOrdinal(x.stage, w) = o % Grid /\ ServingL1TaskLimit(x.stage) \in Nat
  BY <1>1, Deal, LimitType, L1Assumption
<1> HIDE DEF o
<1>4. o % Grid <= o
  <2> DEFINE q == o \div Grid
             r == o % Grid
  <2>1. r \in 0 .. (Grid - 1) /\ q \in Nat /\ o = q * Grid + r
    BY <1>3, Division
  <2> HIDE DEF q, r
  <2>2. q * Grid \in Nat
    BY <1>3, <2>1
  <2>3. r <= o
    BY <1>3, <2>1, <2>2
  <2>4. QED
    BY <2>3 DEF r
<1>5. at'[w].stage = x.stage => at'[w].ordinal <= o
  BY <1>2, <1>3, <1>4
<1>6. at[w].stage = x.stage => at[w].ordinal > o
  BY <1>1, <1>3
<1>7. ASSUME NEW here, "task" \notin here, "done" \notin here
      PROVE  PastTask(x, here)' = PastTask(x, here)
  <2>1. PastTask(x, here) = at[w].step + (IF at[w].stage >= x.stage THEN 1 ELSE 0)
    BY <1>1, <1>3, <1>6 DEF PastTask, o
  <2>2. ~(at'[w].stage = x.stage /\ at'[w].ordinal > o) /\ pc'[w] \notin here
    BY <1>2, <1>3, <1>5, <1>7
  <2>3. PastTask(x, here)' = at'[w].step + (IF at'[w].stage > x.stage THEN 1 ELSE 0)
    BY <1>1, <1>2, <1>3, <2>2 DEF PastTask, o
  <2>4. QED
    BY <1>1, <1>2, <2>1, <2>3
<1>8. QED
  BY <1>7 DEF Ran, Drew

LEMMA LeaveStanding ==
    ASSUME TypeOK, NEW w \in Worker, Leaves(w), Standing(w), pc[w] # "done",
           UNCHANGED <<build, status, steps>>
    PROVE  Standing(w)'
<1>1. /\ at[w].step \in Nat /\ steps \in Nat
      /\ at'[w].step \in Nat /\ at'[w].stage \in Stage
      /\ at'[w].ordinal = FirstOrdinal(at'[w].stage, w)
      /\ ~Elided(at'[w].stage)
      /\ pc'[w] \in {"task", "done"}
      /\ at'[w].step = at[w].step \/ (at'[w].step = at[w].step + 1 /\ at'[w].stage = 0)
  BY LeaveFields, WorkerFields DEF TypeOK
<1>2. FirstOrdinal(at'[w].stage, w) % Grid = FirstOrdinal(at'[w].stage, w)
  BY <1>1, FirstOrdinalType
<1>3. /\ at[w].step <= steps /\ (pc[w] = "done" <=> at[w].step = steps)
      /\ status = "idle" => pc[w] = "done"
  BY DEF Standing
<1>4. pc'[w] = "done" <=> at'[w].step = steps
  BY DEF Leaves
<1>5. QED
  BY <1>1, <1>2, <1>3, <1>4 DEF Standing, Busy, Gone

\* What leaving a stage keeps, whoever leaves.
LEMMA LeaveInv ==
    ASSUME IInv, NEW S \in SUBSET Worker, Leave(S),
           \A w \in S : pc[w] \in Gone \cup {"task"}
                        /\ at[w].ordinal >= ServingL1TaskLimit(at[w].stage),
           UNCHANGED <<build, status, iteration, steps, cur, arrivals, ticket, ended>>,
           epoch' \in [Stage -> Nat]
    PROVE  /\ TypeOK' /\ (\A w \in Worker : Standing(w))'
           /\ EndedInv' /\ (\A y \in Output : TicketInv(y))'
           /\ \A w \in S : Leaves(w)
           /\ \A w \in Worker \ S : at'[w] = at[w] /\ pc'[w] = pc[w]
<1>1. TypeOK /\ \A w \in Worker : Standing(w)
  BY DEF IInv
<1>2. /\ at' = [w \in Worker |-> IF w \in S THEN EnterStage(w, at[w].step, at[w].stage + 1) ELSE at[w]]
      /\ pc' = [w \in Worker |->
                    IF w \notin S THEN pc[w]
                    ELSE IF EnterStage(w, at[w].step, at[w].stage + 1).step = steps THEN "done" ELSE "task"]
  BY DEF Leave
<1>3. /\ \A w \in S : Leaves(w)
      /\ \A w \in Worker \ S : at'[w] = at[w] /\ pc'[w] = pc[w]
  BY <1>2 DEF Leaves
<1>4. TypeOK'
  <2>1. \A w \in Worker : at[w] \in [step : Nat, stage : Stage, ordinal : Nat]
    BY <1>1 DEF TypeOK
  <2>2. \A w \in Worker : at'[w] \in [step : Nat, stage : Stage, ordinal : Nat]
    BY <1>1, <1>3, <2>1, LeaveFields
  <2>3. at' \in [Worker -> [step : Nat, stage : Stage, ordinal : Nat]]
    BY <1>2, <2>2
  <2>4. pc' \in [Worker -> {"task", "run", "handoff", "reduce", "done"} \cup Gone]
    BY <1>1, <1>2 DEF TypeOK
  <2>5. QED
    BY <1>1, <2>3, <2>4 DEF TypeOK
<1>5. ASSUME NEW w \in Worker
      PROVE  Standing(w)'
  <2>1. CASE w \in S
    <3>1. pc[w] # "done"
      BY <2>1 DEF Gone
    <3>2. QED
      BY <1>1, <1>3, <2>1, <3>1, LeaveStanding
  <2>2. CASE w \notin S
    BY <1>1, <1>3, <2>2, StandingSame
  <2>3. QED
    BY <2>1, <2>2
<1>6. ASSUME NEW x \in Task, ~Elided(x.stage)
      PROVE  Ran(x)' = Ran(x) /\ Drew(x)' = Drew(x)
  <2>1. OwnerOf(x) \in Worker
    BY Deal
  <2>2. CASE OwnerOf(x) \in S
    BY <1>1, <1>3, <1>6, <2>2, LeaveTask
  <2>3. CASE OwnerOf(x) \notin S
    BY <1>3, <2>1, <2>3 DEF Ran, Drew, PastTask
  <2>4. QED
    BY <2>2, <2>3
<1>7. EndedInv'
  BY <1>6 DEF IInv, EndedInv
<1>8. ASSUME NEW y \in Output
      PROVE  TicketInv(y)'
  <2>1. TicketInv(y)
    BY DEF IInv
  <2>2. \A x \in Parts(y) : x \in Task /\ ~Elided(x.stage)
    BY OutputOfPart DEF Parts
  <2>3. \A v \in Worker : /\ Reducing(v, y)' <=> Reducing(v, y)
                          /\ Reducing(v, y) => at'[v].step = at[v].step
    <3> TAKE v \in Worker
    <3>1. CASE v \in S
      <4>1. pc[v] # "reduce" /\ pc'[v] # "reduce"
        BY <1>3, <3>1 DEF Leaves, Gone
      <4>2. QED
        BY <4>1 DEF Reducing
    <3>2. CASE v \notin S
      BY <1>3, <3>2 DEF Reducing
    <3>3. QED
      BY <3>1, <3>2
  <2>4. QED
    BY <1>6, <2>1, <2>2, <2>3, TicketKeeps
<1>9. QED
  BY <1>3, <1>4, <1>5, <1>7, <1>8

\* What a move of some CTAs between the points of the barrier keeps.
LEMMA PointInv ==
    ASSUME IInv, NEW S \in SUBSET Worker, at' = at,
           \A w \in S : /\ pc[w] \in Gone \cup {"task"} /\ pc'[w] \in Gone
                        /\ at[w].ordinal >= ServingL1TaskLimit(at[w].stage)
                        /\ Meeting
                        /\ pc'[w] \in {"gathered", "scatter"} => Clustered
                        /\ pc'[w] = "publish" => ~RedBarrier,
           \A w \in Worker \ S : pc'[w] = pc[w],
           pc' \in [Worker -> {"task", "run", "handoff", "reduce", "done"} \cup Gone],
           UNCHANGED <<build, status, iteration, steps, cur, ticket, ended>>,
           arrivals' \in [Stage -> Nat], epoch' \in [Stage -> Nat]
    PROVE  /\ TypeOK' /\ (\A w \in Worker : Standing(w))'
           /\ EndedInv' /\ (\A y \in Output : TicketInv(y))'
<1>1. TypeOK /\ \A w \in Worker : Standing(w)
  BY DEF IInv
<1>2. TypeOK'
  BY <1>1 DEF TypeOK
<1>3. ASSUME NEW w \in Worker
      PROVE  Standing(w)'
  <2>1. CASE w \in S
    <3>1. pc[w] # "done" /\ ~Busy(w) /\ pc[w] \notin {"run", "handoff", "reduce"}
      BY <2>1 DEF Gone, Busy
    <3>2. pc'[w] # "done" /\ pc'[w] \notin {"run", "handoff", "reduce"} /\ pc'[w] \in Gone
      BY <2>1 DEF Gone
    <3>3. at'[w] = at[w]
      OBVIOUS
    <3>4. QED
      BY <1>1, <2>1, <3>1, <3>2, <3>3, BuildSame DEF Standing, Busy
  <2>2. CASE w \notin S
    BY <1>1, <2>2, StandingSame
  <2>3. QED
    BY <2>1, <2>2
<1>4. ASSUME NEW w \in Worker
      PROVE  /\ pc'[w] = "handoff" <=> pc[w] = "handoff"
             /\ pc'[w] = "reduce" <=> pc[w] = "reduce"
  BY DEF Gone
<1>5. ASSUME NEW x \in Task
      PROVE  Ran(x)' = Ran(x) /\ Drew(x)' = Drew(x)
  <2>1. OwnerOf(x) \in Worker
    BY Deal
  <2>2. QED
    BY <1>4, <2>1 DEF Ran, Drew, PastTask
<1>6. EndedInv'
  BY <1>5 DEF IInv, EndedInv
<1>7. ASSUME NEW y \in Output
      PROVE  TicketInv(y)'
  <2>1. TicketInv(y) /\ Parts(y) \subseteq Task
    BY DEF IInv, Parts
  <2>2. \A v \in Worker : Reducing(v, y)' <=> Reducing(v, y)
    BY <1>4 DEF Reducing
  <2>3. QED
    BY <1>5, <2>1, <2>2, TicketKeeps
<1>8. QED
  BY <1>2, <1>3, <1>6, <1>7

-----------------------------------------------------------------------------
(***************************************************************************)
(* The steps of the barrier.                                               *)
(***************************************************************************)
\* A CTA that meets the grid: where it is, and that it arrives for its cluster.
LEMMA AtCounter ==
    ASSUME IInv, NEW w \in Worker, AtBarrier(w) \/ pc[w] \in {"publish", "wait"}
    PROVE  /\ TypeOK /\ Standing(w) /\ status = "launched" /\ w \in Party /\ Meeting
           /\ at[w].step \in Nat /\ at[w].stage \in Stage /\ ~Elided(at[w].stage)
           /\ at[w].ordinal >= ServingL1TaskLimit(at[w].stage)
           /\ pc[w] \in Gone \cup {"task"}
           /\ BarrierInv(at[w].stage)
           /\ Freed(w, at[w].stage) = at[w].step
           /\ IsFiniteSet(Party) /\ Cardinality(Party) = Parties /\ Party \subseteq Worker
           /\ Parties \in Nat /\ iteration \in Nat
<1>1. TypeOK /\ Standing(w) /\ InCluster(w, w)
  BY DEF IInv
<1>2. at[w].step \in Nat /\ at[w].stage \in Stage /\ at[w].stage \in Nat
  BY <1>1, WorkerFields, StageOrder
<1>3. pc[w] \in {"task", "gathered", "publish", "wait"} /\ (Clustered => pc[w] # "task")
  BY DEF AtBarrier, StageWalked
<1>4. w \in Party
  BY <1>1, <1>3 DEF InCluster, Party
<1>5. Meeting
  BY <1>1, <1>3 DEF Standing, Meeting, Gone
<1>6. at[w].ordinal >= ServingL1TaskLimit(at[w].stage)
  BY <1>1, <1>3 DEF Standing, Gone, AtBarrier, StageWalked
<1>7. status = "launched" /\ ~Elided(at[w].stage)
  BY <1>1, <1>3 DEF Standing, TypeOK
<1>8. Freed(w, at[w].stage) = at[w].step
  BY <1>2, <1>3 DEF Freed, Past
<1>9. /\ IsFiniteSet(Party) /\ Cardinality(Party) = Parties /\ Party \subseteq Worker
      /\ Parties \in Nat /\ iteration \in Nat
  BY <1>1, PartyCount, BuildFields DEF TypeOK
<1>10. BarrierInv(at[w].stage)
  BY <1>2, <1>7 DEF IInv
<1>11. QED
  BY <1>1, <1>2, <1>3, <1>4, <1>5, <1>6, <1>7, <1>8, <1>9, <1>10 DEF Gone

LEMMA ArriveStep ==
    ASSUME IInv, NEW w \in Worker, ArriveBarrier(w)
    PROVE  IInv'
<1>1. /\ AtBarrier(w)
      /\ arrivals' = [arrivals EXCEPT ![at[w].stage] = @ + 1]
      /\ pc' = [pc EXCEPT ![w] =
                  IF ~RedBarrier /\ arrivals[at[w].stage] + 1 = Needed(w)
                  THEN "publish" ELSE "wait"]
      /\ at' = at
      /\ UNCHANGED <<build, status, iteration, steps, cur, epoch, ticket, ended>>
  BY DEF ArriveBarrier
<1>2. /\ TypeOK /\ Standing(w) /\ status = "launched" /\ w \in Party /\ Meeting
      /\ at[w].step \in Nat /\ at[w].stage \in Stage /\ ~Elided(at[w].stage)
      /\ at[w].ordinal >= ServingL1TaskLimit(at[w].stage)
      /\ pc[w] \in Gone \cup {"task"}
      /\ BarrierInv(at[w].stage)
      /\ Freed(w, at[w].stage) = at[w].step
      /\ IsFiniteSet(Party) /\ Cardinality(Party) = Parties /\ Party \subseteq Worker
      /\ Parties \in Nat /\ iteration \in Nat
  BY <1>1, AtCounter
<1>3. PICK t \in Stage, k \in Nat : t = at[w].stage /\ k = at[w].step
  BY <1>2
<1>4. pc[w] \in {"task", "gathered"} /\ (pc[w] = "gathered" <=> Clustered)
  BY <1>1 DEF AtBarrier, StageWalked
<1>5. /\ pc'[w] \in {"publish", "wait"}
      /\ pc'[w] = "publish" <=> ~RedBarrier /\ arrivals[t] + 1 = Needed(w)
      /\ \A v \in Worker \ {w} : pc'[v] = pc[v]
      /\ pc' \in [Worker -> {"task", "run", "handoff", "reduce", "done"} \cup Gone]
  BY <1>1, <1>2, <1>3 DEF TypeOK, Gone
<1>6. arrivals' \in [Stage -> Nat] /\ arrivals[t] \in Nat /\ arrivals'[t] = arrivals[t] + 1
      /\ \A s \in Stage \ {t} : arrivals'[s] = arrivals[s]
  BY <1>1, <1>2, <1>3 DEF TypeOK
<1>7. /\ TypeOK' /\ (\A v \in Worker : Standing(v))'
      /\ EndedInv' /\ (\A y \in Output : TicketInv(y))'
  <2>1. {w} \in SUBSET Worker /\ epoch' \in [Stage -> Nat]
    BY <1>1, <1>2 DEF TypeOK
  <2>2. \A v \in {w} : /\ pc[v] \in Gone \cup {"task"} /\ pc'[v] \in Gone
                       /\ at[v].ordinal >= ServingL1TaskLimit(at[v].stage)
                       /\ Meeting
                       /\ pc'[v] \in {"gathered", "scatter"} => Clustered
                       /\ pc'[v] = "publish" => ~RedBarrier
    BY <1>2, <1>5 DEF Gone
  <2>3. QED
    BY <1>1, <1>5, <1>6, <2>1, <2>2, PointInv
<1>8. ASSUME NEW u \in Worker, NEW v \in Worker
      PROVE  InCluster(u, v)'
  <2>1. InCluster(u, v)
    BY DEF IInv
  <2>2. CASE Clustered
    <3>1. pc[w] = "gathered"
      BY <1>4, <2>2
    <3>2. pc'[v] \in Gone <=> pc[v] \in Gone
      BY <1>5, <3>1 DEF Gone
    <3>3. u \notin Party => pc'[u] = pc[u]
      BY <1>2, <1>5
    <3>4. QED
      BY <1>1, <2>1, <3>2, <3>3, BuildSame DEF InCluster
  <2>3. CASE ~Clustered
    BY <1>1, <2>3, BuildSame DEF InCluster
  <2>4. QED
    BY <2>2, <2>3
<1>9. ASSUME NEW v \in Worker, NEW s \in Stage
      PROVE  /\ Freed(v, s)' = Freed(v, s)
             /\ Arrived(v, s)' = IF v = w /\ s = t THEN k + 1 ELSE Arrived(v, s)
             /\ Arrived(w, t) = k
             /\ Freed(v, s) \in Nat /\ Arrived(v, s) \in Nat
             /\ Arrived(v, s) <= Freed(v, s) + 1 /\ at[v].step \in Nat
  <2>1. /\ Freed(v, s) \in Nat /\ Arrived(v, s) \in Nat
        /\ Arrived(v, s) <= Freed(v, s) + 1 /\ at[v].step \in Nat
    BY <1>2, PastOrder, WorkerFields
  <2>2. /\ t \in Nat /\ Arrived(w, t) = k
    BY <1>3, <1>4, StageOrder DEF Arrived, Past
  <2>3. Freed(v, s)' = Freed(v, s)
    BY <1>1, <1>4, <1>5 DEF Freed, Past
  <2>4. CASE v = w /\ s = t
    BY <1>1, <1>3, <1>5, <2>1, <2>2, <2>3, <2>4 DEF Arrived, Past
  <2>5. CASE ~(v = w /\ s = t)
    <3>1. Arrived(v, s)' = Arrived(v, s)
      BY <1>1, <1>3, <1>5, <2>5 DEF Arrived, Past
    <3>2. QED
      BY <2>1, <2>2, <2>3, <2>5, <3>1
  <2>6. QED
    BY <2>4, <2>5
<1>10. ASSUME NEW s \in Stage, ~Elided(s), s # t
       PROVE  BarrierInv(s)'
  <2>1. BarrierInv(s) /\ arrivals'[s] = arrivals[s]
    BY <1>6, <1>10 DEF IInv
  <2>2. \A u, v \in Party : Freed(v, s)' <= Arrived(u, s)'
    BY <1>2, <1>9, <1>10, <2>1 DEF BarrierInv
  <2>3. \A v \in Worker : pc'[v] = "publish" /\ at'[v].stage = s =>
            pc[v] = "publish" /\ at[v].stage = s /\ at'[v].step = at[v].step
    BY <1>1, <1>3, <1>5, <1>10
  <2>4. QED
    BY <1>1, <1>2, <1>9, <1>10, <2>1, <2>2, <2>3, BarrierKeeps
<1>11. BarrierInv(t)'
  <2>1. BarrierInv(t) /\ \A u, v \in Party : Freed(v, t) <= Arrived(u, t)
    BY <1>2, <1>3 DEF BarrierInv
  <2>2. ASSUME NEW v \in Party
        PROVE  Arrived(v, t) \in {k, k + 1}
    <3>1. k <= Arrived(v, t) /\ Freed(v, t) <= k
      BY <1>2, <1>3, <1>9, <2>1
    <3>2. Arrived(v, t) \in Nat /\ Freed(v, t) \in Nat /\ Arrived(v, t) <= Freed(v, t) + 1
      BY <1>2, <1>9
    <3>3. QED
      BY <3>1, <3>2
  <2>3. PICK f, g, c, target :
            f = ArrivedAt(t) /\ g = ArrivedAt(t)' /\ c = arrivals[t] /\ target = RoundTarget(Parties, iteration, k)
    OBVIOUS
  <2>4. Raises(Party, f, g, w, k)
    <3>1. \A v \in Party : f[v] = Arrived(v, t) /\ g[v] = Arrived(v, t)'
      BY <1>1, <2>3, BuildSame DEF ArrivedAt
    <3>2. QED
      BY <1>2, <1>9, <2>2, <3>1 DEF Raises
  <2>5. /\ Tally(Party, f, c, Parties, iteration) /\ c \in Nat /\ target \in Nat
    BY <1>2, <1>6, <2>1, <2>3 DEF BarrierInv, RoundTarget
  <2>6. Tally(Party, g, c + 1, Parties, iteration)
    BY <1>2, <2>3, <2>4, <2>5, TallyStep
  <2>7. ASSUME c + 1 = target
        PROVE  AllPast(Party, g, k)
    <3>1. PICK P, size, base : P = Party /\ size = Parties /\ base = iteration /\ base \in Nat
      BY <1>2
    <3>2. /\ Raises(P, f, g, w, k) /\ IsFiniteSet(P) /\ Cardinality(P) = size /\ size \in Nat
          /\ Tally(P, f, c, size, base) /\ target = RoundTarget(size, base, k)
      BY <1>2, <2>3, <2>4, <2>5, <3>1
    <3>3. AllPast(P, g, k)
      <4>1. k \in Nat /\ c \in Nat /\ target \in Nat /\ base \in Nat
        BY <1>3, <2>5, <3>1
      <4>2. QED
        BY <2>7, <3>2, <4>1, TallyLast
    <3>4. QED
      BY <3>1, <3>3
  <2>8. Tally(Party, ArrivedAt(t), arrivals[t], Parties, iteration)'
    BY <1>1, <1>6, <2>3, <2>6, BuildSame
  <2>9. (\A u, v \in Party : Freed(v, t) <= Arrived(u, t))'
    <3> SUFFICES ASSUME NEW u \in Party, NEW v \in Party
                 PROVE  Freed(v, t)' <= Arrived(u, t)'
      BY <1>1, BuildSame
    <3>1. Freed(v, t)' = Freed(v, t) /\ Freed(v, t) <= Arrived(u, t)
      BY <1>2, <1>9, <2>1
    <3>2. Arrived(u, t)' >= Arrived(u, t) /\ Arrived(u, t)' \in Nat
      BY <1>2, <1>9
    <3>3. QED
      BY <1>2, <1>9, <3>1, <3>2
  <2>10. ASSUME NEW v \in Party
         PROVE  Arrived(v, t)' >= Arrived(v, t) /\ Arrived(v, t)' \in Nat /\ Arrived(v, t) \in Nat
    BY <1>2, <1>9
  <2>11. (\A n \in Nat : epoch[t] >= iteration + n + 1 =>
                \A v \in Party : Arrived(v, t) >= n + 1)'
    <3> SUFFICES ASSUME NEW n \in Nat, epoch[t] >= iteration + n + 1, NEW v \in Party
                 PROVE  Arrived(v, t)' >= n + 1
      BY <1>1, BuildSame
    <3>1. Arrived(v, t) >= n + 1
      BY <1>2, <2>1 DEF BarrierInv
    <3>2. QED
      BY <2>10, <3>1
  <2>12. (\A x \in Worker : pc[x] = "publish" /\ at[x].stage = t =>
          \A v \in Party : Arrived(v, t) >= at[x].step + 1)'
    <3> SUFFICES ASSUME NEW x \in Worker, pc'[x] = "publish", at[x].stage = t, NEW v \in Party
                 PROVE  Arrived(v, t)' >= at[x].step + 1
      BY <1>1, BuildSame
    <3>1. CASE x = w
      <4>1. c + 1 = target
        BY <1>3, <1>5, <2>3, <3>1 DEF Needed, Iteration, RoundTarget
      <4>2. g[v] = k + 1
        BY <2>7, <4>1 DEF AllPast
      <4>3. g[v] = Arrived(v, t)'
        BY <1>1, <2>3, BuildSame DEF ArrivedAt
      <4>4. QED
        BY <1>3, <3>1, <4>2, <4>3
    <3>2. CASE x # w
      <4>1. Arrived(v, t) >= at[x].step + 1
        BY <1>5, <2>1, <3>2 DEF BarrierInv
      <4>2. at[x].step \in Nat
        BY <1>9
      <4>3. QED
        BY <2>10, <4>1, <4>2
    <3>3. QED
      BY <3>1, <3>2
  <2>13. status' = "launched"
    BY <1>1, <1>2
  <2>14. QED
    BY <2>8, <2>9, <2>11, <2>12, <2>13 DEF BarrierInv
<1>12. QED
  BY <1>7, <1>8, <1>10, <1>11 DEF IInv

\* w gets past the counter once every party has arrived there.
LEMMA ReleaseInv ==
    ASSUME IInv, NEW w \in Worker, pc[w] \in {"publish", "wait"}, Released(w),
           \A v \in Party : Arrived(v, at[w].stage) >= at[w].step + 1,
           UNCHANGED <<build, status, iteration, steps, cur, arrivals, ticket, ended>>,
           epoch' = epoch \/ epoch' = [epoch EXCEPT ![at[w].stage] = Iteration(w) + 1]
    PROVE  IInv'
<1>1. /\ TypeOK /\ Standing(w) /\ status = "launched" /\ w \in Party /\ Meeting
      /\ at[w].step \in Nat /\ at[w].stage \in Stage /\ ~Elided(at[w].stage)
      /\ at[w].ordinal >= ServingL1TaskLimit(at[w].stage)
      /\ BarrierInv(at[w].stage)
      /\ Party \subseteq Worker /\ iteration \in Nat
  BY AtCounter
<1>2. PICK t \in Stage, k \in Nat : t = at[w].stage /\ k = at[w].step
  BY <1>1
<1>3. /\ epoch' \in [Stage -> Nat]
      /\ \A s \in Stage \ {t} : epoch'[s] = epoch[s]
      /\ epoch'[t] = epoch[t] \/ epoch'[t] = iteration + k + 1
  <2>1. epoch \in [Stage -> Nat]
    BY <1>1 DEF TypeOK
  <2>2. CASE epoch' = epoch
    BY <2>1, <2>2
  <2>3. CASE epoch' = [epoch EXCEPT ![at[w].stage] = Iteration(w) + 1]
    <3>1. Iteration(w) + 1 \in Nat /\ Iteration(w) + 1 = iteration + k + 1
      BY <1>1, <1>2 DEF Iteration
    <3>2. epoch' = [epoch EXCEPT ![t] = iteration + k + 1] /\ iteration + k + 1 \in Nat
      BY <1>2, <2>3, <3>1
    <3>3. QED
      BY <1>2, <2>1, <3>2
  <2>4. QED
    BY <2>2, <2>3
<1>4. ASSUME NEW v \in Worker, NEW s \in Stage
      PROVE  /\ Freed(v, s) \in Nat /\ Arrived(v, s) \in Nat /\ at[v].step \in Nat
             /\ Freed(w, t) = k /\ Arrived(w, t) = k + 1
  <2>1. Freed(v, s) \in Nat /\ Arrived(v, s) \in Nat /\ at[v].step \in Nat
    BY <1>1, PastOrder, WorkerFields
  <2>2. Freed(w, t) = k /\ Arrived(w, t) = k + 1
    BY <1>2, StageOrder DEF Freed, Arrived, Past
  <2>3. QED
    BY <2>1, <2>2
<1>5. /\ TypeOK' /\ (\A v \in Worker : Standing(v))'
      /\ EndedInv' /\ (\A y \in Output : TicketInv(y))'
      /\ (\A u, v \in Worker : InCluster(u, v))'
      /\ \A v \in Worker \ {w} : at'[v] = at[v] /\ pc'[v] = pc[v]
      /\ pc'[w] # "publish"
      /\ \A s \in Stage : ~Elided(s) =>
            /\ Freed(w, s)' = IF s = t THEN k + 1 ELSE Freed(w, s)
            /\ Arrived(w, s)' = Arrived(w, s)
  <2>1. CASE Clustered
    <3>1. at' = at /\ pc' = [pc EXCEPT ![w] = "scatter"]
      BY <2>1 DEF Released
    <3>2. /\ pc'[w] = "scatter" /\ \A v \in Worker \ {w} : pc'[v] = pc[v]
          /\ pc' \in [Worker -> {"task", "run", "handoff", "reduce", "done"} \cup Gone]
      BY <1>1, <3>1 DEF TypeOK, Gone
    <3>3. /\ {w} \in SUBSET Worker
          /\ \A v \in {w} : /\ pc[v] \in Gone \cup {"task"} /\ pc'[v] \in Gone
                            /\ at[v].ordinal >= ServingL1TaskLimit(at[v].stage)
                            /\ Meeting
                            /\ pc'[v] \in {"gathered", "scatter"} => Clustered
                            /\ pc'[v] = "publish" => ~RedBarrier
      BY <1>1, <2>1, <3>2 DEF Gone
    <3>4. arrivals' \in [Stage -> Nat]
      BY <1>1 DEF TypeOK
    <3>5. /\ TypeOK' /\ (\A v \in Worker : Standing(v))'
          /\ EndedInv' /\ (\A y \in Output : TicketInv(y))'
      <4>1. UNCHANGED <<build, status, iteration, steps, cur, ticket, ended>>
        OBVIOUS
      <4>2. at' = at /\ epoch' \in [Stage -> Nat]
        BY <1>3, <3>1
      <4>3. QED
        BY <3>2, <3>3, <3>4, <4>1, <4>2, PointInv
    <3>6. ASSUME NEW u \in Worker, NEW v \in Worker
          PROVE  InCluster(u, v)'
      <4>1. InCluster(u, v)
        BY DEF IInv
      <4>2. pc'[v] \in Gone <=> pc[v] \in Gone
        BY <3>2 DEF Gone
      <4>3. u \notin Party => pc'[u] = pc[u]
        BY <1>1, <3>2
      <4>4. QED
        BY <3>1, <4>1, <4>2, <4>3, BuildSame DEF InCluster
    <3>7. ASSUME NEW s \in Stage
          PROVE  /\ Freed(w, s)' = IF s = t THEN k + 1 ELSE Freed(w, s)
                 /\ Arrived(w, s)' = Arrived(w, s)
      <4>1. CASE s = t
        BY <1>2, <3>1, <3>2, <4>1, StageOrder DEF Freed, Arrived, Past
      <4>2. CASE s # t
        BY <1>2, <3>1, <3>2, <4>2 DEF Freed, Arrived, Past
      <4>3. QED
        BY <4>1, <4>2
    <3>8. QED
      BY <3>1, <3>2, <3>5, <3>6, <3>7
  <2>2. CASE ~Clustered
    <3>1. Leave({w}) /\ {w} \in SUBSET Worker
      BY <2>2 DEF Released
    <3>2. \A v \in {w} : pc[v] \in Gone \cup {"task"}
                         /\ at[v].ordinal >= ServingL1TaskLimit(at[v].stage)
      BY <1>1 DEF Gone
    <3>3. /\ TypeOK' /\ (\A v \in Worker : Standing(v))'
          /\ EndedInv' /\ (\A y \in Output : TicketInv(y))'
          /\ Leaves(w)
          /\ \A v \in Worker \ {w} : at'[v] = at[v] /\ pc'[v] = pc[v]
      BY <1>3, <3>1, <3>2, LeaveInv
    <3>4. (\A u, v \in Worker : InCluster(u, v))'
      BY <2>2, BuildSame DEF InCluster
    <3>5. pc'[w] # "publish"
      BY <3>3 DEF Leaves
    <3>6. ASSUME NEW s \in Stage, ~Elided(s)
          PROVE  /\ Freed(w, s)' = IF s = t THEN k + 1 ELSE Freed(w, s)
                 /\ Arrived(w, s)' = Arrived(w, s)
      BY <1>1, <1>2, <1>4, <3>3, <3>6, LeavePast
    <3>7. QED
      BY <3>3, <3>4, <3>5, <3>6
  <2>3. QED
    BY <2>1, <2>2
<1>6. ASSUME NEW v \in Worker, NEW s \in Stage, ~Elided(s)
      PROVE  /\ Freed(v, s)' = IF v = w /\ s = t THEN k + 1 ELSE Freed(v, s)
             /\ Arrived(v, s)' = Arrived(v, s)
  <2>1. CASE v = w
    BY <1>5, <1>6, <2>1
  <2>2. CASE v # w
    BY <1>5, <2>2 DEF Freed, Arrived, Past
  <2>3. QED
    BY <2>1, <2>2
<1>7. ASSUME NEW s \in Stage, ~Elided(s)
      PROVE  BarrierInv(s)'
  <2>1. BarrierInv(s) /\ arrivals'[s] = arrivals[s]
    BY <1>7 DEF IInv
  <2>2. \A u, v \in Party : Freed(v, s)' <= Arrived(u, s)'
    <3> SUFFICES ASSUME NEW u \in Party, NEW v \in Party
                 PROVE  Freed(v, s)' <= Arrived(u, s)'
      OBVIOUS
    <3>1. u \in Worker /\ v \in Worker /\ Arrived(u, s)' = Arrived(u, s)
      BY <1>1, <1>6, <1>7
    <3>2. CASE v = w /\ s = t
      BY <1>2, <1>6, <1>7, <3>1, <3>2
    <3>3. CASE ~(v = w /\ s = t)
      BY <1>6, <1>7, <2>1, <3>1, <3>3 DEF BarrierInv
    <3>4. QED
      BY <3>2, <3>3
  <2>3. \A v \in Worker : pc'[v] = "publish" /\ at'[v].stage = s =>
            pc[v] = "publish" /\ at[v].stage = s /\ at'[v].step = at[v].step
    BY <1>5
  <2>4. \A n \in Nat : epoch'[s] >= iteration + n + 1 =>
            epoch[s] >= iteration + n + 1 \/ \A v \in Party : Arrived(v, s) >= n + 1
    <3> SUFFICES ASSUME NEW n \in Nat, epoch'[s] >= iteration + n + 1, epoch'[s] # epoch[s], NEW v \in Party
                 PROVE  Arrived(v, s) >= n + 1
      OBVIOUS
    <3>1. s = t /\ epoch'[s] = iteration + k + 1
      BY <1>3
    <3>2. k >= n
      BY <1>1, <3>1
    <3>3. Arrived(v, s) >= k + 1 /\ Arrived(v, s) \in Nat
      BY <1>1, <1>2, <1>4, <3>1
    <3>4. QED
      BY <3>2, <3>3
  <2>5. \A v \in Party : /\ Arrived(v, s) \in Nat /\ Arrived(v, s)' \in Nat
                         /\ Arrived(v, s) <= Arrived(v, s)'
                         /\ Meeting => Arrived(v, s)' = Arrived(v, s)
    BY <1>1, <1>4, <1>6, <1>7
  <2>6. \A v \in Worker : at[v].step \in Nat
    BY <1>4
  <2>7. status # "idle" /\ UNCHANGED <<build, status, iteration>>
    BY <1>1
  <2>8. QED
    BY <2>1, <2>2, <2>3, <2>4, <2>5, <2>6, <2>7, BarrierKeeps
<1>8. QED
  BY <1>5, <1>7 DEF IInv

LEMMA PublishStep ==
    ASSUME IInv, NEW w \in Worker, PublishBarrier(w)
    PROVE  IInv'
<1>1. /\ pc[w] = "publish" /\ Released(w)
      /\ epoch' = [epoch EXCEPT ![at[w].stage] = Iteration(w) + 1]
      /\ UNCHANGED <<build, status, iteration, steps, cur, arrivals, ticket, ended>>
  BY DEF PublishBarrier
<1>2. \A v \in Party : Arrived(v, at[w].stage) >= at[w].step + 1
  BY <1>1, AtCounter DEF BarrierInv
<1>3. QED
  BY <1>1, <1>2, ReleaseInv

LEMMA AwaitStep ==
    ASSUME IInv, NEW w \in Worker, AwaitBarrier(w)
    PROVE  IInv'
<1>1. /\ pc[w] = "wait" /\ Released(w) /\ BarrierOpen(w)
      /\ UNCHANGED <<build, status, iteration, steps, cur, arrivals, epoch, ticket, ended>>
  BY DEF AwaitBarrier, counterVars
<1>2. /\ TypeOK /\ status = "launched" /\ w \in Party /\ Meeting
      /\ at[w].step \in Nat /\ at[w].stage \in Stage
      /\ BarrierInv(at[w].stage)
      /\ Freed(w, at[w].stage) = at[w].step
      /\ IsFiniteSet(Party) /\ Cardinality(Party) = Parties /\ Party \subseteq Worker
      /\ Parties \in Nat /\ iteration \in Nat
  BY <1>1, AtCounter
<1>3. PICK t \in Stage, k \in Nat : t = at[w].stage /\ k = at[w].step
  BY <1>2
<1>4. \A u, v \in Party : Freed(v, t) <= Arrived(u, t)
  BY <1>2, <1>3 DEF BarrierInv
<1>5. \A v \in Party : /\ Arrived(v, t) \in Nat /\ Freed(v, t) \in Nat
                       /\ Arrived(v, t) <= Freed(v, t) + 1
  BY <1>2, PastOrder
<1>6. CASE RedBarrier
  <2>1. PICK P, f, size, base, c : P = Party /\ f = ArrivedAt(t) /\ size = Parties
                                   /\ base = iteration /\ c = arrivals[t]
    OBVIOUS
  <2>2. Tally(P, f, c, size, base)
    BY <1>2, <1>3, <2>1 DEF BarrierInv
  <2>3. \A v \in P : f[v] = Arrived(v, t)
    BY <2>1 DEF ArrivedAt
  <2>4. (\A v \in P : f[v] \in Nat) /\ (\A v \in P : f[v] >= k)
    BY <1>2, <1>3, <1>4, <1>5, <2>1, <2>3
  <2>5. \A u, v \in P : f[u] <= f[v] + 1
    BY <1>4, <1>5, <2>1, <2>3
  <2>6. c >= size * (base + k + 1)
    BY <1>1, <1>3, <1>6, <2>1 DEF BarrierOpen, Needed, Iteration
  <2>7. IsFiniteSet(P) /\ size \in Nat /\ Cardinality(P) = size /\ base \in Nat
    BY <1>2, <2>1
  <2>8. \A v \in P : f[v] >= k + 1
    BY <2>2, <2>4, <2>5, <2>6, <2>7, TallyComplete
  <2>9. QED
    BY <1>1, <1>3, <2>1, <2>3, <2>8, ReleaseInv
<1>7. CASE ~RedBarrier
  <2>1. epoch[t] >= iteration + k + 1
    BY <1>1, <1>3, <1>7 DEF BarrierOpen, Iteration
  <2>2. \A v \in Party : Arrived(v, t) >= k + 1
    BY <1>2, <1>3, <2>1 DEF BarrierInv
  <2>3. QED
    BY <1>1, <1>3, <2>2, ReleaseInv
<1>8. QED
  BY <1>6, <1>7

-----------------------------------------------------------------------------
(***************************************************************************)
(* The steps of a cluster.                                                 *)
(***************************************************************************)
\* Which stage follows does not depend on the CTA.
LEMMA EnterTogether ==
    ASSUME NEW v, NEW w, NEW n, NEW s
    PROVE  /\ EnterStage(v, n, s).step = EnterStage(w, n, s).step
           /\ EnterStage(v, n, s).stage = EnterStage(w, n, s).stage
BY DEF EnterStage

\* A cluster leaves a stage as one.
LEMMA LeaveTogether ==
    ASSUME IInv, NEW c, Clustered,
           \A w \in Cluster(c) : Leaves(w),
           \A w \in Worker \ Cluster(c) : at'[w] = at[w] /\ pc'[w] = pc[w],
           build' = build,
           NEW u \in Worker, NEW v \in Worker
    PROVE  InCluster(u, v)'
<1>1. InCluster(u, v) /\ TypeOK
  BY DEF IInv
<1> SUFFICES ASSUME u \div ClusterDim = v \div ClusterDim
             PROVE  /\ at'[u].step = at'[v].step
                    /\ at'[u].stage = at'[v].stage
                    /\ u \notin Party => pc'[u] \notin {"gathered", "publish", "wait"}
                    /\ u \notin Party /\ v \in Party => (pc'[u] = "scatter" <=> pc'[v] \in Gone)
  BY BuildSame DEF InCluster
<1>2. CASE u \in Cluster(c)
  <2>1. v \in Cluster(c)
    BY <1>2 DEF Cluster
  <2>2. pc'[u] \in {"task", "done"} /\ pc'[v] \in {"task", "done"}
    BY <1>1, <1>2, <2>1, LeaveFields
  <2>3. at[u].step = at[v].step /\ at[u].stage = at[v].stage
    BY <1>1 DEF InCluster
  <2>4. /\ at'[u] = EnterStage(u, at[u].step, at[u].stage + 1)
        /\ at'[v] = EnterStage(v, at[v].step, at[v].stage + 1)
    BY <1>2, <2>1 DEF Leaves
  <2>5. PICK n, s : n = at[u].step /\ s = at[u].stage + 1
    OBVIOUS
  <2>6. at'[u] = EnterStage(u, n, s) /\ at'[v] = EnterStage(v, n, s)
    BY <2>3, <2>4, <2>5
  <2>7. at'[u].step = at'[v].step /\ at'[u].stage = at'[v].stage
    BY <2>6, EnterTogether
  <2>8. QED
    BY <2>2, <2>7 DEF Gone
<1>3. CASE u \notin Cluster(c)
  <2>1. v \notin Cluster(c)
    BY <1>3 DEF Cluster
  <2>2. QED
    BY <1>1, <1>3, <2>1 DEF InCluster
<1>4. QED
  BY <1>2, <1>3

LEMMA ClusterGatherStep ==
    ASSUME IInv, NEW w \in Worker, Rank(w) = 0, ClusterGather(w \div ClusterDim)
    PROVE  IInv'
<1>1. PICK c : c = w \div ClusterDim
  OBVIOUS
<1>2. /\ Clustered /\ \A v \in Cluster(c) : StageWalked(v)
      /\ \/ Clusters <= 1 /\ Leave(Cluster(c))
         \/ /\ ~(Clusters <= 1)
            /\ pc' = [v \in Worker |->
                        IF v \notin Cluster(c) THEN pc[v]
                        ELSE IF Rank(v) = 0 THEN "gathered" ELSE "scatter"]
            /\ at' = at
      /\ UNCHANGED <<build, status, iteration, steps, cur, arrivals, epoch, ticket, ended>>
  BY <1>1 DEF ClusterGather, counterVars
<1>3. /\ TypeOK /\ w \in Cluster(c) /\ Cluster(c) \in SUBSET Worker /\ Party \subseteq Worker
      /\ epoch' \in [Stage -> Nat] /\ arrivals' \in [Stage -> Nat] /\ iteration \in Nat
  BY <1>1, <1>2 DEF IInv, TypeOK, Cluster, Party
<1>4. \A v \in Cluster(c) : pc[v] = "task" /\ at[v].ordinal >= ServingL1TaskLimit(at[v].stage)
  BY <1>2 DEF StageWalked
<1>5. status # "idle"
  BY <1>3, <1>4 DEF IInv, Standing
<1>6. \A v \in Worker, s \in Stage : /\ Freed(v, s) \in Nat /\ Arrived(v, s) \in Nat
                                     /\ at[v].step \in Nat
  BY <1>3, PastOrder, WorkerFields
<1>7. CASE ~(Clusters <= 1)
  <2>1. /\ at' = at /\ Meeting
        /\ \A v \in Worker : pc'[v] = IF v \notin Cluster(c) THEN pc[v]
                                      ELSE IF Rank(v) = 0 THEN "gathered" ELSE "scatter"
        /\ pc' \in [Worker -> {"task", "run", "handoff", "reduce", "done"} \cup Gone]
    <3>1. at' = at /\ Meeting
      BY <1>2, <1>3, <1>7, BuildFields DEF Meeting, TypeOK
    <3>2. pc' = [v \in Worker |->
                        IF v \notin Cluster(c) THEN pc[v]
                        ELSE IF Rank(v) = 0 THEN "gathered" ELSE "scatter"]
      BY <1>2, <1>7
    <3>3. QED
      BY <1>3, <3>1, <3>2 DEF TypeOK, Gone
  <2>2. /\ TypeOK' /\ (\A v \in Worker : Standing(v))'
        /\ EndedInv' /\ (\A y \in Output : TicketInv(y))'
    <3>1. \A v \in Cluster(c) : /\ pc[v] \in Gone \cup {"task"} /\ pc'[v] \in Gone
                                /\ at[v].ordinal >= ServingL1TaskLimit(at[v].stage)
                                /\ Meeting
                                /\ pc'[v] \in {"gathered", "scatter"} => Clustered
                                /\ pc'[v] = "publish" => ~RedBarrier
      BY <1>2, <1>3, <1>4, <2>1 DEF Gone
    <3>2. \A v \in Worker \ Cluster(c) : pc'[v] = pc[v]
      BY <2>1
    <3>3. UNCHANGED <<build, status, iteration, steps, cur, ticket, ended>>
      BY <1>2
    <3>4. QED
      BY <1>3, <2>1, <3>1, <3>2, <3>3, PointInv
  <2>3. ASSUME NEW u \in Worker, NEW v \in Worker
        PROVE  InCluster(u, v)'
    <3>1. InCluster(u, v)
      BY DEF IInv
    <3> SUFFICES ASSUME u \div ClusterDim = v \div ClusterDim
                 PROVE  /\ at'[u].step = at'[v].step
                        /\ at'[u].stage = at'[v].stage
                        /\ u \notin Party => pc'[u] \notin {"gathered", "publish", "wait"}
                        /\ u \notin Party /\ v \in Party => (pc'[u] = "scatter" <=> pc'[v] \in Gone)
      BY <1>2, BuildSame DEF InCluster
    <3>2. u \in Cluster(c) <=> v \in Cluster(c)
      BY DEF Cluster
    <3>3. CASE u \in Cluster(c)
      BY <1>2, <2>1, <3>1, <3>2, <3>3 DEF InCluster, Party, Gone
    <3>4. CASE u \notin Cluster(c)
      BY <1>2, <2>1, <3>1, <3>2, <3>4 DEF InCluster
    <3>5. QED
      BY <3>3, <3>4
  <2>4. ASSUME NEW v \in Party, NEW s \in Stage
        PROVE  Freed(v, s)' = Freed(v, s) /\ Arrived(v, s)' = Arrived(v, s)
    <3>1. v \in Worker /\ (Clustered => Rank(v) = 0)
      BY <1>3 DEF Party
    <3>2. CASE v \in Cluster(c)
      <4>1. pc[v] = "task" /\ pc'[v] = "gathered"
        BY <1>2, <1>4, <2>1, <3>1, <3>2
      <4>2. QED
        BY <2>1, <4>1 DEF Freed, Arrived, Past
    <3>3. CASE v \notin Cluster(c)
      BY <2>1, <3>1, <3>3 DEF Freed, Arrived, Past
    <3>4. QED
      BY <3>2, <3>3
  <2>5. ASSUME NEW s \in Stage, ~Elided(s)
        PROVE  BarrierInv(s)'
    <3>1. BarrierInv(s) /\ arrivals'[s] = arrivals[s] /\ epoch'[s] = epoch[s]
          /\ UNCHANGED <<build, status, iteration>>
      BY <1>2, <2>5 DEF IInv
    <3>2. \A u, v \in Party : Freed(v, s)' <= Arrived(u, s)'
      BY <2>4, <3>1 DEF BarrierInv
    <3>3. \A v \in Worker : pc'[v] = "publish" /\ at'[v].stage = s =>
            pc[v] = "publish" /\ at[v].stage = s /\ at'[v].step = at[v].step
      BY <2>1
    <3>4. \A v \in Party : /\ Arrived(v, s) \in Nat /\ Arrived(v, s)' \in Nat
                           /\ Arrived(v, s) <= Arrived(v, s)'
                           /\ Meeting => Arrived(v, s)' = Arrived(v, s)
      BY <1>3, <1>6, <2>4
    <3>5. \A v \in Worker : at[v].step \in Nat
      BY <1>6
    <3>6. \A k \in Nat : epoch'[s] >= iteration + k + 1 =>
              epoch[s] >= iteration + k + 1 \/ \A v \in Party : Arrived(v, s) >= k + 1
      BY <3>1
    <3>7. QED
      BY <3>1, <3>2, <3>3, <3>4, <3>5, <3>6, BarrierKeeps
  <2>6. QED
    BY <2>2, <2>3, <2>5 DEF IInv
<1>8. CASE Clusters <= 1
  <2>1. Leave(Cluster(c)) /\ ~Meeting
    BY <1>2, <1>3, <1>8, BuildFields DEF Meeting, TypeOK
  <2>2. /\ TypeOK' /\ (\A v \in Worker : Standing(v))'
        /\ EndedInv' /\ (\A y \in Output : TicketInv(y))'
        /\ \A v \in Cluster(c) : Leaves(v)
        /\ \A v \in Worker \ Cluster(c) : at'[v] = at[v] /\ pc'[v] = pc[v]
    <3>1. UNCHANGED <<build, status, iteration, steps, cur, arrivals, ticket, ended>>
      BY <1>2
    <3>2. \A v \in Cluster(c) : pc[v] \in Gone \cup {"task"}
                                /\ at[v].ordinal >= ServingL1TaskLimit(at[v].stage)
      BY <1>4
    <3>3. QED
      BY <1>3, <2>1, <3>1, <3>2, LeaveInv
  <2>3. ASSUME NEW u \in Worker, NEW v \in Worker
        PROVE  InCluster(u, v)'
    BY <1>2, <2>2, LeaveTogether
  <2>4. ASSUME NEW v \in Worker, NEW s \in Stage, ~Elided(s)
        PROVE  /\ Freed(v, s)' \in Nat /\ Arrived(v, s)' \in Nat
               /\ Freed(v, s)' <= Arrived(v, s)' /\ Arrived(v, s) <= Arrived(v, s)'
    <3>1. CASE v \in Cluster(c)
      <4>1. /\ Freed(v, s)' = IF s = at[v].stage THEN at[v].step + 1 ELSE Freed(v, s)
            /\ Arrived(v, s)' = IF s = at[v].stage THEN at[v].step + 1 ELSE Arrived(v, s)
        BY <1>3, <2>2, <2>4, <3>1, LeavePast
      <4>2. /\ Freed(v, s) <= Arrived(v, s) /\ Arrived(v, s) <= at[v].step + 1
            /\ Freed(v, s) \in Nat /\ Arrived(v, s) \in Nat /\ at[v].step \in Nat
            /\ Arrived(v, s) <= Walked(v, s) /\ Walked(v, s) <= at[v].step + 1 /\ Walked(v, s) \in Nat
        BY <1>3, <1>6, PastOrder
      <4>3. QED
        BY <4>1, <4>2
    <3>2. CASE v \notin Cluster(c)
      <4>1. Freed(v, s)' = Freed(v, s) /\ Arrived(v, s)' = Arrived(v, s)
        BY <2>2, <3>2 DEF Freed, Arrived, Past
      <4>2. Freed(v, s) \in Nat /\ Arrived(v, s) \in Nat /\ Freed(v, s) <= Arrived(v, s)
        BY <1>3, PastOrder
      <4>3. QED
        BY <4>1, <4>2
    <3>3. QED
      BY <3>1, <3>2
  <2>5. \A u, v \in Party : u = v
    <3>1. IsFiniteSet(Party) /\ Cardinality(Party) = 1
      BY <1>2, <1>3, <1>8, PartyCount, BuildFields DEF TypeOK, Parties
    <3>2. \E v : Party = {v}
      BY <3>1, FS_Singleton
    <3>3. QED
      BY <3>2
  <2>6. ASSUME NEW s \in Stage, ~Elided(s)
        PROVE  BarrierInv(s)'
    <3>1. BarrierInv(s) /\ arrivals'[s] = arrivals[s] /\ epoch'[s] = epoch[s]
          /\ UNCHANGED <<build, status, iteration>>
      BY <1>2, <2>6 DEF IInv
    <3>2. \A u, v \in Party : Freed(v, s)' <= Arrived(u, s)'
      BY <1>3, <2>4, <2>5, <2>6
    <3>3. \A v \in Worker : pc'[v] = "publish" /\ at'[v].stage = s =>
            pc[v] = "publish" /\ at[v].stage = s /\ at'[v].step = at[v].step
      BY <2>2 DEF Leaves
    <3>4. \A v \in Party : /\ Arrived(v, s) \in Nat /\ Arrived(v, s)' \in Nat
                           /\ Arrived(v, s) <= Arrived(v, s)'
                           /\ Meeting => Arrived(v, s)' = Arrived(v, s)
      BY <1>3, <1>6, <2>1, <2>4, <2>6
    <3>5. \A v \in Worker : at[v].step \in Nat
      BY <1>6
    <3>6. \A k \in Nat : epoch'[s] >= iteration + k + 1 =>
              epoch[s] >= iteration + k + 1 \/ \A v \in Party : Arrived(v, s) >= k + 1
      BY <3>1
    <3>7. QED
      BY <3>1, <3>2, <3>3, <3>4, <3>5, <3>6, BarrierKeeps
  <2>7. QED
    BY <2>2, <2>3, <2>6 DEF IInv
<1>9. QED
  BY <1>7, <1>8

LEMMA ClusterScatterStep ==
    ASSUME IInv, NEW w \in Worker, ClusterScatter(w \div ClusterDim)
    PROVE  IInv'
<1>1. PICK c : c = w \div ClusterDim
  OBVIOUS
<1>2. /\ \A v \in Cluster(c) : pc[v] = "scatter"
      /\ Leave(Cluster(c))
      /\ UNCHANGED <<build, status, iteration, steps, cur, arrivals, epoch, ticket, ended>>
  BY <1>1 DEF ClusterScatter, counterVars
<1>3. /\ TypeOK /\ w \in Cluster(c) /\ Cluster(c) \in SUBSET Worker /\ Party \subseteq Worker
      /\ epoch' \in [Stage -> Nat] /\ arrivals' \in [Stage -> Nat] /\ iteration \in Nat
  BY <1>1, <1>2 DEF IInv, TypeOK, Cluster, Party
<1>4. \A v \in Cluster(c) : /\ pc[v] \in Gone \cup {"task"} /\ Clustered
                            /\ at[v].ordinal >= ServingL1TaskLimit(at[v].stage)
  BY <1>2, <1>3 DEF IInv, Standing, Gone
<1>5. status # "idle"
  BY <1>2, <1>3 DEF IInv, Standing
<1>6. /\ TypeOK' /\ (\A v \in Worker : Standing(v))'
      /\ EndedInv' /\ (\A y \in Output : TicketInv(y))'
      /\ \A v \in Cluster(c) : Leaves(v)
      /\ \A v \in Worker \ Cluster(c) : at'[v] = at[v] /\ pc'[v] = pc[v]
  <2>1. UNCHANGED <<build, status, iteration, steps, cur, arrivals, ticket, ended>>
    BY <1>2
  <2>2. QED
    BY <1>2, <1>3, <1>4, <2>1, LeaveInv
<1>7. ASSUME NEW u \in Worker, NEW v \in Worker
      PROVE  InCluster(u, v)'
  BY <1>2, <1>3, <1>4, <1>6, LeaveTogether
<1>8. ASSUME NEW v \in Worker, NEW s \in Stage, ~Elided(s)
      PROVE  /\ Freed(v, s)' = Freed(v, s) /\ Arrived(v, s)' = Arrived(v, s)
             /\ Arrived(v, s) \in Nat /\ at[v].step \in Nat
  <2>1. Arrived(v, s) \in Nat /\ at[v].step \in Nat
    BY <1>3, PastOrder, WorkerFields
  <2>2. CASE v \in Cluster(c)
    <3>1. /\ Freed(v, s)' = IF s = at[v].stage THEN at[v].step + 1 ELSE Freed(v, s)
          /\ Arrived(v, s)' = IF s = at[v].stage THEN at[v].step + 1 ELSE Arrived(v, s)
      BY <1>3, <1>6, <1>8, <2>2, LeavePast
    <3>2. s = at[v].stage => Freed(v, s) = at[v].step + 1 /\ Arrived(v, s) = at[v].step + 1
      BY <1>2, <2>2, StageOrder DEF Freed, Arrived, Past
    <3>3. QED
      BY <2>1, <3>1, <3>2
  <2>3. CASE v \notin Cluster(c)
    BY <1>6, <2>1, <2>3 DEF Freed, Arrived, Past
  <2>4. QED
    BY <2>2, <2>3
<1>9. ASSUME NEW s \in Stage, ~Elided(s)
      PROVE  BarrierInv(s)'
  <2>1. BarrierInv(s) /\ arrivals'[s] = arrivals[s] /\ epoch'[s] = epoch[s]
        /\ UNCHANGED <<build, status, iteration>>
    BY <1>2, <1>9 DEF IInv
  <2>2. \A u, v \in Party : Freed(v, s)' <= Arrived(u, s)'
    BY <1>3, <1>8, <1>9, <2>1 DEF BarrierInv
  <2>3. \A v \in Worker : pc'[v] = "publish" /\ at'[v].stage = s =>
            pc[v] = "publish" /\ at[v].stage = s /\ at'[v].step = at[v].step
    BY <1>6 DEF Leaves
  <2>4. \A v \in Party : /\ Arrived(v, s) \in Nat /\ Arrived(v, s)' \in Nat
                         /\ Arrived(v, s) <= Arrived(v, s)'
                         /\ Meeting => Arrived(v, s)' = Arrived(v, s)
    BY <1>3, <1>8, <1>9
  <2>5. \A v \in Worker : at[v].step \in Nat
    BY <1>8, <1>9
  <2>6. \A k \in Nat : epoch'[s] >= iteration + k + 1 =>
            epoch[s] >= iteration + k + 1 \/ \A v \in Party : Arrived(v, s) >= k + 1
    BY <2>1
  <2>7. QED
    BY <2>1, <2>2, <2>3, <2>4, <2>5, <2>6, BarrierKeeps
<1>10. QED
  BY <1>6, <1>7, <1>9 DEF IInv

-----------------------------------------------------------------------------
LEMMA StutterStep ==
    ASSUME IInv, UNCHANGED vars
    PROVE  IInv'
<1>1. /\ UNCHANGED <<build, status, iteration, steps, pc, at, cur, arrivals, epoch, ticket, ended>>
  BY DEF vars, ctaVars, counterVars
<1>2. TypeOK'
  BY <1>1 DEF IInv, TypeOK
<1>3. (\A w \in Worker : Standing(w))'
  BY <1>1, StandingSame DEF IInv
<1>4. ASSUME NEW u \in Worker, NEW v \in Worker
      PROVE  InCluster(u, v)'
  <2>1. InCluster(u, v)
    BY DEF IInv
  <2>2. QED
    BY <1>1, <2>1, BuildSame DEF InCluster
<1>5. \A v \in Worker, s \in Stage : Freed(v, s)' = Freed(v, s) /\ Arrived(v, s)' = Arrived(v, s)
  BY <1>1 DEF Freed, Arrived, Past
<1>6. ASSUME NEW s \in Stage, ~Elided(s)
      PROVE  BarrierInv(s)'
  <2>1. ArrivedAt(s)' = ArrivedAt(s)
    BY <1>1, BuildSame DEF ArrivedAt, Arrived, Past
  <2>2. BarrierInv(s) /\ Party \subseteq Worker
    BY <1>6 DEF IInv, Party
  <2>3. QED
    BY <1>1, <1>5, <2>1, <2>2, BuildSame DEF BarrierInv
<1>7. \A x \in Task : Ran(x)' = Ran(x) /\ Drew(x)' = Drew(x)
  BY <1>1 DEF Ran, Drew, PastTask
<1>8. EndedInv'
  BY <1>1, <1>7 DEF IInv, EndedInv
<1>9. ASSUME NEW y \in Output
      PROVE  TicketInv(y)'
  <2>1. TicketInv(y) /\ Parts(y) \subseteq Task
    BY DEF IInv, Parts
  <2>2. \A w \in Worker : Reducing(w, y)' <=> Reducing(w, y)
    BY <1>1 DEF Reducing
  <2>3. QED
    BY <1>1, <1>7, <2>1, <2>2, TicketKeeps
<1>10. QED
  BY <1>2, <1>3, <1>4, <1>6, <1>8, <1>9 DEF IInv

LEMMA NextStep == IInv /\ [Next]_vars => IInv'
<1> SUFFICES ASSUME IInv, [Next]_vars
             PROVE  IInv'
  OBVIOUS
<1>1. CASE \E n \in 1 .. MaxSteps : LaunchL1(n)
  BY <1>1, LaunchStep
<1>2. CASE EndLaunch
  BY <1>2, EndStep
<1>3. CASE Reset
  BY <1>3, ResetStep
<1>4. ASSUME NEW w \in Worker, CtaStep(w)
      PROVE  IInv'
  BY <1>4, StartStep, SkipStep, RunStep, HandoffStep, ReduceStep,
     ArriveStep, PublishStep, AwaitStep DEF CtaStep
<1>5. ASSUME NEW w \in Worker, Rank(w) = 0, ClusterStep(w \div ClusterDim)
      PROVE  IInv'
  BY <1>5, ClusterGatherStep, ClusterScatterStep DEF ClusterStep
<1>6. CASE UNCHANGED vars
  BY <1>6, StutterStep
<1>7. QED
  BY <1>1, <1>2, <1>3, <1>4, <1>5, <1>6 DEF Next

(***************************************************************************)
(* The inductive invariant of the stage executor.                          *)
(***************************************************************************)
THEOREM L1Invariant == Spec => []IInv
<1>1. Init => IInv
  BY InitStep
<1>2. IInv /\ [Next]_vars => IInv'
  BY NextStep
<1>3. QED
  BY <1>1, <1>2, PTL DEF Spec

(***************************************************************************)
(* Type correctness: every CTA stands at a program point of the kernel, in *)
(* a stage of the table, and holds a task or none; the counters count.     *)
(***************************************************************************)
THEOREM L1TypeCorrect == Spec => []TypeOK
<1>1. IInv => TypeOK
  BY DEF IInv
<1>2. QED
  BY <1>1, L1Invariant, PTL

(***************************************************************************)
(* The grid barrier (EventCounter, RedBarrier, the two cluster.sync) keeps *)
(* the bodies of two stages, or of two decode steps, from running at once. *)
(***************************************************************************)
THEOREM StagesApart == Spec => []StagesDoNotOverlap
<1>1. IInv => StagesDoNotOverlap
  BY BusyTogether DEF StagesDoNotOverlap
<1>2. QED
  BY <1>1, L1Invariant, PTL

LEMMA DrawsInEpoch ==
    ASSUME IInv, NEW w \in Worker, pc[w] = "handoff"
    PROVE  LET previous == ticket[HandoffOutput(cur[w])]
           IN  /\ previous >= TicketTarget(w) - Producers[at[w].stage]
               /\ previous < TicketTarget(w)
<1>1. HandoffOutput(cur[w]) \in Output /\ at[w].stage \in Stage /\ at[w].step \in Nat
  BY TicketInEpoch, AtWork DEF Working
<1>2. PICK y, S, f, size, base, c, x, k :
          /\ y = HandoffOutput(cur[w]) /\ S = Parts(y) /\ f = DrewAt(y)
          /\ size = Producers[at[w].stage] /\ base = iteration /\ c = ticket[y]
          /\ x = cur[w] /\ k = at[w].step
  OBVIOUS
<1>3. /\ x \in S /\ IsFiniteSet(S) /\ Cardinality(S) = size /\ size \in Nat
      /\ Tally(S, f, c, size, base)
      /\ Drew(x) = k
      /\ \A z \in S : Drew(z) \in {k, k + 1}
  BY <1>2, TicketInEpoch
<1>4. TypeOK
  BY DEF IInv
<1>5. base \in Nat /\ c \in Nat /\ k \in Nat
  BY <1>1, <1>2, <1>4 DEF TypeOK
<1>6. PICK g : g = [z \in S |-> IF z = x THEN k + 1 ELSE f[z]]
  OBVIOUS
<1>7. Raises(S, f, g, x, k)
  <2>1. \A z \in S : f[z] = Drew(z)
    BY <1>2 DEF DrewAt
  <2>2. QED
    BY <1>3, <1>6, <2>1 DEF Raises
<1>8. PICK target : target = RoundTarget(size, base, k) /\ target \in Nat
  BY <1>3, <1>5 DEF RoundTarget
<1>9. target - size <= c /\ c < target
  BY <1>3, <1>5, <1>7, <1>8, TallyStep
<1>10. TicketTarget(w) = target
  BY <1>2, <1>8 DEF TicketTarget, Iteration, RoundTarget
<1>11. QED
  BY <1>2, <1>9, <1>10

(***************************************************************************)
(* EpochLastArriver never traps: the ticket a CTA draws is one of its own  *)
(* epoch, whatever launches and resets came before.                        *)
(***************************************************************************)
THEOREM TicketsInEpoch == Spec => []NoTrap
<1>1. IInv => NoTrap
  BY DrawsInEpoch DEF NoTrap
<1>2. QED
  BY <1>1, L1Invariant, PTL

-----------------------------------------------------------------------------
(***************************************************************************)
(* Refinement: what the CTAs do is a behaviour of the task graph.          *)
(***************************************************************************)
RunningNow == {cur[w] : w \in {v \in Worker : pc[v] \in {"run", "reduce"}}}
FinishedNow == {x \in Task : ended[x] > Round}

LEMMA SameGraph ==
    /\ Graph!Task = Task
    /\ \A x : Graph!Predecessors(x) = Predecessors(x)
<1>1. Graph!Task = Task
  BY DEF Graph!Task, Task, Graph!Stage, Stage
<1>2. ASSUME NEW x
      PROVE  Graph!Predecessors(x) = Predecessors(x)
  BY <1>1 DEF Graph!Predecessors, Predecessors, Graph!Incoming, Incoming,
              Graph!RuntimeDependencyBounds, RuntimeDependencyBounds
<1>3. QED
  BY <1>1, <1>2

\* The round is that of a CTA no other is ahead of.
LEMMA RoundIs ==
    ASSUME TypeOK, NEW w \in Worker, NEW k \in Nat, at[w].step = k,
           \A v \in Worker : at[v].step <= k
    PROVE  Round = k
<1> DEFINE seen == {at[v].step : v \in Worker}
<1>1. \A v \in Worker : at[v].step \in Nat
  BY WorkerFields
<1>2. k \in seen /\ \A m \in seen : m \in Nat /\ m <= k
  BY <1>1
<1>3. \A n \in seen : (\A m \in seen : m <= n) => n = k
  BY <1>2
<1> HIDE DEF seen
<1>4. (CHOOSE n \in seen : \A m \in seen : m <= n) = k
  BY <1>2, <1>3
<1>5. QED
  BY <1>4 DEF Round, seen

\* Who works in a stage is in the round of the grid.
LEMMA RoundAtWork ==
    ASSUME IInv, NEW w \in Worker, pc[w] \in Working
    PROVE  /\ Round = at[w].step /\ at[w].step \in Nat
           /\ \A v \in Worker : at[v].step <= at[w].step
<1>1. /\ TypeOK /\ at[w].step \in Nat /\ at[w].stage \in Stage /\ at[w].stage \in Nat
      /\ ~Elided(at[w].stage)
  BY AtWork
<1>2. PICK k \in Nat, s \in Stage : k = at[w].step /\ s = at[w].stage
  BY <1>1
<1>3. Walked(w, s) = k
  BY <1>1, <1>2 DEF Walked, Past, Working, Gone
<1>4. ASSUME NEW v \in Worker
      PROVE  at[v].step <= k
  <2>1. Left(v, s) <= Walked(w, s)
    BY <1>1, <1>2, Apart
  <2>2. at[v].step <= Left(v, s) /\ Left(v, s) \in Nat /\ at[v].step \in Nat
    BY <1>1, PastOrder, WorkerFields
  <2>3. QED
    BY <1>3, <2>1, <2>2
<1>5. QED
  BY <1>1, <1>2, <1>4, RoundIs

\* What w has behind it has ended: partials, and what is reduced from them.
LEMMA EndedBehind ==
    ASSUME IInv, NEW w \in Worker, NEW x \in Task, NEW n \in Nat,
           \A s \in Stage : s <= x.stage => Left(w, s) >= n
    PROVE  ended[x] >= n
<1>1. TypeOK /\ x.stage \in Stage /\ x.stage \in Nat /\ ended[x] \in Nat
  BY TaskFields, StageOrder DEF IInv, TypeOK
<1>2. ASSUME NEW z \in Task, ~Elided(z.stage), z.stage <= x.stage
      PROVE  Drew(z) >= n /\ Ran(z) >= n /\ Drew(z) \in Nat /\ Ran(z) \in Nat
  <2>1. OwnerOf(z) \in Worker /\ z.stage \in Stage
    BY Deal, TaskFields
  <2>2. Left(w, z.stage) <= Walked(OwnerOf(z), z.stage) /\ Left(w, z.stage) >= n
    BY <1>2, <2>1, Apart
  <2>3. /\ Ran(z) \in Nat /\ Drew(z) \in Nat /\ Drew(z) <= Ran(z)
        /\ Walked(OwnerOf(z), z.stage) <= Drew(z)
    BY <1>2, PastTaskOrder
  <2>4. Left(w, z.stage) \in Nat /\ Walked(OwnerOf(z), z.stage) \in Nat
    BY <1>1, <2>1, PastOrder
  <2>5. QED
    BY <2>2, <2>3, <2>4
<1>3. CASE ~Elided(x.stage)
  BY <1>1, <1>2, <1>3 DEF IInv, EndedInv
<1>4. CASE Elided(x.stage)
  <2>1. x \in Output
    BY <1>4 DEF Output
  <2>2. TicketInv(x)
    BY <2>1 DEF IInv
  <2>3. ASSUME NEW z \in Parts(x)
        PROVE  z \in Task /\ ~Elided(z.stage) /\ z.stage < x.stage /\ z.stage \in Nat
    <3>1. z \in Task /\ HandoffReduce[z.stage] # NoStage /\ HandoffOutput(z) = x
      BY DEF Parts
    <3>2. z.stage \in Stage /\ z.stage \in Nat /\ HandoffReduce[z.stage] = x.stage
      BY <3>1, TaskFields, StageOrder DEF HandoffOutput
    <3>3. QED
      BY <2>1, <3>1, <3>2, OutputFields
  <2>4. CASE n = 0
    BY <1>1, <2>4
  <2>5. CASE n # 0
    <3>1. PICK k \in Nat : n = k + 1
      <4>1. n - 1 \in Nat /\ n = (n - 1) + 1
        BY <2>5
      <4>2. QED
        BY <4>1
    <3>2. \A z \in Parts(x) : Drew(z) >= k + 1
      BY <1>1, <1>2, <2>3, <3>1
    <3>3. \/ ended[x] >= k + 1
          \/ ended[x] >= k /\ \E v \in Worker : Reducing(v, x)
      BY <2>2, <3>2 DEF TicketInv
    <3>4. ASSUME NEW v \in Worker, Reducing(v, x)
          PROVE  ended[x] >= k + 1
      <4>1. ended[x] = at[v].step /\ pc[v] = "reduce" /\ cur[v] = x
        BY <2>2, <3>4 DEF TicketInv, Reducing
      <4>2. /\ at[v].step \in Nat /\ at[v].stage \in Stage /\ at[v].stage \in Nat
            /\ ~Elided(at[v].stage) /\ Standing(v)
        BY <4>1, AtWork DEF Working
      <4>3. at[v].stage < x.stage
        <5>1. x = HandoffOutput(Addressed(v)) /\ HandoffReduce[at[v].stage] # NoStage
          BY <4>1, <4>2 DEF Standing
        <5>2. HandoffReduce[at[v].stage] = x.stage
          BY <5>1 DEF HandoffOutput, Addressed
        <5>3. QED
          BY <4>2, <5>1, <5>2, L1Assumption
      <4>4. Left(w, at[v].stage) <= Walked(v, at[v].stage)
        BY <4>2, Apart
      <4>5. Walked(v, at[v].stage) = at[v].step
        BY <4>1, <4>2 DEF Walked, Past, Gone
      <4>6. Left(w, at[v].stage) >= n /\ Left(w, at[v].stage) \in Nat
        BY <1>1, <4>2, <4>3, PastOrder
      <4>7. QED
        BY <3>1, <4>1, <4>2, <4>4, <4>5, <4>6
    <3>5. QED
      BY <3>1, <3>3, <3>4
  <2>6. QED
    BY <2>4, <2>5
<1>5. QED
  BY <1>3, <1>4

\* Nothing has ended more often than the CTA furthest ahead allows.
LEMMA EndedAhead ==
    ASSUME IInv, NEW x \in Task, NEW k \in Nat, \A v \in Worker : at[v].step <= k
    PROVE  ended[x] <= k + 1
<1>1. TypeOK /\ ended[x] \in Nat
  BY DEF IInv, TypeOK
<1>2. ASSUME NEW z \in Task, ~Elided(z.stage)
      PROVE  Ran(z) <= k + 1 /\ Drew(z) <= k + 1 /\ Ran(z) \in Nat /\ Drew(z) \in Nat
  <2>1. OwnerOf(z) \in Worker
    BY Deal
  <2>2. at[OwnerOf(z)].step \in Nat /\ at[OwnerOf(z)].step <= k
    BY <1>1, <2>1, WorkerFields
  <2>3. /\ Ran(z) = at[OwnerOf(z)].step \/ Ran(z) = at[OwnerOf(z)].step + 1
        /\ Drew(z) = at[OwnerOf(z)].step \/ Drew(z) = at[OwnerOf(z)].step + 1
    BY <2>2 DEF Ran, Drew, PastTask
  <2>4. QED
    BY <2>2, <2>3
<1>3. CASE ~Elided(x.stage)
  BY <1>2, <1>3 DEF IInv, EndedInv
<1>4. CASE Elided(x.stage)
  <2>1. x \in Output /\ TicketInv(x)
    BY <1>4 DEF Output, IInv
  <2>2. Parts(x) # {} /\ \A z \in Parts(x) : z \in Task /\ ~Elided(z.stage)
    BY <2>1, OutputFields, OutputOfPart DEF Parts
  <2>3. PICK z \in Parts(x) : z \in Task /\ Drew(z) <= k + 1 /\ Drew(z) \in Nat
    BY <1>2, <2>2
  <2>4. ~(\A q \in Parts(x) : Drew(q) >= (k + 1) + 1)
    BY <2>3
  <2>5. ~(ended[x] >= (k + 1) + 1)
    <3>1. k + 1 \in Nat
      OBVIOUS
    <3>2. QED
      BY <2>1, <2>4, <3>1 DEF TicketInv
  <2>6. QED
    BY <1>1, <2>5
<1>5. QED
  BY <1>3, <1>4

\* The reductions are of elided stages, the rest of live ones.
LEMMA ReducedIsElided ==
    ASSUME IInv, NEW w \in Worker, pc[w] = "reduce"
    PROVE  cur[w] \in Output /\ Elided(cur[w].stage)
<1>1. Standing(w) /\ Busy(w)
  BY DEF IInv, Busy
<1>2. /\ cur[w] = HandoffOutput(Addressed(w)) /\ Addressed(w) \in Task
      /\ HandoffReduce[at[w].stage] # NoStage
  BY <1>1 DEF Standing
<1>3. Addressed(w).stage = at[w].stage
  BY DEF Addressed
<1>4. cur[w] \in Output
  BY <1>2, <1>3, OutputOfPart
<1>5. QED
  BY <1>4 DEF Output

LEMMA PredecessorBefore ==
    ASSUME NEW x, NEW p \in Predecessors(x)
    PROVE  p \in Task /\ p.stage < x.stage /\ p.stage \in Stage /\ p.stage \in Nat
<1>1. p \in Task /\ p.stage \in Stage /\ p.stage \in Nat
  BY TaskFields, StageOrder DEF Predecessors
<1>2. p.stage < x.stage
  BY GraphAssumption DEF Predecessors, Incoming
<1>3. QED
  BY <1>1, <1>2

\* Some CTA is in step k, and none is ahead of it.
Leading(k) ==
    /\ \E w \in Worker : at[w].step = k
    /\ \A v \in Worker : at[v].step <= k

LEMMA RoundLeads == TypeOK => \A k \in Nat : Leading(k) => Round = k
BY RoundIs DEF Leading

LEMMA RoundLeadsNext == TypeOK' => \A k \in Nat : Leading(k)' => Round' = k
<1>1. TypeOK' => (\A k \in Nat : Leading(k) => Round = k)'
  BY RoundLeads, PTL
<1>2. QED
  BY <1>1

\* Two facts of a state, for use after a step.
LEMMA EndedSoFar ==
    IInv => \A w \in Worker, x \in Task : ended[x] >= at[w].step
<1> SUFFICES ASSUME IInv, NEW w \in Worker, NEW x \in Task
             PROVE  ended[x] >= at[w].step
  OBVIOUS
<1>1. TypeOK /\ at[w].step \in Nat
  BY WorkerFields DEF IInv
<1>2. \A s \in Stage : at[w].step <= Left(w, s)
  BY <1>1, PastOrder
<1>3. PICK n \in Nat : n = at[w].step
  BY <1>1
<1>4. \A s \in Stage : Left(w, s) >= n
  BY <1>1, <1>2, <1>3, PastOrder
<1>5. QED
  BY <1>3, <1>4, EndedBehind

LEMMA EndedSoFarNext ==
    IInv' => \A w \in Worker, x \in Task : ended'[x] >= at'[w].step
<1>1. IInv' => (\A w \in Worker, x \in Task : ended[x] >= at[w].step)'
  BY EndedSoFar, PTL
<1>2. QED
  BY <1>1

LEMMA DrawnHasRun ==
    IInv => \A x \in Task : ~Elided(x.stage) =>
        Ran(x) \in Nat /\ Drew(x) \in Nat /\ Drew(x) <= Ran(x) /\ ended[x] = Ran(x)
BY PastTaskOrder DEF IInv, EndedInv

LEMMA DrawnHasRunNext ==
    IInv' => \A x \in Task : ~Elided(x.stage) =>
        Ran(x)' \in Nat /\ Drew(x)' \in Nat /\ Drew(x)' <= Ran(x)' /\ ended'[x] = Ran(x)'
<1>1. IInv' => (\A x \in Task : ~Elided(x.stage) =>
        Ran(x) \in Nat /\ Drew(x) \in Nat /\ Drew(x) <= Ran(x) /\ ended[x] = Ran(x))'
  BY DrawnHasRun, PTL
<1>2. QED
  BY <1>1

\* No step count moves: the round stays.
LEMMA RoundSame ==
    ASSUME TypeOK, TypeOK', \A v \in Worker : at'[v].step = at[v].step
    PROVE  Round' = Round
<1>1. {at'[v].step : v \in Worker} = {at[v].step : v \in Worker}
  OBVIOUS
<1>2. QED
  BY <1>1 DEF Round

\* The task at which a CTA stands is at hand for no other.
LEMMA OneRunner ==
    ASSUME IInv, NEW v \in Worker, NEW w \in Worker, pc[v] = "run", pc[w] \in Working,
           cur[v] = Addressed(w), at[w].ordinal < ServingL1TaskLimit(at[w].stage)
    PROVE  v = w
<1>1. cur[v] \in Task /\ Here(cur[v], v)
  BY AtTask
<1>2. TypeOK /\ Standing(w)
  BY DEF IInv
<1>3. Here(cur[v], w)
  BY <1>1, <1>2, HereAddressed
<1>4. QED
  BY <1>1, <1>3 DEF Here

LEMMA StartRefines ==
    ASSUME IInv, NEW w \in Worker, StartTask(w)
    PROVE  [Graph!Next]_(Graph!graphVars)
<1>1. /\ pc[w] = "task" /\ at[w].ordinal < ServingL1TaskLimit(at[w].stage)
      /\ Addressed(w) \in Task
      /\ pc' = [pc EXCEPT ![w] = "run"] /\ cur' = [cur EXCEPT ![w] = Addressed(w)]
      /\ at' = at /\ ended' = ended
  BY DEF StartTask, InStage
<1>2. /\ TypeOK /\ Standing(w) /\ at[w].step \in Nat /\ at[w].stage \in Nat
      /\ at[w].stage \in Stage /\ ~Elided(at[w].stage)
  BY <1>1, AtWork DEF Working
<1>3. PICK x \in Task, k \in Nat : x = Addressed(w) /\ k = at[w].step
  BY <1>1, <1>2
<1>4. Round = k /\ Round' = Round
  BY <1>1, <1>3, RoundAtWork DEF Working, Round
<1>5. x.stage = at[w].stage
  BY <1>3 DEF Addressed
<1>6. x \notin FinishedNow
  <2>1. Here(x, w)
    BY <1>1, <1>2, <1>3, HereAddressed
  <2>2. Ran(x) = k + 0
    BY <1>1, <1>2, <1>3, <2>1, CountsHere
  <2>3. ended[x] = k
    BY <1>2, <1>3, <1>5, <2>2 DEF IInv, EndedInv
  <2>4. QED
    BY <1>3, <1>4, <2>3 DEF FinishedNow
<1>7. x \notin RunningNow
  <2> SUFFICES ASSUME NEW v \in Worker, pc[v] \in {"run", "reduce"}, cur[v] = x
               PROVE  FALSE
    BY DEF RunningNow
  <2>1. CASE pc[v] = "run"
    <3>1. v = w
      BY <1>1, <1>3, <2>1, OneRunner DEF Working
    <3>2. QED
      BY <1>1, <2>1, <3>1
  <2>2. CASE pc[v] = "reduce"
    <3>1. Elided(x.stage)
      BY <2>2, ReducedIsElided
    <3>2. QED
      BY <1>2, <1>5, <3>1
  <2>3. QED
    BY <2>1, <2>2
<1>8. Predecessors(x) \subseteq FinishedNow
  <2> SUFFICES ASSUME NEW p \in Predecessors(x)
               PROVE  ended[p] > k /\ p \in Task
    BY <1>4 DEF FinishedNow
  <2>1. p \in Task /\ p.stage < at[w].stage /\ p.stage \in Nat
    BY <1>5, PredecessorBefore
  <2>2. ASSUME NEW s \in Stage, s <= p.stage
        PROVE  Left(w, s) >= k + 1
    <3>1. s < at[w].stage
      BY <1>2, <2>1, <2>2, StageOrder
    <3>2. QED
      BY <1>3, <3>1 DEF Left, Past
  <2>3. ended[p] >= k + 1 /\ ended[p] \in Nat
    BY <1>2, <1>3, <2>1, <2>2, EndedBehind DEF TypeOK
  <2>4. QED
    BY <1>3, <2>1, <2>3
<1>9. RunningNow' = RunningNow \cup {x}
  <2>1. pc'[w] = "run" /\ cur'[w] = x /\ \A v \in Worker \ {w} : pc'[v] = pc[v] /\ cur'[v] = cur[v]
    BY <1>1, <1>2, <1>3 DEF TypeOK
  <2>2. QED
    BY <1>1, <2>1 DEF RunningNow
<1>10. FinishedNow' = FinishedNow
  BY <1>1, <1>4 DEF FinishedNow
<1>11. Graph!Start(x)
  BY <1>6, <1>7, <1>8, <1>9, <1>10, SameGraph DEF Graph!Start, RunningNow, FinishedNow
<1>12. QED
  BY <1>11, SameGraph DEF Graph!Next

\* A body ends: of the task at hand, or of the reduction.
LEMMA FinishRefines ==
    ASSUME IInv, IInv', NEW w \in Worker, pc[w] \in {"run", "reduce"}, pc'[w] \in {"task", "handoff"},
           EndBody(w), \A v \in Worker : at'[v].step = at[v].step,
           \A v \in Worker \ {w} : pc'[v] = pc[v], cur' = cur
    PROVE  [Graph!Next]_(Graph!graphVars)
<1>1. /\ TypeOK /\ Standing(w) /\ at[w].step \in Nat /\ ~Elided(at[w].stage)
      /\ Round = at[w].step
  BY AtWork, RoundAtWork DEF Working
<1>2. cur[w] \in Task /\ ended[cur[w]] = at[w].step
  <2>1. CASE pc[w] = "run"
    <3>1. cur[w] \in Task /\ Here(cur[w], w) /\ ~Elided(cur[w].stage)
      BY <2>1, AtTask
    <3>2. Ran(cur[w]) = at[w].step + 0
      BY <1>1, <2>1, <3>1, CountsHere
    <3>3. QED
      BY <1>1, <3>1, <3>2 DEF IInv, EndedInv
  <2>2. CASE pc[w] = "reduce"
    <3>1. cur[w] \in Output /\ Reducing(w, cur[w])
      BY <2>2, ReducedIsElided DEF Reducing
    <3>2. QED
      BY <3>1 DEF IInv, TicketInv, Output
  <2>3. QED
    BY <2>1, <2>2
<1>3. PICK x \in Task, k \in Nat : x = cur[w] /\ k = at[w].step
  BY <1>1, <1>2
<1>4. ASSUME NEW v \in Worker, pc[v] \in {"run", "reduce"}, cur[v] = x
      PROVE  v = w
  <2>1. CASE pc[v] = "run" /\ pc[w] = "run"
    <3>1. /\ cur[w] = Addressed(w) /\ at[w].ordinal < ServingL1TaskLimit(at[w].stage)
      BY <1>1, <2>1 DEF Standing, Busy
    <3>2. QED
      BY <1>3, <1>4, <2>1, <3>1, OneRunner DEF Working
  <2>2. CASE pc[v] = "reduce" /\ pc[w] = "reduce"
    <3>1. x \in Output /\ Reducing(v, x) /\ Reducing(w, x)
      BY <1>3, <1>4, <2>2, ReducedIsElided DEF Reducing
    <3>2. QED
      BY <3>1 DEF IInv, TicketInv
  <2>3. CASE pc[v] # pc[w]
    <3>1. Elided(x.stage) /\ ~Elided(x.stage)
      BY <1>3, <1>4, <2>3, ReducedIsElided, AtTask
    <3>2. QED
      BY <3>1
  <2>4. QED
    BY <1>4, <2>1, <2>2, <2>3
<1>5. x \in RunningNow /\ RunningNow' = RunningNow \ {x}
  BY <1>3, <1>4 DEF RunningNow
<1>6. Round' = k
  BY <1>1, <1>3, RoundSame DEF IInv
<1>7. /\ ended'[x] = k + 1
      /\ \A z \in Task \ {x} : ended'[z] = ended[z]
  BY <1>1, <1>2, <1>3 DEF EndBody, TypeOK
<1>8. FinishedNow' = FinishedNow \cup {x}
  BY <1>1, <1>3, <1>6, <1>7 DEF FinishedNow
<1>9. Graph!Finish(x)
  BY <1>5, <1>8 DEF Graph!Finish, RunningNow, FinishedNow
<1>10. QED
  BY <1>9, SameGraph DEF Graph!Next

\* A step in which no body starts or ends and no CTA moves on.
LEMMA QuietRefines ==
    ASSUME TypeOK, TypeOK', \A v \in Worker : at'[v].step = at[v].step, ended' = ended,
           \A v \in Worker : pc'[v] \in {"run", "reduce"} <=> pc[v] \in {"run", "reduce"},
           \A v \in Worker : pc[v] \in {"run", "reduce"} => cur'[v] = cur[v]
    PROVE  [Graph!Next]_(Graph!graphVars)
<1>1. Round' = Round
  BY RoundSame
<1>2. RunningNow' = RunningNow
  BY DEF RunningNow
<1>3. FinishedNow' = FinishedNow
  BY <1>1 DEF FinishedNow
<1>4. QED
  BY <1>2, <1>3 DEF RunningNow, FinishedNow, Graph!graphVars

LEMMA HandoffRefines ==
    ASSUME IInv, IInv', NEW w \in Worker, Handoff(w)
    PROVE  [Graph!Next]_(Graph!graphVars)
<1>1. TypeOK /\ TypeOK' /\ pc[w] = "handoff" /\ ended' = ended
  BY DEF IInv, Handoff
<1>2. CASE ~LastArriver(w)
  <2>1. /\ pc' = [pc EXCEPT ![w] = "task"]
        /\ at' = [at EXCEPT ![w].ordinal = @ + Grid]
        /\ cur' = cur
    BY <1>2 DEF Handoff, Stride
  <2>2. \A v \in Worker : at'[v].step = at[v].step
    BY <1>1, <2>1 DEF TypeOK
  <2>3. pc'[w] = "task" /\ \A v \in Worker \ {w} : pc'[v] = pc[v]
    BY <1>1, <2>1 DEF TypeOK
  <2>4. \A v \in Worker : pc'[v] \in {"run", "reduce"} <=> pc[v] \in {"run", "reduce"}
    BY <1>1, <2>3
  <2>5. QED
    BY <1>1, <2>1, <2>2, <2>4, QuietRefines
<1>3. CASE LastArriver(w)
  <2>1. HandoffOutput(cur[w]) \in Output /\ HandoffReduce[at[w].stage] = HandoffOutput(cur[w]).stage
    BY <1>1, TicketInEpoch
  <2>2. /\ at[w].step \in Nat /\ at[w].stage \in Stage /\ at[w].stage \in Nat
        /\ ~Elided(at[w].stage) /\ Standing(w) /\ Round = at[w].step
    BY <1>1, AtWork, RoundAtWork DEF Working
  <2>3. PICK y \in Output, s \in Stage, k \in Nat : y = HandoffOutput(cur[w]) /\ s = at[w].stage
                                           /\ k = at[w].step /\ k \in Nat
    BY <2>1, <2>2
  <2>4. /\ pc' = [pc EXCEPT ![w] = "reduce"]
        /\ cur' = [cur EXCEPT ![w] = y]
        /\ at' = at
    BY <1>3, <2>3 DEF Handoff
  <2>5. /\ pc'[w] = "reduce" /\ cur'[w] = y
        /\ \A v \in Worker \ {w} : pc'[v] = pc[v] /\ cur'[v] = cur[v]
    BY <1>1, <2>4 DEF TypeOK
  <2>6. TicketInv(y)' /\ Reducing(w, y)'
    BY <2>5 DEF IInv, Output, Reducing
  <2>7. ended[y] = k
    BY <1>1, <2>3, <2>4, <2>6 DEF TicketInv
  <2>8. Round' = k /\ Round = k
    BY <2>2, <2>3, <2>4 DEF Round
  <2>9. y \notin FinishedNow /\ y \in Task
    BY <2>3, <2>7, <2>8 DEF FinishedNow, Output
  <2>10. y \notin RunningNow
    <3> SUFFICES ASSUME NEW v \in Worker, pc[v] \in {"run", "reduce"}, cur[v] = y
                 PROVE  FALSE
      BY DEF RunningNow
    <3>1. CASE pc[v] = "run"
      BY <2>3, <3>1, AtTask
    <3>2. CASE pc[v] = "reduce"
      <4>1. v # w /\ Reducing(v, y)'
        BY <1>1, <2>5, <3>2 DEF Reducing
      <4>2. QED
        BY <2>6, <4>1 DEF TicketInv
    <3>3. QED
      BY <3>1, <3>2
  <2>11. ASSUME NEW p \in Predecessors(y)
         PROVE  p \in FinishedNow
    <3>1. p \in Task /\ p.stage \in Stage /\ p.stage \in Nat /\ ended[p] \in Nat
      BY <1>1, PredecessorBefore DEF TypeOK
    <3>2. HandoffReduce[s] = y.stage /\ y \in TasksOf(HandoffReduce[s]) /\ HandoffReduce[s] # NoStage
      BY <2>1, <2>2, <2>3, <2>9, <1>1 DEF TasksOf, Standing
    <3>3. p.stage < s \/ (p.stage = s /\ HandoffOutput(p) = y)
      BY <3>2, L1Assumption
    <3>4. CASE p.stage < s
      <4>1. ASSUME NEW t \in Stage, t <= p.stage
            PROVE  Left(w, t) >= k + 1
        <5>1. t < at[w].stage
          BY <2>2, <2>3, <3>1, <3>4, <4>1, StageOrder
        <5>2. QED
          BY <2>3, <5>1 DEF Left, Past
      <4>2. ended[p] >= k + 1
        BY <2>3, <3>1, <4>1, EndedBehind
      <4>3. QED
        BY <2>3, <2>8, <3>1, <4>2 DEF FinishedNow
    <3>5. CASE p.stage = s /\ HandoffOutput(p) = y
      <4>1. p \in Parts(y) /\ ~Elided(p.stage)
        BY <2>2, <2>3, <3>1, <3>2, <3>5 DEF Parts
      <4>2. Drew(p)' >= k + 1
        <5>1. ended'[y] >= k
          BY <1>1, <2>3, <2>7
        <5>2. \A x \in Parts(y) : Drew(x)' >= k + 1
          BY <2>3, <2>6, <5>1 DEF TicketInv, Parts
        <5>3. QED
          BY <4>1, <5>2
      <4>3. ended'[p] >= k + 1
        BY <2>3, <3>1, <4>1, <4>2, DrawnHasRunNext
      <4>4. QED
        BY <1>1, <2>3, <2>8, <3>1, <4>3 DEF FinishedNow
    <3>6. QED
      BY <3>3, <3>4, <3>5
  <2>12. RunningNow' = RunningNow \cup {y}
    BY <1>1, <2>5 DEF RunningNow
  <2>13. FinishedNow' = FinishedNow
    BY <1>1, <2>8 DEF FinishedNow
  <2>14. Graph!Start(y)
    BY <2>9, <2>10, <2>11, <2>12, <2>13, SameGraph DEF Graph!Start, RunningNow, FinishedNow
  <2>15. QED
    BY <2>9, <2>14, SameGraph DEF Graph!Next
<1>4. QED
  BY <1>2, <1>3

\* The first CTA to leave the last stage opens the next iteration of the graph.
LEMMA LeaveRefines ==
    ASSUME IInv, IInv', NEW w \in Worker, NEW S \in SUBSET Worker, w \in S, Leave(S),
           ended' = ended, cur' = cur,
           \A v \in S : at[v].step = at[w].step /\ pc[v] \in Gone \cup {"task"}
    PROVE  [Graph!Next]_(Graph!graphVars)
<1>1. TypeOK /\ TypeOK'
  BY DEF IInv
<1>2. /\ \A v \in S : Leaves(v)
      /\ \A v \in Worker \ S : at'[v] = at[v] /\ pc'[v] = pc[v]
  BY DEF Leave, Leaves
<1>3. at[w].step \in Nat /\ at[w].stage \in Stage /\ ~Elided(at[w].stage)
  BY <1>1, WorkerFields DEF IInv, Standing
<1>4. PICK k \in Nat, t \in Stage : k = at[w].step /\ t = at[w].stage
  BY <1>3
<1>5. \A v \in Worker : at[v].step \in Nat /\ at[v].step <= k + 1
  <2> TAKE v \in Worker
  <2>1. Left(v, t) <= Walked(w, t)
    BY <1>3, <1>4, Apart
  <2>2. /\ at[v].step \in Nat /\ at[v].step <= Left(v, t) /\ Left(v, t) \in Nat
        /\ Walked(w, t) \in Nat /\ Walked(w, t) <= k + 1
    BY <1>1, <1>4, PastOrder, WorkerFields
  <2>3. QED
    BY <2>1, <2>2
<1>6. \A v \in S : /\ at'[v].step \in {k, k + 1} /\ at[v].step = k
                   /\ pc[v] \notin {"run", "reduce"} /\ pc'[v] \notin {"run", "reduce"}
  <2> TAKE v \in S
  <2>1. pc'[v] \in {"task", "done"} /\ (at'[v].step = at[v].step \/ at'[v].step = at[v].step + 1)
    BY <1>1, <1>2, LeaveFields
  <2>2. QED
    BY <1>4, <2>1 DEF Gone
<1>7. \A v \in Worker : at'[v].step \in Nat /\ at'[v].step <= k + 1
  BY <1>2, <1>5, <1>6
<1>8. RunningNow' = RunningNow
  BY <1>2, <1>6 DEF RunningNow
<1>9. CASE \E v \in Worker : at[v].step = k + 1
  <2>1. PICK v \in Worker : at[v].step = k + 1
    BY <1>9
  <2>2. at'[v].step = k + 1
    BY <1>2, <1>6, <2>1
  <2>3. Leading(k + 1) /\ Leading(k + 1)'
    BY <1>5, <1>7, <2>1, <2>2 DEF Leading
  <2>4. Round = k + 1 /\ Round' = k + 1
    BY <1>1, <2>3, RoundLeads, RoundLeadsNext
  <2>5. FinishedNow' = FinishedNow
    BY <2>4 DEF FinishedNow
  <2>6. QED
    BY <1>8, <2>5 DEF RunningNow, FinishedNow, Graph!graphVars
<1>10. CASE ~\E v \in Worker : at[v].step = k + 1
  <2>1. \A v \in Worker : at[v].step <= k
    BY <1>5, <1>10
  <2>2. Round = k
    BY <1>1, <1>4, <2>1, RoundIs
  <2>3. CASE \E v \in Worker : at'[v].step = k + 1
    <3>1. PICK v \in Worker : at'[v].step = k + 1
      BY <2>3
    <3>2. Leading(k + 1)'
      BY <1>7, <3>1 DEF Leading
    <3>3. Round' = k + 1
      BY <1>1, <3>2, RoundLeadsNext
    <3>4. ASSUME NEW x \in Task
          PROVE  ended[x] \in Nat /\ ended[x] >= k + 1 /\ ended[x] <= k + 1
      <4>1. ended[x] >= k + 1
        BY <3>1, EndedSoFarNext
      <4>2. ended[x] <= k + 1
        BY <2>1, EndedAhead
      <4>3. QED
        BY <1>1, <4>1, <4>2 DEF TypeOK
    <3>5. FinishedNow = Task /\ FinishedNow' = {}
      BY <2>2, <3>3, <3>4 DEF FinishedNow
    <3>6. Graph!NextIteration
      BY <1>8, <3>5, SameGraph DEF Graph!NextIteration, RunningNow, FinishedNow
    <3>7. QED
      BY <3>6 DEF Graph!Next
  <2>4. CASE ~\E v \in Worker : at'[v].step = k + 1
    <3>1. at'[w].step = k /\ \A v \in Worker : at'[v].step <= k
      BY <1>6, <1>7, <2>4
    <3>2. Leading(k)'
      BY <3>1 DEF Leading
    <3>3. Round' = k
      BY <1>1, <3>2, RoundLeadsNext
    <3>4. FinishedNow' = FinishedNow
      BY <2>2, <3>3 DEF FinishedNow
    <3>5. QED
      BY <1>8, <3>4 DEF RunningNow, FinishedNow, Graph!graphVars
  <2>5. QED
    BY <2>3, <2>4
<1>11. QED
  BY <1>9, <1>10

LEMMA LaunchRefines ==
    ASSUME IInv, IInv', NEW n \in 1 .. MaxSteps, LaunchL1(n)
    PROVE  [Graph!Next]_(Graph!graphVars)
<1>1. /\ status = "idle"
      /\ pc' = [w \in Worker |-> "task"]
      /\ at' = [w \in Worker |-> EnterStage(w, 0, 0)]
      /\ ended' = [x \in Task |-> 0]
  BY DEF LaunchL1
<1>2. TypeOK /\ TypeOK'
  BY DEF IInv
<1>3. \A w \in Worker : pc[w] = "done" /\ at[w].step = steps
  BY <1>1 DEF IInv, Standing
<1>4. steps \in Nat /\ \A x \in Task : ended[x] = steps
  BY <1>3, Finished
<1>5. PICK w \in Worker : TRUE
  <2>1. 0 \in Worker
    BY L1Assumption DEF Worker
  <2>2. QED
    BY <2>1
<1>6. Round = steps
  BY <1>2, <1>3, <1>4, <1>5, RoundIs
<1>7. Leading(0)'
  <2>1. \A v \in Worker : at'[v].step = 0
    BY <1>1, EnterFirstFields
  <2>2. QED
    BY <1>5, <2>1 DEF Leading
<1>8. Round' = 0
  BY <1>2, <1>7, RoundLeadsNext
<1>9. FinishedNow = {} /\ FinishedNow' = {}
  BY <1>1, <1>4, <1>6, <1>8 DEF FinishedNow
<1>10. RunningNow = {} /\ RunningNow' = {}
  BY <1>1, <1>3 DEF RunningNow
<1>11. QED
  BY <1>9, <1>10 DEF RunningNow, FinishedNow, Graph!graphVars

LEMMA ReleaseRefines ==
    ASSUME IInv, IInv', NEW w \in Worker, pc[w] \in {"publish", "wait"}, Released(w),
           ended' = ended, cur' = cur
    PROVE  [Graph!Next]_(Graph!graphVars)
<1>1. TypeOK /\ TypeOK'
  BY DEF IInv
<1>2. CASE Clustered
  <2>1. pc' = [pc EXCEPT ![w] = "scatter"] /\ at' = at
    BY <1>2 DEF Released
  <2>2. pc'[w] = "scatter" /\ \A v \in Worker \ {w} : pc'[v] = pc[v]
    BY <1>1, <2>1 DEF TypeOK
  <2>3. \A v \in Worker : pc'[v] \in {"run", "reduce"} <=> pc[v] \in {"run", "reduce"}
    BY <2>2
  <2>4. QED
    BY <1>1, <2>1, <2>3, QuietRefines
<1>3. CASE ~Clustered
  <2>1. Leave({w}) /\ {w} \in SUBSET Worker /\ w \in {w}
    BY <1>3 DEF Released
  <2>2. \A v \in {w} : at[v].step = at[w].step /\ pc[v] \in Gone \cup {"task"}
    BY DEF Gone
  <2>3. QED
    BY <2>1, <2>2, LeaveRefines
<1>4. QED
  BY <1>2, <1>3

LEMMA CtaRefines ==
    ASSUME IInv, IInv', NEW w \in Worker, CtaStep(w)
    PROVE  [Graph!Next]_(Graph!graphVars)
<1>1. TypeOK /\ TypeOK'
  BY DEF IInv
<1>2. CASE StartTask(w)
  BY <1>2, StartRefines
<1>3. CASE SkipPadding(w)
  <2>1. at' = [at EXCEPT ![w].ordinal = @ + Grid] /\ UNCHANGED <<pc, cur, ended>>
    BY <1>3 DEF SkipPadding, Stride
  <2>2. \A v \in Worker : at'[v].step = at[v].step
    BY <1>1, <2>1 DEF TypeOK
  <2>3. QED
    BY <1>1, <2>1, <2>2, QuietRefines
<1>4. CASE RunTask(w)
  <2>1. /\ pc[w] = "run" /\ EndBody(w) /\ cur' = cur
        /\ \/ pc' = [pc EXCEPT ![w] = "task"] /\ at' = [at EXCEPT ![w].ordinal = @ + Grid]
           \/ pc' = [pc EXCEPT ![w] = "handoff"] /\ at' = at
    BY <1>4 DEF RunTask, Stride
  <2>2. \A v \in Worker : at'[v].step = at[v].step
    <3>1. at \in [Worker -> [step : Nat, stage : Stage, ordinal : Nat]]
      BY <1>1 DEF TypeOK
    <3>2. CASE at' = [at EXCEPT ![w].ordinal = @ + Grid]
      BY <3>1, <3>2
    <3>3. QED
      BY <2>1, <3>2
  <2>3. pc'[w] \in {"task", "handoff"} /\ \A v \in Worker \ {w} : pc'[v] = pc[v]
    BY <1>1, <2>1 DEF TypeOK
  <2>4. QED
    BY <2>1, <2>2, <2>3, FinishRefines
<1>5. CASE Handoff(w)
  BY <1>5, HandoffRefines
<1>6. CASE Reduce(w)
  <2>1. /\ pc[w] = "reduce" /\ EndBody(w) /\ cur' = cur
        /\ pc' = [pc EXCEPT ![w] = "task"] /\ at' = [at EXCEPT ![w].ordinal = @ + Grid]
    BY <1>6 DEF Reduce, Stride
  <2>2. \A v \in Worker : at'[v].step = at[v].step
    BY <1>1, <2>1 DEF TypeOK
  <2>3. pc'[w] \in {"task", "handoff"} /\ \A v \in Worker \ {w} : pc'[v] = pc[v]
    BY <1>1, <2>1 DEF TypeOK
  <2>4. QED
    BY <2>1, <2>2, <2>3, FinishRefines
<1>7. CASE ArriveBarrier(w)
  <2>1. /\ pc[w] \notin {"run", "reduce"} /\ at' = at /\ cur' = cur /\ ended' = ended
        /\ pc' = [pc EXCEPT ![w] =
                    IF ~RedBarrier /\ arrivals[at[w].stage] + 1 = Needed(w)
                    THEN "publish" ELSE "wait"]
    BY <1>7 DEF ArriveBarrier, AtBarrier, StageWalked
  <2>2. pc'[w] \notin {"run", "reduce"} /\ \A v \in Worker \ {w} : pc'[v] = pc[v]
    BY <1>1, <2>1 DEF TypeOK
  <2>3. \A v \in Worker : pc'[v] \in {"run", "reduce"} <=> pc[v] \in {"run", "reduce"}
    BY <2>1, <2>2
  <2>4. QED
    BY <1>1, <2>1, <2>3, QuietRefines
<1>8. CASE PublishBarrier(w)
  <2>1. pc[w] \in {"publish", "wait"} /\ Released(w) /\ ended' = ended /\ cur' = cur
    BY <1>8 DEF PublishBarrier
  <2>2. QED
    BY <2>1, ReleaseRefines
<1>9. CASE AwaitBarrier(w)
  <2>1. pc[w] \in {"publish", "wait"} /\ Released(w) /\ ended' = ended /\ cur' = cur
    BY <1>9 DEF AwaitBarrier
  <2>2. QED
    BY <2>1, ReleaseRefines
<1>10. QED
  BY <1>2, <1>3, <1>4, <1>5, <1>6, <1>7, <1>8, <1>9 DEF CtaStep

LEMMA ClusterRefines ==
    ASSUME IInv, IInv', NEW w \in Worker, ClusterStep(w \div ClusterDim)
    PROVE  [Graph!Next]_(Graph!graphVars)
<1>1. TypeOK /\ TypeOK'
  BY DEF IInv
<1>2. PICK c : c = w \div ClusterDim
  OBVIOUS
<1>3. /\ w \in Cluster(c) /\ Cluster(c) \in SUBSET Worker
      /\ ended' = ended /\ cur' = cur
  BY <1>2 DEF Cluster, ClusterStep, ClusterGather, ClusterScatter
<1>4. ASSUME Clustered, NEW v \in Cluster(c)
      PROVE  at[v].step = at[w].step
  <2>1. v \in Worker /\ v \div ClusterDim = w \div ClusterDim
    BY <1>2 DEF Cluster
  <2>2. InCluster(v, w)
    BY <2>1 DEF IInv
  <2>3. QED
    BY <1>4, <2>1, <2>2 DEF InCluster
<1>5. CASE ClusterGather(c)
  <2>1. Clustered /\ \A v \in Cluster(c) : pc[v] = "task"
    BY <1>5 DEF ClusterGather, StageWalked
  <2>2. CASE Clusters <= 1
    <3>1. Leave(Cluster(c))
      BY <1>5, <2>2 DEF ClusterGather
    <3>2. \A v \in Cluster(c) : at[v].step = at[w].step /\ pc[v] \in Gone \cup {"task"}
      BY <1>4, <2>1
    <3>3. QED
      BY <1>3, <3>1, <3>2, LeaveRefines
  <2>3. CASE ~(Clusters <= 1)
    <3>1. /\ at' = at
          /\ pc' = [v \in Worker |->
                        IF v \notin Cluster(c) THEN pc[v]
                        ELSE IF Rank(v) = 0 THEN "gathered" ELSE "scatter"]
      BY <1>5, <2>3 DEF ClusterGather
    <3>2. \A v \in Worker : pc'[v] \in {"run", "reduce"} <=> pc[v] \in {"run", "reduce"}
      BY <2>1, <3>1
    <3>3. QED
      BY <1>1, <1>3, <3>1, <3>2, QuietRefines
  <2>4. QED
    BY <2>2, <2>3
<1>6. CASE ClusterScatter(c)
  <2>1. Leave(Cluster(c)) /\ \A v \in Cluster(c) : pc[v] = "scatter"
    BY <1>6 DEF ClusterScatter
  <2>2. Clustered
    BY <1>3, <2>1 DEF IInv, Standing
  <2>3. \A v \in Cluster(c) : at[v].step = at[w].step /\ pc[v] \in Gone \cup {"task"}
    BY <1>4, <2>1, <2>2 DEF Gone
  <2>4. QED
    BY <1>3, <2>1, <2>3, LeaveRefines
<1>7. QED
  BY <1>2, <1>5, <1>6 DEF ClusterStep

LEMMA StepRefines ==
    IInv /\ IInv' /\ [Next]_vars => [Graph!Next]_(Graph!graphVars)
<1> SUFFICES ASSUME IInv, IInv', [Next]_vars
             PROVE  [Graph!Next]_(Graph!graphVars)
  OBVIOUS
<1>1. CASE \E n \in 1 .. MaxSteps : LaunchL1(n)
  BY <1>1, LaunchRefines
<1>2. CASE EndLaunch \/ Reset \/ UNCHANGED vars
  <2>1. UNCHANGED <<pc, at, cur, ended>>
    BY <1>2 DEF EndLaunch, Reset, vars, ctaVars
  <2>2. TypeOK /\ TypeOK'
    BY DEF IInv
  <2>3. QED
    BY <2>1, <2>2, QuietRefines
<1>3. CASE \E w \in Worker : CtaStep(w)
  BY <1>3, CtaRefines
<1>4. CASE \E w \in Worker : Rank(w) = 0 /\ ClusterStep(w \div ClusterDim)
  BY <1>4, ClusterRefines
<1>5. QED
  BY <1>1, <1>2, <1>3, <1>4 DEF Next

(***************************************************************************)
(* The stage executor implements the task graph: in every decode step each *)
(* task runs once, after its producers of the same step, the reductions    *)
(* that its stages elide included, under any interleaving of the CTAs.     *)
(***************************************************************************)
THEOREM L1Refinement == Spec => ImplementsTaskGraph
<1>1. Init => Graph!Init
  <2> SUFFICES ASSUME Init
               PROVE  Graph!Init
    OBVIOUS
  <2>1. /\ \A w \in Worker : pc[w] = "done" /\ at[w].step = 0
        /\ \A x \in Task : ended[x] = 0
    BY EnterFirstFields DEF Init
  <2>2. PICK w \in Worker : TRUE
    <3>1. 0 \in Worker
      BY L1Assumption DEF Worker
    <3>2. QED
      BY <3>1
  <2>3. TypeOK
    BY InitStep DEF IInv
  <2>4. Round = 0
    BY <2>1, <2>2, <2>3, RoundIs
  <2>5. RunningNow = {} /\ FinishedNow = {}
    BY <2>1, <2>4 DEF RunningNow, FinishedNow
  <2>6. QED
    BY <2>5 DEF Graph!Init, RunningNow, FinishedNow
<1>2. IInv /\ IInv' /\ [Next]_vars => [Graph!Next]_(Graph!graphVars)
  BY StepRefines
<1>3. QED
  BY <1>1, <1>2, L1Invariant, PTL DEF Spec, ImplementsTaskGraph, Graph!Spec
=============================================================================
