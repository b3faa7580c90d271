------------------------ MODULE RuntimeGraph_proofs ------------------------
(***************************************************************************)
(* Facts about the static graph that the executor's proofs rest on: the    *)
(* task set is finite, and the arrival target a consumer computes from the *)
(* counts is the number of tasks that arrive at the row.  Then the         *)
(* counters that are never cleared, which several executors share.         *)
(***************************************************************************)
EXTENDS RuntimeGraph, FiniteSetTheorems, FunctionTheorems,
        WellFoundedInduction, TLAPS

USE DEF Stage

\* A task is a stage and an index below that stage's count.
LEMMA TaskMembership ==
    \A x : x \in Task <=>
        \E s \in Stage : \E i \in 0 .. (Count[s] - 1) : x = [stage |-> s, logical |-> i]
BY DEF Task

LEMMA TaskFields ==
    ASSUME NEW x \in Task
    PROVE  /\ x.stage \in Stage
           /\ x.logical \in 0 .. (Count[x.stage] - 1)
           /\ x.logical \in Nat
           /\ Count[x.stage] \in Nat
           /\ Kappa[x.stage] \in Nat \ {0}
           /\ x = [stage |-> x.stage, logical |-> x.logical]
BY GraphAssumption DEF Task

LEMMA IntervalCardinality ==
    ASSUME NEW a \in Int, NEW b \in Int, a <= b + 1
    PROVE  IsFiniteSet(a .. b) /\ Cardinality(a .. b) = b - a + 1
<1>1. IsFiniteSet(a .. b) /\ Cardinality(a .. b) = IF a > b THEN 0 ELSE b - a + 1
  BY FS_Interval
<1> QED
  BY <1>1

\* The tasks of one stage correspond to the indices below its count.
LEMMA StageTasks ==
    ASSUME NEW s \in Stage
    PROVE  /\ IsFiniteSet(TasksOf(s))
           /\ Cardinality(TasksOf(s)) = Count[s]
<1> DEFINE I == 0 .. (Count[s] - 1)
           f == [i \in I |-> [stage |-> s, logical |-> i]]
<1>1. Count[s] \in Nat
  BY GraphAssumption
<1>2. IsFiniteSet(I) /\ Cardinality(I) = Count[s]
  <2>1. 0 \in Int /\ (Count[s] - 1) \in Int /\ 0 <= (Count[s] - 1) + 1
    BY <1>1
  <2>2. IsFiniteSet(I) /\ Cardinality(I) = (Count[s] - 1) - 0 + 1
    BY <2>1, IntervalCardinality, Zenon
  <2> QED
    BY <1>1, <2>2
<1>3. \A i \in I : f[i] \in TasksOf(s)
  BY TaskMembership DEF TasksOf
<1>4. f \in [I -> TasksOf(s)]
  BY <1>3
<1>5. \A i, j \in I : f[i] = f[j] => i = j
  OBVIOUS
<1>6. \A x \in TasksOf(s) : \E i \in I : f[i] = x
  BY TaskFields DEF TasksOf
<1>7. f \in Bijection(I, TasksOf(s))
  BY <1>4, <1>5, <1>6 DEF Bijection, Injection, Surjection, IsInjective
<1>8. ExistsBijection(I, TasksOf(s))
  BY <1>7 DEF ExistsBijection
<1> QED
  BY <1>2, <1>8, FS_Bijection

THEOREM TaskFinite == IsFiniteSet(Task)
<1> DEFINE F == {TasksOf(s) : s \in Stage}
           f == [s \in Stage |-> TasksOf(s)]
<1>1. IsFiniteSet(Stage)
  BY GraphAssumption, FS_Interval
<1>2. f \in Surjection(Stage, F)
  BY DEF Surjection
<1>3. IsFiniteSet(F)
  BY <1>1, <1>2, FS_Surjection
<1>4. IsFiniteSet(UNION F)
  BY <1>3, StageTasks, FS_UNION
<1>5. Task \subseteq UNION F
  BY TaskFields DEF TasksOf
<1> QED
  BY <1>4, <1>5, FS_Subset

-----------------------------------------------------------------------------
(***************************************************************************)
(* Arithmetic the proofs of several components use.                        *)
(***************************************************************************)
LEMMA LeastNatural ==
    ASSUME NEW S \in SUBSET Nat, S # {}
    PROVE  \E m \in S : \A k \in S : m <= k
<1> DEFINE R == {ss \in Nat \X Nat : ss[1] < ss[2]}
<1>1. IsWellFoundedOn(R, Nat)
  BY NatLessThanWellFounded DEF OpToRel
<1>2. PICK m \in S : \A k \in S : ~ (<<k, m>> \in R)
  <2> HIDE DEF R
  <2>1. QED
    BY <1>1, WFMin
<1>3. ASSUME NEW k \in S, k < m
      PROVE  FALSE
  <2>1. <<k, m>> \in Nat \X Nat
    OBVIOUS
  <2>2. <<k, m>> \in R
    BY <1>3, <2>1
  <2>3. QED
    BY <1>2, <2>2
<1>4. m \in Nat /\ \A k \in S : k \in Nat /\ ~ (k < m)
  BY <1>3
<1>5. QED
  BY <1>4

LEMMA Division ==
    ASSUME NEW n \in Nat, NEW k \in Nat \ {0}
    PROVE  /\ n \div k \in Nat
           /\ n % k \in 0 .. (k - 1)
           /\ n = (n \div k) * k + (n % k)
BY SMT

LEMMA DivisionUnique ==
    ASSUME NEW k \in Nat \ {0}, NEW q \in Nat, NEW r \in 0 .. (k - 1)
    PROVE  /\ (q * k + r) \div k = q
           /\ (q * k + r) % k = r
BY SMT

\* The group of an index is the block of k indices it lies in.
LEMMA DivisionBlock ==
    ASSUME NEW i \in Nat, NEW k \in Nat \ {0}, NEW g \in Int
    PROVE  /\ i \div k \in Nat
           /\ i \div k = g <=> g * k <= i /\ i < g * k + k
BY SMT

LEMMA GroupIsNat ==
    ASSUME NEW x \in Task
    PROVE  Group(x) \in Nat
BY TaskFields, DivisionBlock DEF Group

LEMMA RowFields ==
    ASSUME NEW r \in Row
    PROVE  /\ r.producer \in Stage
           /\ \/ r.group = WholeStage
              \/ \E y \in Task : y.stage = r.producer /\ r.group = Group(y)
BY TaskFields DEF Row

LEMMA MembersInTask == \A r : Members(r) \subseteq Task
BY DEF Members

LEMMA AggregateMembers ==
    ASSUME NEW r \in Row, r.group = WholeStage
    PROVE  Members(r) = TasksOf(r.producer)
BY DEF Members, NotifyRows, TasksOf

LEMMA FineMembers ==
    ASSUME NEW r \in Row, r.group # WholeStage
    PROVE  Members(r) = {x \in TasksOf(r.producer) : Group(x) = r.group}
BY DEF Members, NotifyRows, TasksOf

\* What a consumer waits for is what the producers deliver: RawEventTriggers,
\* computed from the counts, is the number of tasks that notify the row.
THEOREM TriggersCountMembers ==
    ASSUME NEW r \in Row
    PROVE  /\ IsFiniteSet(Members(r))
           /\ Cardinality(Members(r)) = RawEventTriggers(r)
<1>1. CASE r.group = WholeStage
  BY <1>1, RowFields, AggregateMembers, StageTasks DEF RawEventTriggers
<1>2. CASE r.group # WholeStage
  <2> DEFINE s == r.producer
             k == Kappa[s]
             lo == r.group * k
             hi == IF Count[s] - lo < k THEN Count[s] - 1 ELSE lo + k - 1
             I == lo .. hi
             f == [i \in I |-> [stage |-> s, logical |-> i]]
  <2>1. PICK y \in Task : y.stage = s /\ r.group = Group(y)
    BY <1>2, RowFields
  <2>2. s \in Stage /\ k \in Nat \ {0} /\ Count[s] \in Nat /\ r.group \in Nat
    BY <2>1, TaskFields, GroupIsNat
  <2>3. lo \in Nat
    BY <2>2
  <2>4. y.logical \in Nat /\ lo <= y.logical /\ y.logical < Count[s]
    BY <2>1, <2>2, TaskFields, DivisionBlock DEF Group
  <2> HIDE DEF lo
  <2>5. hi \in Int /\ lo <= hi /\ hi < Count[s] /\ hi < lo + k
    <3>1. CASE Count[s] - lo < k
      BY <2>2, <2>3, <2>4, <3>1
    <3>2. CASE ~(Count[s] - lo < k)
      BY <2>2, <2>3, <2>4, <3>2
    <3> QED
      BY <3>1, <3>2
  <2>6. \A i \in 0 .. (Count[s] - 1) : i \in I <=> i \div k = r.group
    <3> SUFFICES ASSUME NEW i \in 0 .. (Count[s] - 1)
                 PROVE  i \in I <=> i \div k = r.group
      OBVIOUS
    <3>1. i \div k = r.group <=> lo <= i /\ i < lo + k
      BY <2>2, DivisionBlock DEF lo
    <3> QED
      BY <2>2, <2>3, <3>1
  <2>7. I \subseteq 0 .. (Count[s] - 1)
    BY <2>2, <2>3, <2>5
  <2>8. \A i \in I : f[i] \in Members(r)
    <3> SUFFICES ASSUME NEW i \in I
                 PROVE  [stage |-> s, logical |-> i] \in Members(r)
      OBVIOUS
    <3> DEFINE x == [stage |-> s, logical |-> i]
    <3>1. x \in Task
      BY <2>2, <2>7, TaskMembership
    <3>2. Group(x) = r.group
      BY <2>6, <2>7 DEF Group
    <3> QED
      BY <1>2, <3>1, <3>2, FineMembers DEF TasksOf
  <2>9. \A x \in Members(r) : \E i \in I : f[i] = x
    <3> SUFFICES ASSUME NEW x \in Members(r)
                 PROVE  \E i \in I : f[i] = x
      OBVIOUS
    <3>1. x \in Task /\ x.stage = s /\ Group(x) = r.group
      BY <1>2, FineMembers DEF TasksOf
    <3>2. x.logical \in I
      BY <2>6, <3>1, TaskFields DEF Group
    <3> QED
      BY <3>1, <3>2, TaskFields
  <2>10. \A i, j \in I : f[i] = f[j] => i = j
    OBVIOUS
  <2>11. f \in Bijection(I, Members(r))
    BY <2>8, <2>9, <2>10 DEF Bijection, Injection, Surjection, IsInjective
  <2>12. IsFiniteSet(I) /\ Cardinality(I) = hi - lo + 1
    <3>1. lo \in Int /\ hi \in Int /\ lo <= hi + 1
      BY <2>3, <2>5
    <3> QED
      BY <3>1, IntervalCardinality, Zenon
  <2>13. IsFiniteSet(Members(r)) /\ Cardinality(Members(r)) = Cardinality(I)
    BY <2>11, <2>12, FS_Bijection DEF ExistsBijection
  <2>14. RawEventTriggers(r) = IF Count[s] - lo < k THEN Count[s] - lo ELSE k
    BY <1>2 DEF RawEventTriggers, lo
  <2> QED
    BY <2>2, <2>3, <2>12, <2>13, <2>14
<1> QED
  BY <1>1, <1>2
-----------------------------------------------------------------------------
(***************************************************************************)
(* Counters that are never cleared: what their value says of the members.  *)
(***************************************************************************)
\* A counter that every member of S raises once a round: c after k rounds, if
\* the members are in round k or have done with it (f counts their rounds).
Tally(S, f, c, size, base) ==
    \A k \in Nat :
        (\A x \in S : f[x] \in {k, k + 1}) =>
            c = size * (base + k) + Cardinality({x \in S : f[x] = k + 1})

LEMMA TallyStart ==
    ASSUME NEW S, IsFiniteSet(S), S # {}, NEW size \in Nat, NEW base \in Nat,
           NEW f, \A x \in S : f[x] = 0,
           NEW c, c = size * base
    PROVE  Tally(S, f, c, size, base)
<1> SUFFICES ASSUME NEW k \in Nat, \A x \in S : f[x] \in {k, k + 1}
             PROVE  c = size * (base + k) + Cardinality({x \in S : f[x] = k + 1})
  BY DEF Tally
<1>1. k = 0
  OBVIOUS
<1>2. {x \in S : f[x] = k + 1} = {}
  BY <1>1
<1>3. Cardinality({}) = 0
  BY FS_EmptySet
<1>4. QED
  BY <1>1, <1>2, <1>3

LEMMA TallyBounds ==
    ASSUME NEW S, IsFiniteSet(S), NEW size \in Nat, Cardinality(S) = size,
           NEW base \in Nat, NEW f, NEW c,
           Tally(S, f, c, size, base),
           NEW k \in Nat, \A x \in S : f[x] \in {k, k + 1}
    PROVE  /\ size * (base + k) <= c
           /\ c <= size * (base + k + 1)
           /\ c = size * (base + k + 1) <=> \A x \in S : f[x] = k + 1
<1> DEFINE T == {x \in S : f[x] = k + 1}
<1>1. c = size * (base + k) + Cardinality(T)
  BY DEF Tally
<1>2. Cardinality(T) \in Nat /\ Cardinality(T) <= size
  BY FS_Subset, FS_CardinalityType
<1>3. Cardinality(T) = size <=> T = S
  BY FS_Subset
<1>4. size * (base + k + 1) = size * (base + k) + size /\ size * (base + k) \in Nat
  BY SMT
<1>5. T = S <=> \A x \in S : f[x] = k + 1
  OBVIOUS
<1> HIDE DEF T
<1>6. QED
  BY <1>1, <1>2, <1>3, <1>4, <1>5

AllPast(S, f, k) == \A x \in S : f[x] = k + 1
RoundStart(size, base, k) == size * (base + k)
RoundTarget(size, base, k) == size * (base + k + 1)

\* x goes from k to k + 1, the rest of S is in round k or past it and stays.
Raises(S, f, g, x, k) ==
    /\ x \in S /\ f[x] = k /\ g[x] = k + 1
    /\ \A y \in S : f[y] \in {k, k + 1}
    /\ \A y \in S : y # x => g[y] = f[y]

\* One member finishes a round in which no other is behind.
LEMMA TallyStep ==
    ASSUME NEW S, IsFiniteSet(S), NEW size \in Nat, Cardinality(S) = size,
           NEW base \in Nat, NEW f, NEW g, NEW c \in Nat,
           Tally(S, f, c, size, base),
           NEW x, NEW k \in Nat, Raises(S, f, g, x, k),
           NEW target \in Nat, target = RoundTarget(size, base, k)
    PROVE  /\ Tally(S, g, c + 1, size, base)
           /\ target - size <= c
           /\ c < target
           /\ AllPast(S, g, k) => c + 1 = target
           /\ c + 1 = target => AllPast(S, g, k)
<1> USE DEF Raises, RoundTarget
<1> DEFINE T == {y \in S : f[y] = k + 1}
           U == {y \in S : g[y] = k + 1}
<1>1. c = size * (base + k) + Cardinality(T)
  BY DEF Tally
<1>2. U = T \cup {x} /\ x \notin T
  OBVIOUS
<1>3. IsFiniteSet(T) /\ Cardinality(T) \in Nat
  BY FS_Subset, FS_CardinalityType
<1>4. IsFiniteSet(U) /\ Cardinality(U) = Cardinality(T) + 1
  <2> HIDE DEF T, U
  <2>1. QED
    BY <1>2, <1>3, FS_AddElement
<1>5. Cardinality(U) <= size /\ (Cardinality(U) = size <=> U = S)
  BY FS_Subset
<1>6. /\ size * (base + k) \in Nat
      /\ size * (base + k + 1) = size * (base + k) + size
  BY SMT
<1>7. U = S <=> AllPast(S, g, k)
  BY DEF AllPast
<1>8. c + 1 = size * (base + k) + Cardinality(U)
  <2> HIDE DEF T, U
  <2>1. QED
    BY <1>1, <1>3, <1>4, <1>6
<1>9. ASSUME NEW i \in Nat, \A y \in S : g[y] \in {i, i + 1}
      PROVE  c + 1 = size * (base + i) + Cardinality({y \in S : g[y] = i + 1})
  <2>1. i = k \/ i = k + 1
    <3>1. x \in S /\ g[x] = k + 1
      OBVIOUS
    <3> HIDE DEF Raises, RoundTarget, T, U
    <3>2. g[x] \in {i, i + 1}
      BY <1>9, <3>1
    <3>3. QED
      BY <3>1, <3>2
  <2>2. CASE i = k
    BY <1>8, <2>2
  <2>3. CASE i = k + 1
    <3>1. \A y \in S : g[y] = k + 1
      BY <1>9, <2>3
    <3>2. {y \in S : g[y] = i + 1} = {}
      BY <2>3, <3>1
    <3>3. c + 1 = size * (base + k + 1)
      <4> HIDE DEF T, U
      <4>1. QED
        BY <1>3, <1>4, <1>5, <1>6, <1>7, <1>8, <3>1 DEF AllPast
    <3>4. Cardinality({y \in S : g[y] = i + 1}) = 0
      BY <3>2, FS_EmptySet
    <3>5. base + i = base + k + 1
      BY <2>3
    <3>6. size * (base + i) \in Nat /\ size * (base + i) = size * (base + k + 1)
      BY <3>5
    <3>7. QED
      BY <3>3, <3>4, <3>6
  <2>4. QED
    BY <2>1, <2>2, <2>3
<1>10. Tally(S, g, c + 1, size, base)
  BY <1>9 DEF Tally
<1> HIDE DEF T, U
<1>11. QED
  BY <1>1, <1>3, <1>4, <1>5, <1>6, <1>7, <1>8, <1>10

\* The member whose raise reaches the target of the round is its last.
LEMMA TallyLast ==
    ASSUME NEW S, IsFiniteSet(S), NEW size \in Nat, Cardinality(S) = size,
           NEW base \in Nat, NEW f, NEW g, NEW c \in Nat,
           Tally(S, f, c, size, base),
           NEW x, NEW k \in Nat, Raises(S, f, g, x, k),
           NEW target \in Nat, target = RoundTarget(size, base, k), c + 1 = target
    PROVE  AllPast(S, g, k)
BY TallyStep

LEMMA TallySame ==
    ASSUME NEW S, NEW f, NEW g, NEW c, NEW size, NEW base,
           Tally(S, f, c, size, base),
           \A x \in S : g[x] = f[x]
    PROVE  Tally(S, g, c, size, base)
<1> SUFFICES ASSUME NEW k \in Nat, \A x \in S : g[x] \in {k, k + 1}
             PROVE  c = size * (base + k) + Cardinality({x \in S : g[x] = k + 1})
  BY DEF Tally
<1>1. {x \in S : g[x] = k + 1} = {x \in S : f[x] = k + 1}
  OBVIOUS
<1>2. \A x \in S : f[x] \in {k, k + 1}
  OBVIOUS
<1>3. QED
  BY <1>1, <1>2 DEF Tally

\* Members within one round of each other: who is complete once c is.
LEMMA TallyComplete ==
    ASSUME NEW S, IsFiniteSet(S), NEW size \in Nat, Cardinality(S) = size,
           NEW base \in Nat, NEW f, NEW c,
           Tally(S, f, c, size, base),
           \A x \in S : f[x] \in Nat,
           \A x, y \in S : f[x] <= f[y] + 1,
           NEW k \in Nat, \A x \in S : f[x] >= k, c >= size * (base + k + 1)
    PROVE  \A x \in S : f[x] >= k + 1
<1> SUFFICES ASSUME NEW x \in S, f[x] = k
             PROVE  FALSE
  OBVIOUS
<1>1. \A y \in S : f[y] \in {k, k + 1}
  OBVIOUS
<1>2. c = size * (base + k + 1)
  <2>1. size * (base + k) <= c /\ c <= size * (base + k + 1)
    BY <1>1, TallyBounds
  <2>2. size * (base + k + 1) \in Nat /\ c \in Int
    <3>1. Cardinality({z \in S : f[z] = k + 1}) \in Nat
      BY FS_Subset, FS_CardinalityType
    <3>2. c = size * (base + k) + Cardinality({z \in S : f[z] = k + 1})
      BY <1>1 DEF Tally
    <3>3. QED
      BY <3>1, <3>2
  <2>3. QED
    BY <2>1, <2>2
<1>3. f[x] = k + 1
  BY <1>1, <1>2, TallyBounds
<1>4. QED
  BY <1>3

\* All members have done the same number of rounds.
LEMMA TallyLevel ==
    ASSUME NEW S, NEW size \in Nat, NEW base \in Nat, NEW f, NEW c,
           Tally(S, f, c, size, base), NEW k \in Nat, \A x \in S : f[x] = k
    PROVE  c = RoundStart(size, base, k)
<1>1. \A x \in S : f[x] \in {k, k + 1}
  OBVIOUS
<1>2. {x \in S : f[x] = k + 1} = {}
  OBVIOUS
<1>3. c = size * (base + k) + 0
  BY <1>1, <1>2, FS_EmptySet DEF Tally
<1>4. QED
  BY <1>3 DEF RoundStart
=============================================================================
