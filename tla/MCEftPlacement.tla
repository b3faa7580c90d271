--------------------------- MODULE MCEftPlacement ---------------------------
(***************************************************************************)
(* Every task graph over four nodes and every plan for two workers, legal  *)
(* or not, on SMs of their own or on one; and every graph over five nodes  *)
(* to be placed on three workers, two of which may share an SM.  Costs are *)
(* multiples of Scale, so that repeated halving leaves integers.           *)
(***************************************************************************)
EXTENDS EftPlacement

Scale == 256

Costs(preds, time, prefetch, hop, publication, wait) ==
    [preds |-> preds, time |-> [n \in DOMAIN time |-> Scale * time[n]],
     prefetch |-> [n \in DOMAIN time |-> Scale * prefetch[n]],
     hop |-> Scale * hop, publication |-> Scale * publication, wait |-> Scale * wait]

Graphs == {<<{}, a, b, c>> : a \in SUBSET {1}, b \in SUBSET (1..2), c \in SUBSET (1..3)}
Orders(N) == {o \in [1..N -> 1..N] : \A a, b \in 1..N : o[a] = o[b] => a = b}
Plans(N) == {<<SubSeq(o, 1, k), SubSeq(o, k + 1, N)>> : o \in Orders(N), k \in 0..N}

FourNodes == {Costs(p, <<2, 3, 1, 2>>, <<0, 0, 0, 0>>, 1, 1, 1) : p \in Graphs}
Overlapped == {Costs(p, <<2, 3, 1, 2>>, <<1, 2, 1, 1>>, 1, 0, 0) : p \in Graphs}
AllInstances == FourNodes \cup Overlapped
TwoWorkers == {q \in Plans(4) : Len(q[1]) >= Len(q[2])}
TwoSms == {<<1, 2>>, <<1, 1>>}

\* The placement is not given publication, wait or prefetch costs.
FiveGraphs == {Append(p, d) : p \in Graphs, d \in SUBSET (1..4)}
FiveNodes == {Costs(p, t, <<0, 0, 0, 0, 0>>, h, 0, 0) :
                p \in FiveGraphs, t \in {<<2, 3, 1, 2, 4>>, <<5, 1, 3, 2, 2>>}, h \in {0, 1, 3}}
ThreeWorkers == {<<1, 2, 3>>, <<1, 2, 1>>}
=============================================================================
