--------------------- MODULE DenseTensorParallel_proofs ---------------------
(***************************************************************************)
(* Every step of the dense program keeps the laws of DenseLaws_proofs, by  *)
(* one lemma per action of the host and of a CTA.  From the laws: the      *)
(* operands of every tile are those of its own step, on every rank, and    *)
(* the ranks choose the same tokens.                                       *)
(***************************************************************************)
EXTENDS DenseLaws_proofs

\* The deciding CTA leaves the partials their meaning.
LEMMA PartialDecide ==
    ASSUME NEW q, NEW row, NEW row2, NEW c \in Cta, Decides(row, row2, c),
           NEW m, PartialLaw(q, row, m)
    PROVE  PartialLaw(q, row2, m)
<1>1. /\ Moves(row, row2, c) /\ row[c].at \in Deciding /\ row[c].stage = HeadStage
      /\ row2[c].step = row[c].step
  BY DEF Decides
<1>2. \A e \in Cta :
         row2[e].stage = HeadStage /\ Scored(row2[e]) = row2[e].step + 1 =>
             /\ row[e].stage = HeadStage /\ row2[e].step = row[e].step
             /\ Scored(row[e]) = row[e].step + 1
  <2>1. TAKE e \in Cta
  <2>2. CASE e # c
    BY <1>1, <2>2 DEF Moves
  <2>3. CASE e = c
    BY <1>1, <2>3 DEF Scored
  <2>4. QED
    BY <2>2, <2>3
<1>3. QED
  BY <1>2, PartialKept

\* The token of the next position stands there once it is chosen.
Tokens(tok) == tok \in [Position -> Val]
PutToken(tok, k, v) == IF k >= PromptLen THEN [tok EXCEPT ![k] = v] ELSE tok
ChoosesNext(q, p, k, v) == k = p + 1 /\ k \in Position /\ v = Value(q, k, HeadStage)
ChosenAlso(row, row2, p) == \A n \in Nat : Chosen(row2, n) <=> Chosen(row, n) \/ n = p
LEMMA TokenChosen ==
    ASSUME NEW q, NEW d, NEW row, NEW row2, NEW tok, NEW tok2, TokenLaw(q, d, row, tok),
           NEW p \in Nat, NEW k, NEW v, ChoosesNext(q, p, k, v), Tokens(tok),
           ChosenAlso(row, row2, p), tok2 = PutToken(tok, k, v)
    PROVE  TokenLaw(q, d, row2, tok2) /\ (d >= 1 => tok2[k] = Token(q, k))
<1>1. PromptLen \in Nat
  BY DenseConstants
<1>2. k \in Nat /\ k = p + 1 /\ k \in Position /\ v = Value(q, k, HeadStage)
  BY DEF ChoosesNext
<1>3. \A j \in Position : tok2[j] = IF j = k /\ k >= PromptLen
                                     THEN Value(q, k, HeadStage) ELSE tok[j]
  BY <1>2 DEF Tokens, PutToken
<1>4. \A j \in 0 .. (PromptLen - 1) : j \in Position
  <2>1. 1 \in DOMAIN NewTokens \/ \E e \in DOMAIN NewTokens : TRUE
    <3>1. PICK e \in DOMAIN NewTokens : k \in 0 .. (PromptLen + NewTokens[e])
      BY <1>2 DEF Position
    <3>2. QED
      BY <3>1
  <2>2. PICK e \in DOMAIN NewTokens : TRUE
    BY <2>1
  <2>3. NewTokens[e] \in Nat
    BY DenseAssumption DEF DenseAssumption
  <2>4. \A j \in 0 .. (PromptLen - 1) : j \in 0 .. (PromptLen + NewTokens[e])
    BY <1>1, <2>3
  <2>5. QED
    BY <2>2, <2>4 DEF Position
<1>5. d >= 1 => \A j \in 0 .. (PromptLen - 1) : tok2[j] = Token(q, j)
  <2>1. SUFFICES ASSUME d >= 1, NEW j \in 0 .. (PromptLen - 1) PROVE tok2[j] = Token(q, j)
    OBVIOUS
  <2>2. tok[j] = Token(q, j)
    BY <2>1 DEF TokenLaw
  <2>3. ~(j = k /\ k >= PromptLen)
    BY <1>1
  <2>4. QED
    BY <1>3, <1>4, <2>2, <2>3
<1>6. \A j \in Position : j >= PromptLen /\ Chosen(row2, j - 1) => tok2[j] = Token(q, j)
  <2>1. SUFFICES ASSUME NEW j \in Position, j >= PromptLen, Chosen(row2, j - 1)
                 PROVE  tok2[j] = Token(q, j)
    OBVIOUS
  <2>2. j \in Nat /\ j - 1 \in Nat
    BY <1>1, <2>1, PositionNat, DenseConstants
  <2>3. CASE j = k
    BY <1>1, <1>3, <2>1, <2>2, <2>3 DEF Token
  <2>4. CASE j # k
    <3>1. Chosen(row, j - 1)
      BY <1>2, <2>1, <2>2, <2>4 DEF ChosenAlso
    <3>2. QED
      BY <1>3, <2>1, <2>4, <3>1 DEF TokenLaw
  <2>5. QED
    BY <2>3, <2>4
<1>7. d >= 1 => tok2[k] = Token(q, k)
  <2>1. CASE k >= PromptLen
    BY <1>1, <1>2, <1>3, <2>1 DEF Token
  <2>2. CASE k < PromptLen
    BY <1>1, <1>2, <1>5, <2>2
  <2>3. QED
    BY <1>1, <1>2, <2>1, <2>2
<1>8. QED
  BY <1>2, <1>5, <1>6, <1>7 DEF TokenLaw

\* The residual stream of r is set to v as a whole.
Streamed(r, v) == [memory EXCEPT ![r].x = Fill(DOMAIN @, v)]
LEMMA StreamSet ==
    ASSUME DenseType, NEW r \in Rank, NEW v \in Sound, NEW mem, mem = Streamed(r, v)
    PROVE  /\ mem \in [Rank -> MemorySet]
           /\ \A s \in Rank : s # r => mem[s] = memory[s]
           /\ mem[r].x = Fill(0 .. (XTiles - 1), v)
           /\ mem[r].qkv = memory[r].qkv /\ mem[r].context = memory[r].context
           /\ mem[r].act = memory[r].act /\ mem[r].partial = memory[r].partial
<1>1. memory \in [Rank -> MemorySet]
  BY DEF DenseType
<1>2. PICK m : m = memory[r] /\ m \in MemorySet
  BY <1>1
<1>3. /\ m.x \in [0 .. (XTiles - 1) -> Sound]
      /\ m = [x |-> m.x, qkv |-> m.qkv, context |-> m.context, act |-> m.act,
              partial |-> m.partial]
  BY <1>2, MemoryParts
<1>4. PICK X : X = Fill(0 .. (XTiles - 1), v)
  OBVIOUS
<1>5. X \in [0 .. (XTiles - 1) -> Sound] /\ DOMAIN m.x = 0 .. (XTiles - 1)
  BY <1>3, <1>4 DEF Fill
<1>6. PICK m2 : m2 = [x |-> X, qkv |-> m.qkv, context |-> m.context, act |-> m.act,
                      partial |-> m.partial]
  OBVIOUS
<1>7. m2 \in MemorySet
  BY <1>2, <1>5, <1>6, MemoryParts DEF MemorySet
<1>8. [m EXCEPT !.x = X] = m2
  BY <1>3, <1>6
<1>9. mem = [memory EXCEPT ![r] = m2]
  <2>1. mem = [memory EXCEPT ![r] = [memory[r] EXCEPT !.x = Fill(DOMAIN memory[r].x, v)]]
    BY DEF Streamed
  <2>2. Fill(DOMAIN memory[r].x, v) = X
    BY <1>2, <1>4, <1>5
  <2>3. QED
    BY <1>2, <1>8, <2>1, <2>2
<1>10. mem \in [Rank -> MemorySet] /\ mem[r] = m2 /\ \A s \in Rank : s # r => mem[s] = memory[s]
  BY <1>1, <1>7, <1>9
<1>11. QED
  BY <1>2, <1>4, <1>6, <1>10

LEMMA ChooseKeeps ==
    ASSUME DenseInv, NEW r \in Rank, NEW c \in Cta, ChooseToken(r, c)
    PROVE  DenseInv'
<1>1. cta[r][c].at = "choose" /\ DenseType
  BY DEF ChooseToken, Standing, DenseInv
<1>2. PICK B, b, q, d, row, x :
         B \in Nat /\ Runs(B, r, c, b, q, d, row, x) /\ Stands(B, r, c, b, q, d, row, x)
  BY <1>1, RankParts DEF Idle, DenseInv
<1>3. /\ PlaceLaw(b, q, c, x) /\ HeadLaw(B, row, arrived[r]) /\ BarrierLaw(b, row)
      /\ MemoryLaw(b, q, row, memory[r]) /\ Apart(q, B, Places, packets, exchange)
      /\ TokenLaw(q, d, row, tokens[r])
      /\ row = Places[r] /\ x = cta[r][c] /\ x = row[c] /\ x \in PlaceSet /\ Located(x)
      /\ q \in Nat /\ q >= 1 /\ q <= Len(NewTokens)
      /\ x.at = "choose" /\ x.at \in Deciding /\ AllLocated(row)
  BY <1>1, <1>2 DEF Stands, Deciding
<1>4. /\ x.stage = HeadStage /\ x.step \in Nat /\ Operands(r, c).past = x.step
      /\ Parity(r, c) = (B + x.step) % 2 /\ Parity(r, c) \in 0 .. 1
      /\ Output(r, c) = Value(q, x.step, HeadStage)
      /\ x.at \in {"flag", "await", "choose"} => x.held = Value(q, x.step, HeadStage)
  BY <1>2, <1>3, DecidingFacts
<1>5. PICK p \in Nat, k \in Nat : p = x.step /\ k = p + 1
  BY <1>4
<1>6. /\ b = build /\ q = host.request /\ d >= 1 /\ d \in Nat /\ x.step < TotalSteps(q)
      /\ Kernel(r).request = q /\ \A s \in Rank : AllLocated(Places[s]) /\ BarrierLaw(b, Places[s])
  BY <1>2 DEF Runs, Command
<1>7. k \in Position
  <2>1. /\ TotalSteps(q) = PromptLen + NewTokens[q] - 1 /\ NewTokens[q] \in Nat
        /\ 0 .. (PromptLen + NewTokens[q]) \in SUBSET Position
    BY <1>3, RequestFacts
  <2>2. PromptLen \in Nat
    BY DenseConstants
  <2>3. k \in 0 .. (PromptLen + NewTokens[q])
    BY <1>5, <1>6, <2>1, <2>2
  <2>4. QED
    BY <2>1, <2>3
<1>8. \A s \in Peers(r) : exchange[r].data[Parity(r, c)][s] = Value(q, p, HeadStage)
  <2>1. SUFFICES ASSUME NEW s \in Rank, s # r
                 PROVE  exchange[r].data[Parity(r, c)][s] = Value(q, p, HeadStage)
    BY DEF Peers
  <2>2. PICK P, n, pk, ex, y : P = Places /\ n = arrived[r] /\ pk = packets /\ ex = exchange
                               /\ y = Parity(r, c)
    OBVIOUS
  <2>3. /\ Apart(q, B, P, pk, ex) /\ HeadLaw(B, P[r], n)
        /\ P[r][c].at = "choose" /\ P[r][c].stage = HeadStage /\ p = P[r][c].step
        /\ AllMet(b, P) /\ y = ParityOf(B, p)
    BY <1>3, <1>4, <1>5, <1>6, <2>2 DEF AllMet, ParityOf
  <2>4. ex[r].data[y][s] = Value(q, p, HeadStage)
    <3>1. CandidateAt(q, B, P, ex, r, c, s)
      BY <1>2, <2>1, <2>3, CandidateRead
    <3>2. QED
      BY <2>3, <3>1 DEF CandidateAt
  <2>5. QED
    BY <2>2, <2>4
<1>9. PICK v : v = Value(q, k, HeadStage)
  OBVIOUS
<1>10. /\ tokens' = IF k >= PromptLen THEN [tokens EXCEPT ![r][k] = v] ELSE tokens
       /\ memory' = IF b.embed THEN Streamed(r, Embedded(r, tokens'[r], k)) ELSE memory
  <2>1. PICK out : out = Output(r, c)
    OBVIOUS
  <2>2. cta[r][c].held = out /\ \A s \in Peers(r) : exchange[r].data[Parity(r, c)][s] = out
    BY <1>3, <1>4, <1>5, <1>8, <2>1
  <2>3. Operands(r, c).past + 1 = k /\ out.request = q
    BY <1>4, <1>5, <2>1 DEF Value
  <2>4. tokens' = IF LeavesPrompt(k) THEN [tokens EXCEPT ![r][k] = Value(q, k, HeadStage)]
                  ELSE tokens
    BY <2>1, <2>2, <2>3 DEF ChooseToken
  <2>5. memory' = IF build.embed THEN Streamed(r, Embedded(r, tokens'[r], k)) ELSE memory
    <3>1. memory' = IF build.embed
                    THEN Streamed(r, Embedded(r, tokens'[r], Operands(r, c).past + 1))
                    ELSE memory
      BY DEF ChooseToken, Streamed
    <3>2. QED
      BY <2>3, <3>1
  <2>6. QED
    BY <1>6, <1>9, <2>4, <2>5 DEF LeavesPrompt
<1>11. PICK z : z = Place("join", x.step, x.stage, x.task, Nothing)
  OBVIOUS
<1>12. z \in PlaceSet
  <2>1. Nothing \in Sound
    BY <1>3, SoundValue DEF Sound, Val, Nothing, Value
  <2>2. QED
    BY <1>3, <1>11, <2>1, PlaceIntro DEF Where, Place, Located
<1>13. z.at = "join" /\ z.step = x.step /\ z.stage = x.stage /\ z.task = x.task /\ z.held = Nothing
  BY <1>11 DEF Place
<1>14. UNCHANGED <<build, host, iteration, stream, bank, events, groups, arrived, packets,
                   exchange>>
  BY DEF ChooseToken, hostVars, counterVars, linkVars
<1>15. cta' = SetTo(cta, r, c, z)
  <2>1. PICK C : C = cta /\ Placing(C) /\ x = C[r][c]
    BY <1>1, <1>3 DEF DenseType, Placing
  <2>2. cta' = SetHeld(SetAt(C, r, c, "join"), r, c, Nothing)
    BY <2>1 DEF SetHeld, SetAt, ChooseToken
  <2>3. QED
    BY <1>11, <2>1, <2>2, AtHeldSet
<1>16. GoesTo(r, c, z) /\ \E row2 : Stepped(r, c, row, row2, x, z)
  BY <1>2, <1>12, <1>13, <1>14, <1>15, StepTo DEF Idle
<1>17. PICK row2 : Stepped(r, c, row, row2, x, z)
  BY <1>16
<1>18. /\ row2 = Places'[r] /\ Moves(row, row2, c) /\ row2[c] = z
       /\ AllLocated(row2) /\ Done' = Done
       /\ \A s \in Rank : s # r => Places'[s] = Places[s]
  BY <1>17 DEF Stepped
<1>19. PICK n \in Nat : n = arrived[r]
  BY <1>1 DEF DenseType
<1>20. /\ Decides(row, row2, c) /\ row[c].at = "choose" /\ row2[c].at = "join"
       /\ p = row[c].step /\ HeadLaw(B, row, n) /\ Staying(row[c], row2[c])
  BY <1>3, <1>4, <1>5, <1>13, <1>18, <1>19 DEF Decides, Staying
<1>21. \A i \in Nat : Chosen(row2, i) <=> Chosen(row, i) \/ i = p
  BY <1>2, <1>3, <1>18, <1>20, DecideSteps
<1>22. HeadLaw(B, row2, n)
  <2>1. /\ row[c].at \in Deciding /\ row[c].stage = HeadStage
        /\ row2[c].step = row[c].step /\ row2[c].stage = HeadStage
        /\ row2[c].at \in Deciding \cup {"join"}
    BY <1>20 DEF Decides
  <2>2. QED
    BY <1>2, <1>3, <1>18, <1>20, <2>1, HeadDecide
<1>23. PICK tok, tok2 : tok = tokens[r] /\ tok2 = tokens'[r] /\ tok \in [Position -> Val]
  BY <1>1 DEF DenseType
<1>24. tok2 = IF k >= PromptLen THEN [tok EXCEPT ![k] = v] ELSE tok
  <2>1. tokens \in [Rank -> [Position -> Val]]
    BY <1>1 DEF DenseType
  <2>2. QED
    BY <1>10, <1>23, <2>1
<1>25. TokenLaw(q, d, row2, tok2) /\ tok2[k] = Token(q, k)
  <2>1. ChosenAlso(row, row2, p)
    BY <1>21 DEF ChosenAlso
  <2>2. TokenLaw(q, d, row, tok) /\ k \in Position /\ k = p + 1 /\ Tokens(tok)
    BY <1>3, <1>5, <1>7, <1>23 DEF Tokens
  <2>3. TokenLaw(q, d, row, tok)
    BY <2>2
  <2>4. Tokens(tok)
    BY <2>2
  <2>5. ChoosesNext(q, p, k, v)
    BY <1>9, <2>2 DEF ChoosesNext
  <2>6. tok2 = PutToken(tok, k, v)
    BY <1>24 DEF PutToken
  <2>7. TokenLaw(q, d, row2, tok2) /\ (d >= 1 => tok2[k] = Token(q, k))
    BY <2>1, <2>3, <2>4, <2>5, <2>6, TokenChosen
  <2>8. QED
    BY <1>5, <1>6, <2>7
<1>26. v \in Val /\ HeadStage \in Nat
  BY <1>3, <1>5, <1>9, SoundValue, DenseConstants
<1>27. tokens' \in [Rank -> [Position -> Val]] /\ \A s \in Rank : s # r => tokens'[s] = tokens[s]
  <2>1. tokens \in [Rank -> [Position -> Val]]
    BY <1>1 DEF DenseType
  <2>2. PICK t2 : t2 = [tok EXCEPT ![k] = v]
    OBVIOUS
  <2>3. t2 \in [Position -> Val]
    BY <1>7, <1>23, <1>26, <2>2
  <2>4. [tokens EXCEPT ![r][k] = v] = [tokens EXCEPT ![r] = t2]
    BY <1>23, <2>2
  <2>5. QED
    BY <1>10, <2>1, <2>3, <2>4
<1>28. PartialLaw(q, row2, memory[r].partial)
  BY <1>3, <1>20, PartialDecide DEF MemoryLaw
<1>29. Kind(row[c].stage) \notin {"qkv", "attention", "gate_up"}
  BY <1>3, <1>4, EdgeKinds
<1>30. /\ MemoryLaw(b, q, row2, memory'[r]) /\ memory' \in [Rank -> MemorySet]
       /\ \A s \in Rank : s # r => memory'[s] = memory[s]
  <2>1. CASE b.embed
    <3>1. PICK u : u = Value(q, k, 0)
      OBVIOUS
    <3>2. Embedded(r, tokens'[r], k) = u
      BY <1>6, <1>23, <1>25, <3>1 DEF Embedded
    <3>3. PICK mem : mem = memory' /\ mem = Streamed(r, u)
      BY <1>10, <2>1, <3>2
    <3>4. u \in Sound
      BY <1>3, <1>5, <3>1, SoundValue
    <3>5. /\ memory' \in [Rank -> MemorySet]
          /\ \A s \in Rank : s # r => memory'[s] = memory[s]
          /\ memory'[r].x = Fill(0 .. (XTiles - 1), u)
          /\ memory'[r].qkv = memory[r].qkv /\ memory'[r].context = memory[r].context
          /\ memory'[r].act = memory[r].act /\ memory'[r].partial = memory[r].partial
      BY <1>1, <3>3, <3>4, StreamSet
    <3>6. PICK X : X = memory'[r].x
      OBVIOUS
    <3>7. ResidualLaw(b, q, row2, X)
      <4>1. X = Fill(0 .. (XTiles - 1), Value(q, row[c].step + 1, 0))
        BY <1>5, <1>20, <3>1, <3>5, <3>6
      <4>2. Chosen(row2, row[c].step)
        BY <1>5, <1>20, <1>21
      <4>3. row[c].at \in Deciding /\ row[c].stage = HeadStage
        BY <1>3, <1>4
      <4>4. QED
        BY <1>3, <1>18, <1>20, <2>1, <4>1, <4>2, <4>3, ResidualChoose
    <3>8. PICK m, m2 : m = memory[r] /\ m2 = memory'[r]
      OBVIOUS
    <3>9. MemoryLaw(b, q, row2, m2)
      <4>1. /\ m2.qkv = m.qkv /\ m2.context = m.context /\ m2.act = m.act
            /\ ResidualLaw(b, q, row2, m2.x) /\ PartialLaw(q, row2, m2.partial)
            /\ MemoryLaw(b, q, row, m)
        BY <1>3, <1>28, <3>5, <3>6, <3>7, <3>8
      <4>2. QED
        BY <1>3, <1>18, <1>20, <1>29, <4>1, MemoryStream
    <3>10. QED
      BY <3>5, <3>8, <3>9
  <2>2. CASE ~b.embed
    <3>1. memory' = memory /\ memory \in [Rank -> MemorySet]
      BY <1>1, <1>10, <2>2 DEF DenseType
    <3>2. PICK m : m = memory[r]
      OBVIOUS
    <3>3. \A e \in Cta : Staying(row[e], row2[e])
      BY <1>18, <1>20 DEF Moves, Staying
    <3>4. SameEmbeds(b, row, row2)
      <4>1. 0 \in Cta
        BY DenseConstants
      <4>2. Ran(row2[0], 0, 0) = Ran(row[0], 0, 0)
        BY <3>3, <4>1 DEF Staying, Ran
      <4>3. QED
        BY <2>2, <4>2 DEF SameEmbeds, Embeds
    <3>5. MemoryLaw(b, q, row, m) /\ PartialLaw(q, row2, m.partial)
      BY <1>3, <1>28, <3>2
    <3>6. ResidualLaw(b, q, row, m.x)
      BY <3>5 DEF MemoryLaw
    <3>7. ResidualLaw(b, q, row2, m.x)
      BY <1>3, <1>18, <3>3, <3>4, <3>6, ResidualKept
    <3>8. MemoryLaw(b, q, row2, m)
      BY <1>3, <1>18, <1>20, <1>29, <3>5, <3>7, MemoryStream
    <3>9. QED
      BY <3>1, <3>2, <3>8
  <2>3. QED
    BY <2>1, <2>2
<1>31. SameSent(row, row2)
  <2>1. SentStep(c, x, z)
    BY <1>3, <1>13 DEF SentStep, Staying
  <2>2. QED
    BY <1>3, <1>18, <2>1, SentKept DEF AllLocated
<1>32. Apart(q, B, Places', packets, exchange)
  <2>1. PICK P, P2, pk, ex : P = Places /\ P2 = Places' /\ pk = packets /\ ex = exchange
    OBVIOUS
  <2>2. /\ \A s \in Rank : s # r => P2[s] = P[s]
        /\ P[r] = row /\ P2[r] = row2 /\ Apart(q, B, P, pk, ex)
        /\ AllLocated(P[r]) /\ AllLocated(P2[r]) /\ HeadLaw(B, P[r], n)
        /\ Decides(P[r], P2[r], c) /\ SameSent(P[r], P2[r])
        /\ P[r][c].at = "choose" /\ P2[r][c].at = "join"
    BY <1>3, <1>18, <1>20, <1>31, <2>1
  <2>3. Apart(q, B, P2, pk, ex)
    BY <1>2, <2>2, ApartChoose
  <2>4. QED
    BY <2>1, <2>3
<1>33. PlaceLaw(b, q, c, z) /\ z.at \notin Idle /\ x.at \notin Idle
  BY <1>3, <1>13, DecidingPlace
<1>34. Inner(x, z)
  BY <1>3, <1>13 DEF Inner
<1>35. DenseType'
  BY <1>1, <1>14, <1>16, <1>27, <1>30 DEF DenseType, GoesTo
<1>36. Others(r)
  BY <1>14, <1>27, <1>30 DEF Others
<1>37. /\ HeadLaw(B, row2, arrived'[r]) /\ TokenLaw(q, d, row2, tokens'[r])
       /\ Apart(q, B, Places', packets', exchange')
  BY <1>14, <1>19, <1>22, <1>23, <1>25, <1>32
<1>38. QED
  BY <1>2, <1>14, <1>18, <1>30, <1>33, <1>34, <1>35, <1>36, <1>37, InnerFinish

-----------------------------------------------------------------------------
(* The tasks of the layers, and the embedding. *)
\* A CTA outside the head is done with a task and goes to its next.
GoesOn(x, z) ==
    /\ x.at \in {"task", "reduce"} /\ z.at = "task" /\ Advancing(x, z)
    /\ z.held = Nothing /\ x.stage # HeadStage
    /\ Reduces(x.stage) <=> x.at = "reduce"

LEMMA AdvancePast ==
    ASSUME NEW r, NEW c \in Cta, NEW row, NEW row2, NEW x, NEW z,
           Stepped(r, c, row, row2, x, z), GoesOn(x, z)
    PROVE  SamePast(row, row2) /\ \A B, n : HeadLaw(B, row, n) => HeadLaw(B, row2, n)
<1>1. Moves(row, row2, c) /\ row2[c] = z /\ row[c] = x
  BY DEF Stepped
<1>2. SameHeadAt(x, z)
  BY DEF SameHeadAt, Scored, Deciding, GoesOn, Advancing
<1>3. QED
  BY <1>1, <1>2, HeadsSame

LEMMA AdvanceFinish ==
    ASSUME DenseInv, NEW B \in Nat, NEW r \in Rank, NEW c \in Cta, NEW b, NEW q, NEW d, NEW row,
           NEW x, Runs(B, r, c, b, q, d, row, x), Stands(B, r, c, b, q, d, row, x),
           NEW z, NEW row2, Stepped(r, c, row, row2, x, z), GoesTo(r, c, z), GoesOn(x, z),
           UNCHANGED <<build, host, iteration, stream, bank, tokens, events, groups,
                       arrived, packets, exchange>>,
           memory' \in [Rank -> MemorySet], \A s \in Rank : s # r => memory'[s] = memory[s],
           MemoryLaw(b, q, row2, memory'[r])
    PROVE  DenseInv'
<1>1. /\ PlaceLaw(b, q, c, x) /\ HeadLaw(B, row, arrived[r])
      /\ TokenLaw(q, d, row, tokens[r]) /\ Apart(q, B, Places, packets, exchange)
      /\ row = Places[r] /\ x = row[c] /\ Located(x)
  BY DEF Stands
<1>2. /\ row2 = Places'[r] /\ Moves(row, row2, c) /\ row2[c] = z
      /\ AllLocated(row2) /\ AllLocated(row) /\ Located(z)
      /\ Done' = Done /\ \A s \in Rank : s # r => Places'[s] = Places[s]
  BY DEF Stepped
<1>3. /\ x.at \in {"task", "reduce"} /\ z.at = "task" /\ z.step = x.step /\ z.stage = x.stage
      /\ z.task = x.task + Grid /\ z.held = Nothing /\ x.stage # HeadStage /\ Advancing(x, z)
      /\ Reduces(x.stage) <=> x.at = "reduce"
  BY DEF GoesOn, Advancing
<1>4. Inner(x, z) /\ x.at \notin Idle /\ z.at \notin Idle
  BY <1>3 DEF Inner, Idle
<1>5. PlaceLaw(b, q, c, z)
  <2>1. x.task % Grid = c /\ x.task >= c /\ x.task \in Nat
    BY <1>1, <1>4 DEF PlaceLaw, Located
  <2>2. (x.task + Grid) % Grid = c /\ x.task + Grid >= c
    BY <2>1, NextOwn
  <2>3. QED
    BY <1>3, <2>2, TaskPlace
<1>6. SamePast(row, row2) /\ HeadLaw(B, row2, arrived[r])
  BY <1>1, AdvancePast
<1>7. TokenLaw(q, d, row2, tokens[r])
  BY <1>1, <1>6, SameTokens
<1>8. SameSent(row, row2)
  <2>1. SentStep(c, x, z)
    BY <1>3 DEF SentStep
  <2>2. QED
    BY <1>1, <1>2, <2>1, SentKept
<1>9. Apart(q, B, Places', packets, exchange)
  BY <1>1, <1>2, <1>6, <1>8, ApartQuiet
<1>10. DenseType'
  BY DEF DenseInv, DenseType, GoesTo
<1>11. Others(r)
  BY DEF Others
<1>12. HeadLaw(B, row2, arrived'[r]) /\ TokenLaw(q, d, row2, tokens'[r])
       /\ Apart(q, B, Places', packets', exchange')
  BY <1>6, <1>7, <1>9
<1>13. QED
  BY <1>2, <1>4, <1>5, <1>10, <1>11, <1>12, InnerFinish

\* The token of a step that a rank has begun stands in its buffer.
LEMMA TokenStands ==
    ASSUME NEW B \in Nat, NEW r \in Rank, NEW c \in Cta, NEW b, NEW q, NEW d, NEW row, NEW x,
           Runs(B, r, c, b, q, d, row, x), Stands(B, r, c, b, q, d, row, x)
    PROVE  tokens[r][x.step] = Token(q, x.step)
<1>1. PICK p \in Nat : p = x.step
  BY DEF Stands, Located
<1>2. /\ d >= 1 /\ p < TotalSteps(q) /\ AllLocated(row) /\ BarrierLaw(b, row)
      /\ TokenLaw(q, d, row, tokens[r]) /\ row[c].step = p
      /\ q \in Nat /\ q >= 1 /\ q <= Len(NewTokens)
  BY <1>1 DEF Runs, Stands
<1>3. PromptLen \in Nat /\ PromptLen >= 1
  BY DenseConstants
<1>4. CASE p < PromptLen
  <2>1. p \in 0 .. (PromptLen - 1)
    BY <1>3, <1>4
  <2>2. QED
    BY <1>1, <1>2, <2>1 DEF TokenLaw
<1>5. CASE p >= PromptLen
  <2>1. /\ TotalSteps(q) = PromptLen + NewTokens[q] - 1 /\ NewTokens[q] \in Nat
        /\ 0 .. (PromptLen + NewTokens[q]) \in SUBSET Position
    BY <1>2, RequestFacts
  <2>2. p \in 0 .. (PromptLen + NewTokens[q])
    BY <1>2, <1>3, <2>1
  <2>3. PICK n \in Nat : n = p - 1
    BY <1>3, <1>5
  <2>4. row[c].step > n
    BY <1>2, <2>3
  <2>5. Chosen(row, n)
    BY <1>2, <2>4, ChosenBefore
  <2>6. QED
    BY <1>1, <1>2, <1>5, <2>1, <2>2, <2>3, <2>5 DEF TokenLaw
<1>6. QED
  BY <1>3, <1>4, <1>5

LEMMA EmbedKeeps ==
    ASSUME DenseInv, NEW r \in Rank, NEW c \in Cta, Embed(r, c)
    PROVE  DenseInv'
<1>1. /\ cta[r][c].at = "task" /\ cta[r][c].task < Tasks(cta[r][c].stage)
      /\ Kind(cta[r][c].stage) = "embed" /\ DenseType
      /\ ~(build.embed /\ cta[r][c].stage = 0 /\ cta[r][c].step # 0)
  BY DEF Embed, TaskLeft, Standing, AtKind, SkipsPrologue, DenseInv
<1>2. PICK B, b, q, d, row, x :
         B \in Nat /\ Runs(B, r, c, b, q, d, row, x) /\ Stands(B, r, c, b, q, d, row, x)
  BY <1>1, RankParts DEF Idle, DenseInv
<1>3. /\ PlaceLaw(b, q, c, x) /\ MemoryLaw(b, q, row, memory[r]) /\ BarrierLaw(b, row)
      /\ x = cta[r][c] /\ x = row[c] /\ x \in PlaceSet /\ Located(x)
      /\ q \in Nat /\ q >= 1 /\ b = build
  BY <1>2 DEF Stands, Runs
<1>4. /\ x.stage = 0 /\ x.at = "task" /\ x.task = 0 /\ c = 0 /\ x.held = Nothing
      /\ HeadStage \in Nat /\ HeadStage >= 11 /\ Grid \in Nat /\ Grid >= 1
      /\ x.stage \in DenseStage /\ x.step \in Nat /\ Kind(x.stage) = "embed"
  <2>1. x.stage \in DenseStage /\ x.task \in Nat /\ x.step \in Nat
    BY <1>3 DEF Located
  <2>2. x.stage = 0 /\ Tasks(x.stage) = 1
    BY <1>1, <1>3, <2>1, KindFacts, TaskFacts
  <2>3. x.task = 0
    BY <1>1, <1>3, <2>1, <2>2
  <2>4. x.task % Grid = c /\ x.held = Nothing
    BY <1>1, <1>3, <2>2, DenseConstants DEF PlaceLaw, Idle
  <2>5. QED
    BY <1>1, <1>3, <2>1, <2>2, <2>3, <2>4, DenseConstants
<1>5. b.embed => x.step = 0
  BY <1>1, <1>3, <1>4
<1>6. PICK v : v = Value(q, x.step, 0)
  OBVIOUS
<1>7. v \in Sound
  BY <1>3, <1>4, <1>6, SoundValue
<1>8. Embedded(r, tokens[r], x.step) = v
  <2>1. tokens[r][x.step] = Token(q, x.step)
    BY <1>2, TokenStands
  <2>2. Kernel(r).request = q
    BY <1>2 DEF Runs, Command
  <2>3. QED
    BY <1>6, <2>1, <2>2 DEF Embedded
<1>9. PICK mem : mem = memory' /\ mem = Streamed(r, v)
  <2>1. memory' = Streamed(r, Embedded(r, tokens[r], cta[r][c].step))
    BY DEF Embed, Streamed
  <2>2. QED
    BY <1>3, <1>8, <2>1
<1>10. PICK u \in Nat : u = x.task + Grid
  BY <1>4
<1>11. PICK z : z = Place("task", x.step, x.stage, u, Nothing)
  OBVIOUS
<1>12. z \in PlaceSet
  <2>1. Nothing \in Sound
    BY <1>3, <1>4, SoundValue
  <2>2. QED
    BY <1>4, <1>10, <1>11, <2>1, PlaceIntro DEF Where, Place
<1>13. cta' = SetTo(cta, r, c, z)
  <2>1. PICK C : C = cta /\ Placing(C) /\ x = C[r][c]
    BY <1>1, <1>3 DEF DenseType, Placing
  <2>2. cta' = SetTask(C, r, c, u)
    BY <1>3, <1>10, <2>1 DEF SetTask, Embed, NextTask
  <2>3. QED
    BY <1>4, <1>11, <2>1, <2>2, TaskSet
<1>14. UNCHANGED <<build, host, iteration, stream, bank, tokens, events, groups, arrived,
                   packets, exchange>>
  BY DEF Embed, hostVars, counterVars, linkVars
<1>15. z.at = "task" /\ z.step = x.step /\ z.stage = x.stage /\ z.task = u /\ z.held = Nothing
  BY <1>11 DEF Place
<1>16. GoesTo(r, c, z) /\ \E row2 : Stepped(r, c, row, row2, x, z)
  BY <1>2, <1>12, <1>13, <1>14, <1>15, StepTo DEF Idle
<1>17. PICK row2 : Stepped(r, c, row, row2, x, z)
  BY <1>16
<1>18. GoesOn(x, z) /\ Advancing(x, z)
  BY <1>4, <1>10, <1>15 DEF GoesOn, Advancing, Reduces
<1>19. Moves(row, row2, c) /\ row2[c] = z /\ AllLocated(row2) /\ AllLocated(row)
  BY <1>17 DEF Stepped
<1>20. /\ mem \in [Rank -> MemorySet] /\ \A s \in Rank : s # r => mem[s] = memory[s]
       /\ mem[r].x = Fill(0 .. (XTiles - 1), v)
       /\ mem[r].qkv = memory[r].qkv /\ mem[r].context = memory[r].context
       /\ mem[r].act = memory[r].act /\ mem[r].partial = memory[r].partial
  BY <1>1, <1>7, <1>9, StreamSet
<1>21. PICK m, m2 : m = memory[r] /\ m2 = mem[r]
  OBVIOUS
<1>22. ResidualLaw(b, q, row2, m2.x)
  <2>1. PICK X : X = m2.x /\ X = Embedding(q, row[0].step)
    BY <1>3, <1>4, <1>6, <1>20, <1>21 DEF Embedding
  <2>2. /\ Moves(row, row2, 0) /\ Advancing(row[0], row2[0]) /\ row[0].stage = 0
        /\ row[0].task = 0 /\ row[0].at = "task" /\ (b.embed => row[0].step = 0)
    BY <1>3, <1>4, <1>5, <1>18, <1>19
  <2>3. ResidualLaw(b, q, row2, X)
    BY <1>3, <1>19, <2>1, <2>2, ResidualEmbed
  <2>4. QED
    BY <2>1, <2>3
<1>23. PartialLaw(q, row2, m2.partial)
  <2>1. PICK pt : pt = m.partial /\ pt = m2.partial /\ PartialLaw(q, row, pt)
    BY <1>3, <1>20, <1>21 DEF MemoryLaw
  <2>2. \A e \in Cta : row2[e].stage = HeadStage /\ Scored(row2[e]) = row2[e].step + 1 =>
            /\ row[e].stage = HeadStage /\ row2[e].step = row[e].step
            /\ Scored(row[e]) = row[e].step + 1
    BY <1>4, <1>15, <1>19 DEF Moves
  <2>3. PartialLaw(q, row2, pt)
    BY <2>1, <2>2, PartialKept
  <2>4. QED
    BY <2>1, <2>3
<1>24. MemoryLaw(b, q, row2, m2)
  <2>1. /\ m2.qkv = m.qkv /\ m2.context = m.context /\ m2.act = m.act /\ MemoryLaw(b, q, row, m)
        /\ Kind(row[c].stage) \notin {"qkv", "attention", "gate_up"}
        /\ Advancing(row[c], row2[c])
    BY <1>3, <1>4, <1>18, <1>19, <1>20, <1>21
  <2>2. QED
    BY <1>19, <1>22, <1>23, <2>1, MemoryStream
<1>25. MemoryLaw(b, q, row2, memory'[r])
  BY <1>9, <1>21, <1>24
<1>26. memory' \in [Rank -> MemorySet] /\ \A s \in Rank : s # r => memory'[s] = memory[s]
  BY <1>9, <1>20
<1>27. QED
  BY <1>2, <1>14, <1>16, <1>17, <1>18, <1>25, <1>26, AdvanceFinish

\* A task's output in the memory m.
Computed(m, kind, u, v) ==
    CASE kind = "qkv" -> [m EXCEPT !.qkv[u] = v]
      [] kind = "attention" -> [m EXCEPT !.context[u] = v]
      [] kind = "gate_up" -> [m EXCEPT !.act[u] = v]

LEMMA ComputedTyped ==
    ASSUME NEW m \in MemorySet, NEW v \in Sound, NEW u, NEW kind \in {"qkv", "attention", "gate_up"}
    PROVE  Computed(m, kind, u, v) \in MemorySet
<1>1. PICK A, K, C, S, L :
         /\ A = m.x /\ K = m.qkv /\ C = m.context /\ S = m.act /\ L = m.partial
         /\ A \in [0 .. (XTiles - 1) -> Sound] /\ K \in [0 .. (QkvTiles - 1) -> Sound]
         /\ C \in [0 .. (KvGroups - 1) -> Sound] /\ S \in [0 .. (ActTiles - 1) -> Sound]
         /\ L \in [Cta -> Sound]
         /\ m = [x |-> A, qkv |-> K, context |-> C, act |-> S, partial |-> L]
  BY MemoryParts
<1>2. CASE kind = "qkv"
  <2>1. PICK K2 : K2 = [K EXCEPT ![u] = v]
    OBVIOUS
  <2>2. K2 \in [0 .. (QkvTiles - 1) -> Sound]
    BY <1>1, <2>1
  <2>3. Computed(m, kind, u, v) = [x |-> A, qkv |-> K2, context |-> C, act |-> S, partial |-> L]
    BY <1>1, <1>2, <2>1 DEF Computed
  <2>4. QED
    BY <1>1, <2>2, <2>3 DEF MemorySet
<1>3. CASE kind = "attention"
  <2>1. PICK C2 : C2 = [C EXCEPT ![u] = v]
    OBVIOUS
  <2>2. C2 \in [0 .. (KvGroups - 1) -> Sound]
    BY <1>1, <2>1
  <2>3. Computed(m, kind, u, v) = [x |-> A, qkv |-> K, context |-> C2, act |-> S, partial |-> L]
    BY <1>1, <1>3, <2>1 DEF Computed
  <2>4. QED
    BY <1>1, <2>2, <2>3 DEF MemorySet
<1>4. CASE kind = "gate_up"
  <2>1. PICK S2 : S2 = [S EXCEPT ![u] = v]
    OBVIOUS
  <2>2. S2 \in [0 .. (ActTiles - 1) -> Sound]
    BY <1>1, <2>1
  <2>3. Computed(m, kind, u, v) = [x |-> A, qkv |-> K, context |-> C, act |-> S2, partial |-> L]
    BY <1>1, <1>4, <2>1 DEF Computed
  <2>4. QED
    BY <1>1, <2>2, <2>3 DEF MemorySet
<1>5. QED
  BY <1>2, <1>3, <1>4

LEMMA ComputeKeeps ==
    ASSUME DenseInv, NEW r \in Rank, NEW c \in Cta, Compute(r, c)
    PROVE  DenseInv'
<1>1. /\ cta[r][c].at = "task" /\ cta[r][c].task < Tasks(cta[r][c].stage)
      /\ Kind(cta[r][c].stage) \in {"qkv", "attention", "gate_up"} /\ DenseType
  BY DEF Compute, TaskLeft, Standing, AtKind, DenseInv
<1>2. PICK B, b, q, d, row, x :
         B \in Nat /\ Runs(B, r, c, b, q, d, row, x) /\ Stands(B, r, c, b, q, d, row, x)
  BY <1>1, RankParts DEF Idle, DenseInv
<1>3. /\ PlaceLaw(b, q, c, x) /\ MemoryLaw(b, q, row, memory[r])
      /\ x = cta[r][c] /\ x = row[c] /\ x \in PlaceSet /\ Located(x)
      /\ q \in Nat /\ q >= 1
  BY <1>2 DEF Stands
<1>4. PICK kind, u, v : kind = Kind(x.stage) /\ u = x.task /\ v = Value(q, x.step, x.stage)
  OBVIOUS
<1>5. /\ x.stage \in DenseStage /\ x.stage \in Nat /\ x.stage >= 1 /\ x.stage < HeadStage
      /\ HeadStage \in Nat /\ x.at = "task" /\ u < Tasks(x.stage) /\ u \in Nat /\ x.step \in Nat
      /\ kind \in {"qkv", "attention", "gate_up"} /\ ~Reduces(x.stage)
      /\ Grid \in Nat
  <2>1. x.stage \in DenseStage /\ x.task \in Nat /\ x.step \in Nat
    BY <1>3 DEF Located
  <2>2. ~Reduces(x.stage)
    BY <1>1, <1>3 DEF Reduces
  <2>3. QED
    BY <1>1, <1>3, <1>4, <2>1, <2>2, KindFacts, DenseConstants
<1>6. x.held = Nothing /\ u % Grid = c
  BY <1>3, <1>4, <1>5 DEF PlaceLaw, Idle
<1>7. Result(r, c) = v
  BY <1>1, <1>2, <1>3, <1>4, <1>5, ResultRead
<1>8. v \in Sound /\ Nothing \in Sound
  BY <1>3, <1>4, <1>5, SoundValue
<1>9. PICK m \in MemorySet : m = memory[r]
  BY <1>1 DEF DenseType
<1>10. PICK m2 : m2 = Computed(m, kind, u, v)
  OBVIOUS
<1>11. m2 \in MemorySet
  BY <1>5, <1>8, <1>10, ComputedTyped
<1>12. memory' = [memory EXCEPT ![r] = m2]
  <2>1. memory' = CASE kind = "qkv" -> [memory EXCEPT ![r].qkv[u] = v]
                    [] kind = "attention" -> [memory EXCEPT ![r].context[u] = v]
                    [] kind = "gate_up" -> [memory EXCEPT ![r].act[u] = v]
    BY <1>3, <1>4, <1>5, <1>7 DEF Compute, AtKind
  <2>2. CASE kind = "qkv"
    <3>1. memory' = [memory EXCEPT ![r] = [memory[r] EXCEPT !.qkv[u] = v]]
      BY <2>1, <2>2
    <3>2. m2 = [memory[r] EXCEPT !.qkv[u] = v]
      BY <1>9, <1>10, <2>2 DEF Computed
    <3>3. QED
      BY <3>1, <3>2
  <2>3. CASE kind = "attention"
    <3>1. memory' = [memory EXCEPT ![r] = [memory[r] EXCEPT !.context[u] = v]]
      BY <2>1, <2>3
    <3>2. m2 = [memory[r] EXCEPT !.context[u] = v]
      BY <1>9, <1>10, <2>3 DEF Computed
    <3>3. QED
      BY <3>1, <3>2
  <2>4. CASE kind = "gate_up"
    <3>1. memory' = [memory EXCEPT ![r] = [memory[r] EXCEPT !.act[u] = v]]
      BY <2>1, <2>4
    <3>2. m2 = [memory[r] EXCEPT !.act[u] = v]
      BY <1>9, <1>10, <2>4 DEF Computed
    <3>3. QED
      BY <3>1, <3>2
  <2>5. QED
    BY <1>5, <2>2, <2>3, <2>4
<1>13. PICK w \in Nat : w = u + Grid
  BY <1>5
<1>14. PICK z : z = Place("task", x.step, x.stage, w, Nothing)
  OBVIOUS
<1>15. z \in PlaceSet
  BY <1>5, <1>8, <1>14, PlaceIntro DEF Where, Place
<1>16. cta' = SetTo(cta, r, c, z)
  <2>1. PICK C : C = cta /\ Placing(C) /\ x = C[r][c]
    BY <1>1, <1>3 DEF DenseType, Placing
  <2>2. cta' = SetTask(C, r, c, w)
    BY <1>3, <1>4, <1>13, <2>1 DEF SetTask, Compute, NextTask
  <2>3. QED
    BY <1>5, <1>6, <1>14, <2>1, <2>2, TaskSet
<1>17. UNCHANGED <<build, host, iteration, stream, bank, tokens, events, groups, arrived,
                   packets, exchange>>
  BY DEF Compute, hostVars, counterVars, linkVars
<1>18. z.at = "task" /\ z.step = x.step /\ z.stage = x.stage /\ z.task = w /\ z.held = Nothing
  BY <1>14 DEF Place
<1>19. GoesTo(r, c, z) /\ \E row2 : Stepped(r, c, row, row2, x, z)
  BY <1>2, <1>15, <1>16, <1>17, <1>18, StepTo DEF Idle
<1>20. PICK row2 : Stepped(r, c, row, row2, x, z)
  BY <1>19
<1>21. GoesOn(x, z) /\ Advancing(x, z)
  BY <1>4, <1>5, <1>13, <1>18 DEF GoesOn, Advancing
<1>22. Moves(row, row2, c) /\ row2[c] = z /\ AllLocated(row2) /\ AllLocated(row)
  BY <1>20 DEF Stepped
<1>23. SamePast(row, row2)
  BY <1>20, <1>21, AdvancePast
<1>24. MemoryLaw(b, q, row2, m2)
  <2>1. /\ Advancing(row[c], row2[c]) /\ u = row[c].task /\ u < Tasks(row[c].stage)
        /\ v = Value(q, row[c].step, row[c].stage) /\ MemoryLaw(b, q, row, m)
        /\ Kind(row[c].stage) \in {"qkv", "attention", "gate_up"}
    BY <1>3, <1>4, <1>5, <1>9, <1>21, <1>22
  <2>2. m2 = CASE Kind(row[c].stage) = "qkv" -> [m EXCEPT !.qkv[u] = v]
               [] Kind(row[c].stage) = "attention" -> [m EXCEPT !.context[u] = v]
               [] Kind(row[c].stage) = "gate_up" -> [m EXCEPT !.act[u] = v]
    BY <1>3, <1>4, <1>10 DEF Computed
  <2>3. QED
    BY <1>6, <1>22, <1>23, <2>1, <2>2, MemoryCompute
<1>25. /\ memory' \in [Rank -> MemorySet] /\ memory'[r] = m2
       /\ \A s \in Rank : s # r => memory'[s] = memory[s]
  BY <1>1, <1>11, <1>12, MemoryGoes
<1>26. MemoryLaw(b, q, row2, memory'[r])
  BY <1>24, <1>25
<1>27. QED
  BY <1>2, <1>17, <1>19, <1>20, <1>21, <1>25, <1>26, AdvanceFinish

LEMMA ReduceKeeps ==
    ASSUME DenseInv, NEW r \in Rank, NEW c \in Cta, ReduceTile(r, c)
    PROVE  DenseInv'
<1>1. cta[r][c].at = "reduce" /\ DenseType
  BY DEF ReduceTile, Standing, DenseInv
<1>2. PICK B, b, q, d, row, x :
         B \in Nat /\ Runs(B, r, c, b, q, d, row, x) /\ Stands(B, r, c, b, q, d, row, x)
  BY <1>1, RankParts DEF Idle, DenseInv
<1>3. /\ PlaceLaw(b, q, c, x) /\ MemoryLaw(b, q, row, memory[r])
      /\ Apart(q, B, Places, packets, exchange) /\ row = Places[r]
      /\ x = cta[r][c] /\ x = row[c] /\ x \in PlaceSet /\ Located(x)
      /\ q \in Nat /\ q >= 1 /\ B \in Nat
      /\ \A s \in Rank : AllLocated(Places[s]) /\ BarrierLaw(b, Places[s])
  BY <1>2 DEF Stands, Runs
<1>4. PICK g, p, u, v : g = x.stage /\ p = x.step /\ u = x.task /\ v = Value(q, p, g)
  OBVIOUS
<1>5. /\ g \in DenseStage /\ g \in Nat /\ g >= 3 /\ g < HeadStage /\ HeadStage \in Nat
      /\ x.at = "reduce" /\ u < Tasks(g) /\ Tasks(g) = XTiles /\ u \in Nat /\ p \in Nat
      /\ Kind(g) \in {"o", "down"} /\ Reduces(g) /\ x.held = v /\ u % Grid = c
      /\ Grid \in Nat /\ XTiles \in Nat /\ u \in 0 .. (XTiles - 1)
  <2>1. g \in DenseStage /\ u \in Nat /\ p \in Nat
    BY <1>3, <1>4 DEF Located
  <2>2. Reduces(g) /\ u < Tasks(g) /\ x.held = v /\ u % Grid = c
    BY <1>1, <1>3, <1>4 DEF PlaceLaw, Idle
  <2>3. Kind(g) \in {"o", "down"}
    BY <2>2 DEF Reduces
  <2>4. XTiles \in Nat /\ u < XTiles /\ Tasks(g) = XTiles
    BY <2>1, <2>2, <2>3, TaskFacts, DenseConstants
  <2>5. u \in 0 .. (XTiles - 1)
    BY <2>1, <2>4
  <2>6. QED
    BY <1>1, <1>3, <2>1, <2>2, <2>3, <2>4, <2>5, KindFacts, DenseConstants
<1>6. v \in Sound /\ Nothing \in Sound
  BY <1>3, <1>4, <1>5, SoundValue
<1>7. /\ Operands(r, c) = Record(g, p, B + p + 1) /\ Output(r, c) = v
      /\ Now(r, c) = v
  <2>1. Operands(r, c) = Record(g, p, B + p + 1) /\ Output(r, c) = v
    BY <1>1, <1>2, <1>3, <1>4, <1>5, OperandsRead DEF Idle
  <2>2. QED
    BY <1>2, <1>4, <2>1 DEF Runs
\* The peers' packets of this epoch are of this step.
<1>8. \A s \in Peers(r) : packets[r][Region(g)][s][u].value = v
  <2>1. SUFFICES ASSUME NEW s \in Rank, s # r
                 PROVE  packets[r][Region(g)][s][u].value = v
    BY DEF Peers
  <2>2. PICK P, pk : P = Places /\ pk = packets
    OBVIOUS
  <2>3. /\ AllMet(b, P) /\ SkewLaw(P) /\ PacketLaw(q, B, P, pk) /\ g = P[r][c].stage
        /\ p = P[r][c].step
    BY <1>3, <1>4, <2>2 DEF AllMet, Apart
  <2>4. packets[r][Region(g)][s][u].epoch = (B + p + 1) % PacketEpochs
    <3>1. Operands(r, c).stage = g /\ Operands(r, c).epoch = B + p + 1
      BY <1>7 DEF Record
    <3>2. packets[r][Region(Operands(r, c).stage)][s][cta[r][c].task].epoch
             = Operands(r, c).epoch % PacketEpochs
      BY <2>1 DEF ReduceTile, Peers
    <3>3. QED
      BY <1>3, <1>4, <3>1, <3>2
  <2>5. Arrives(B, P, pk, r, s, c, g, u)
    BY <2>2, <2>3, <2>4 DEF Arrives
  <2>6. Carries(q, P, pk, r, s, c, g, u)
    BY <1>3, <1>5, <2>1, <2>3, <2>5, PacketRead
  <2>7. QED
    BY <1>4, <2>2, <2>3, <2>6 DEF Carries
<1>9. PICK m \in MemorySet : m = memory[r]
  BY <1>1 DEF DenseType
<1>a. PICK A, K, C, S, L :
         A = m.x /\ K = m.qkv /\ C = m.context /\ S = m.act /\ L = m.partial
  OBVIOUS
<1>10. /\ A = m.x /\ K = m.qkv /\ C = m.context /\ S = m.act /\ L = m.partial
       /\ A \in [0 .. (XTiles - 1) -> Sound] /\ K \in [0 .. (QkvTiles - 1) -> Sound]
       /\ C \in [0 .. (KvGroups - 1) -> Sound] /\ S \in [0 .. (ActTiles - 1) -> Sound]
       /\ L \in [Cta -> Sound]
       /\ m = [x |-> A, qkv |-> K, context |-> C, act |-> S, partial |-> L]
  BY <1>a, <1>9, MemoryParts
\* The residual is the sum before this one.
<1>11. PICK down : down = IF AtKind(r, c, {"o"}) THEN 3 ELSE 2
  OBVIOUS
<1>12. A[u] = Value(q, p, g - down) /\ [Now(r, c) EXCEPT !.stage = @ - down] = Value(q, p, g - down)
  <2>1. ResidualLaw(b, q, row, A)
    BY <1>3, <1>9, <1>10 DEF MemoryLaw
  <2>2. A[u] = Value(q, x.step, StreamStage(x, u))
    BY <1>3, <1>4, <1>5, <2>1 DEF ResidualLaw
  <2>3. StreamStage(x, u) = g - down
    <3>1. Kind(g) = "o" => StreamStage(x, u) = g - 3
      BY <1>4, <1>5 DEF StreamStage
    <3>2. Kind(g) = "down" => StreamStage(x, u) = g - 2
      BY <1>4, <1>5 DEF StreamStage
    <3>3. down = IF Kind(g) = "o" THEN 3 ELSE 2
      BY <1>3, <1>4, <1>11 DEF AtKind
    <3>4. QED
      BY <1>5, <3>1, <3>2, <3>3
  <2>4. [Now(r, c) EXCEPT !.stage = @ - down] = Value(q, p, g - down)
    BY <1>4, <1>7 DEF Value
  <2>5. QED
    BY <1>4, <2>2, <2>3, <2>4
<1>13. PICK A2 : A2 = [A EXCEPT ![u] = v]
  OBVIOUS
<1>14. PICK m2 : m2 = [x |-> A2, qkv |-> K, context |-> C, act |-> S, partial |-> L]
  OBVIOUS
<1>15. m2 \in MemorySet
  <2>1. A2 \in [0 .. (XTiles - 1) -> Sound]
    BY <1>6, <1>10, <1>13
  <2>2. QED
    BY <1>10, <1>14, <2>1 DEF MemorySet
<1>16. memory' = [memory EXCEPT ![r] = m2]
  <2>1. PICK h, n : h = Operands(r, c) /\ n = [Now(r, c) EXCEPT !.stage = @ - down]
    OBVIOUS
  <2>2. h.stage = g /\ n = A[u] /\ cta[r][c].held = v /\ cta[r][c].task = u /\ memory[r].x[u] = A[u]
    <3>1. h.stage = g
      BY <1>7, <2>1 DEF Record
    <3>2. cta[r][c].held = v /\ cta[r][c].task = u
      BY <1>3, <1>4, <1>5
    <3>3. memory[r].x[u] = A[u] /\ n = A[u]
      BY <1>9, <1>10, <1>12, <2>1
    <3>4. QED
      BY <3>1, <3>2, <3>3
  <2>3. memory' = [memory EXCEPT ![r].x[u] =
                      IF /\ @ = n /\ cta[r][c].held = v
                         /\ \A s \in Peers(r) : packets[r][Region(g)][s][u].value = v
                      THEN v ELSE Garbled]
    BY <1>7, <1>11, <2>1, <2>2 DEF ReduceTile
  <2>4. memory' = [memory EXCEPT ![r].x[u] =
                      IF @ = n THEN v ELSE Garbled]
    BY <1>8, <2>2, <2>3
  <2>5. memory' = [memory EXCEPT ![r].x[u] = v]
    BY <2>2, <2>4
  <2>6. memory' = [memory EXCEPT ![r] = [memory[r] EXCEPT !.x = [memory[r].x EXCEPT ![u] = v]]]
    BY <2>5
  <2>7. [m EXCEPT !.x = A2] = m2
    BY <1>10, <1>14
  <2>8. QED
    BY <1>9, <1>10, <1>13, <2>6, <2>7
<1>17. PICK w \in Nat : w = u + Grid
  BY <1>5
<1>18. PICK z : z = Place("task", x.step, x.stage, w, Nothing)
  OBVIOUS
<1>19. z \in PlaceSet
  BY <1>4, <1>5, <1>6, <1>18, PlaceIntro DEF Where, Place
<1>20. cta' = SetTo(cta, r, c, z)
  <2>1. PICK D : D = cta /\ Placing(D) /\ x = D[r][c]
    BY <1>1, <1>3 DEF DenseType, Placing
  <2>2. cta' = SetHeld(SetTask(SetAt(D, r, c, "task"), r, c, w), r, c, Nothing)
    <3>1. PICK D1 : D1 = SetAt(D, r, c, "task")
      OBVIOUS
    <3>2. D1 = SetTo(D, r, c, Place("task", x.step, x.stage, x.task, x.held))
      BY <2>1, <3>1, AtSet
    <3>3. At(D1, r, c) = Place("task", x.step, x.stage, x.task, x.held)
      BY <2>1, <3>2, PlaceAgain
    <3>4. D1[r][c].task = u
      BY <1>4, <3>3 DEF At, Place
    <3>5. cta' = [[D1 EXCEPT ![r][c].task = @ + Grid] EXCEPT ![r][c].held = Nothing]
      <4>1. cta' = [cta EXCEPT ![r][c].at = "task", ![r][c].task = @ + Grid,
                               ![r][c].held = Nothing]
        BY DEF ReduceTile
      <4>2. D1 = [cta EXCEPT ![r][c].at = "task"]
        BY <2>1, <3>1 DEF SetAt
      <4>3. QED
        BY <4>1, <4>2
    <3>6. PICK D2 : D2 = [D1 EXCEPT ![r][c].task = w]
      OBVIOUS
    <3>7. D2 = [D1 EXCEPT ![r][c].task = @ + Grid]
      BY <1>17, <3>4, <3>6
    <3>8. cta' = [D2 EXCEPT ![r][c].held = Nothing]
      BY <3>5, <3>7
    <3>9. QED
      BY <3>1, <3>6, <3>8 DEF SetHeld, SetTask
  <2>3. QED
    BY <1>18, <2>1, <2>2, AtTaskHeldSet
<1>21. UNCHANGED <<build, host, iteration, stream, bank, tokens, events, groups, arrived,
                   packets, exchange>>
  BY DEF ReduceTile, hostVars, counterVars, linkVars
<1>22. z.at = "task" /\ z.step = x.step /\ z.stage = x.stage /\ z.task = w /\ z.held = Nothing
  BY <1>18 DEF Place
<1>23. GoesTo(r, c, z) /\ \E row2 : Stepped(r, c, row, row2, x, z)
  BY <1>2, <1>19, <1>20, <1>21, <1>22, StepTo DEF Idle
<1>24. PICK row2 : Stepped(r, c, row, row2, x, z)
  BY <1>23
<1>25. GoesOn(x, z) /\ Advancing(x, z)
  BY <1>4, <1>5, <1>17, <1>22 DEF GoesOn, Advancing
<1>26. Moves(row, row2, c) /\ row2[c] = z /\ AllLocated(row2) /\ AllLocated(row)
  BY <1>24 DEF Stepped
<1>27. SamePast(row, row2)
  BY <1>24, <1>25, AdvancePast
<1>28. ResidualLaw(b, q, row2, A2)
  <2>1. /\ Advancing(row[c], row2[c]) /\ u = row[c].task /\ Kind(row[c].stage) \in {"o", "down"}
        /\ ResidualLaw(b, q, row, A)
    BY <1>3, <1>4, <1>5, <1>9, <1>10, <1>25, <1>26 DEF MemoryLaw
  <2>2. A2 = [A EXCEPT ![u] = Value(q, row[c].step, row[c].stage)]
    BY <1>3, <1>4, <1>13
  <2>3. QED
    BY <1>5, <1>10, <1>26, <1>27, <2>1, <2>2, ResidualReduce
<1>29. PartialLaw(q, row2, L)
  <2>1. PartialLaw(q, row, L)
    BY <1>3, <1>9, <1>10 DEF MemoryLaw
  <2>2. \A e \in Cta : row2[e].stage = HeadStage /\ Scored(row2[e]) = row2[e].step + 1 =>
            /\ row[e].stage = HeadStage /\ row2[e].step = row[e].step
            /\ Scored(row[e]) = row[e].step + 1
    BY <1>4, <1>5, <1>22, <1>26 DEF Moves
  <2>3. QED
    BY <2>1, <2>2, PartialKept
<1>30. MemoryLaw(b, q, row2, m2)
  <2>1. /\ m2.qkv = m.qkv /\ m2.context = m.context /\ m2.act = m.act /\ MemoryLaw(b, q, row, m)
        /\ m2.x = A2 /\ m2.partial = L
        /\ Kind(row[c].stage) \notin {"qkv", "attention", "gate_up"}
        /\ Advancing(row[c], row2[c])
    BY <1>3, <1>4, <1>5, <1>9, <1>10, <1>14, <1>25, <1>26
  <2>2. ResidualLaw(b, q, row2, m2.x) /\ PartialLaw(q, row2, m2.partial)
    BY <1>28, <1>29, <2>1
  <2>3. QED
    BY <1>26, <2>1, <2>2, MemoryStream
<1>31. /\ memory' \in [Rank -> MemorySet] /\ memory'[r] = m2
       /\ \A s \in Rank : s # r => memory'[s] = memory[s]
  BY <1>1, <1>15, <1>16, MemoryGoes
<1>32. MemoryLaw(b, q, row2, memory'[r])
  BY <1>30, <1>31
<1>33. QED
  BY <1>2, <1>21, <1>23, <1>24, <1>25, <1>31, <1>32, AdvanceFinish

LEMMA FinishKeeps ==
    ASSUME DenseInv, NEW r \in Rank, NEW c \in Cta, FinishHead(r, c)
    PROVE  DenseInv'
<1>1. /\ cta[r][c].at = "task" /\ ~(cta[r][c].task < Tasks(cta[r][c].stage))
      /\ Kind(cta[r][c].stage) = "head" /\ DenseType
  BY DEF FinishHead, TaskLeft, Standing, AtKind, DenseInv
<1>2. PICK B, b, q, d, row, x :
         B \in Nat /\ Runs(B, r, c, b, q, d, row, x) /\ Stands(B, r, c, b, q, d, row, x)
  BY <1>1, RankParts DEF Idle, DenseInv
<1>3. /\ PlaceLaw(b, q, c, x) /\ HeadLaw(B, row, arrived[r]) /\ BarrierLaw(b, row)
      /\ MemoryLaw(b, q, row, memory[r]) /\ Apart(q, B, Places, packets, exchange)
      /\ TokenLaw(q, d, row, tokens[r])
      /\ row = Places[r] /\ x = cta[r][c] /\ x = row[c] /\ x \in PlaceSet /\ Located(x)
      /\ q \in Nat /\ q >= 1 /\ AllLocated(row) /\ B \in Nat
  BY <1>2 DEF Stands
<1>4. PICK p, u : p = x.step /\ u = x.task
  OBVIOUS
<1>5. /\ x.stage = HeadStage /\ x.at = "task" /\ p \in Nat /\ u \in Nat
      /\ Kind(x.stage) = "head" /\ x.stage \in DenseStage
      /\ HeadStage \in Nat /\ u >= Tasks(x.stage) /\ u > c /\ u % Grid = c /\ u >= c
  <2>1. x.stage \in DenseStage /\ u \in Nat /\ p \in Nat
    BY <1>3, <1>4 DEF Located
  <2>2. Tasks(x.stage) = HeadTiles /\ x.stage = HeadStage
    BY <1>1, <1>3, <2>1, KindFacts, TaskFacts
  <2>3. u >= Tasks(x.stage) /\ HeadTiles >= Grid /\ HeadTiles \in Nat /\ Grid \in Nat
    BY <1>1, <1>3, <1>4, <2>1, <2>2, DenseConstants
  <2>4. c \in Nat /\ c < Grid
    BY <2>3 DEF Cta
  <2>5. u % Grid = c /\ u >= c
    BY <1>1, <1>3, <1>4 DEF PlaceLaw, Idle
  <2>6. QED
    BY <1>1, <1>3, <2>1, <2>2, <2>3, <2>4, <2>5, DenseConstants
<1>6. PICK v : v = Value(q, p, HeadStage)
  OBVIOUS
<1>7. v \in Sound /\ Nothing \in Sound /\ x.held = v
  BY <1>3, <1>4, <1>5, <1>6, SoundValue DEF PlaceLaw
<1>8. PICK n \in Nat : n = arrived[r]
  BY <1>1 DEF DenseType
<1>9. PICK a : a = IF n % Grid = Grid - 1 THEN "offer" ELSE "join"
  OBVIOUS
<1>10. PICK z : z = Place(a, p, HeadStage, u, Nothing)
  OBVIOUS
<1>11. z \in PlaceSet
  BY <1>5, <1>7, <1>9, <1>10, PlaceIntro DEF Where, Place
<1>12. cta' = SetTo(cta, r, c, z)
  <2>1. PICK C : C = cta /\ Placing(C) /\ x = C[r][c]
    BY <1>1, <1>3 DEF DenseType, Placing
  <2>2. cta' = SetAt(SetHeld(C, r, c, Nothing), r, c, a)
    BY <1>8, <1>9, <2>1 DEF SetHeld, SetAt, FinishHead
  <2>3. QED
    BY <1>4, <1>5, <1>10, <2>1, <2>2, HeldAtSet
<1>13. UNCHANGED <<build, host, iteration, stream, bank, tokens, events, groups, packets,
                   exchange>>
  BY DEF FinishHead, hostVars, linkVars
<1>14. z.at = a /\ z.step = p /\ z.stage = HeadStage /\ z.task = u /\ z.held = Nothing
       /\ a \in {"offer", "join"}
  BY <1>9, <1>10 DEF Place
<1>15. GoesTo(r, c, z) /\ \E row2 : Stepped(r, c, row, row2, x, z)
  BY <1>2, <1>11, <1>12, <1>13, <1>14, StepTo DEF Idle
<1>16. PICK row2 : Stepped(r, c, row, row2, x, z)
  BY <1>15
<1>17. /\ row2 = Places'[r] /\ Moves(row, row2, c) /\ row2[c] = z
       /\ AllLocated(row2) /\ Located(z) /\ Done' = Done
       /\ \A s \in Rank : s # r => Places'[s] = Places[s]
  BY <1>16 DEF Stepped
<1>18. Inner(x, z) /\ Staying(x, z) /\ x.at \notin Idle /\ z.at \notin Idle
  BY <1>4, <1>5, <1>14 DEF Inner, Staying, Idle
<1>19. PlaceLaw(b, q, c, z)
  BY <1>5, <1>14 DEF PlaceLaw, Idle, Deciding
<1>20. HeadLaw(B, row2, n + 1) /\ SamePast(row, row2)
  <2>1. /\ row[c].at = "task" /\ row[c].stage = HeadStage /\ HeadLaw(B, row, n)
        /\ row2[c].step = row[c].step /\ row2[c].stage = HeadStage
        /\ row2[c].at = IF n % Grid = Grid - 1 THEN "offer" ELSE "join"
    BY <1>3, <1>4, <1>5, <1>8, <1>9, <1>14, <1>17
  <2>2. QED
    BY <1>3, <1>17, <2>1, HeadFinish
<1>21. arrived' = [arrived EXCEPT ![r] = n + 1] /\ arrived \in [Rank -> Nat] /\ n + 1 \in Nat
  BY <1>1, <1>8 DEF FinishHead, DenseType
<1>22. /\ arrived' \in [Rank -> Nat] /\ arrived'[r] = n + 1
       /\ \A s \in Rank : s # r => arrived'[s] = arrived[s]
  BY <1>21
<1>23. PICK m \in MemorySet : m = memory[r]
  BY <1>1 DEF DenseType
<1>24. PICK A, K, C, S, L :
         A = m.x /\ K = m.qkv /\ C = m.context /\ S = m.act /\ L = m.partial
  OBVIOUS
<1>25. /\ A \in [0 .. (XTiles - 1) -> Sound] /\ K \in [0 .. (QkvTiles - 1) -> Sound]
       /\ C \in [0 .. (KvGroups - 1) -> Sound] /\ S \in [0 .. (ActTiles - 1) -> Sound]
       /\ L \in [Cta -> Sound]
       /\ m = [x |-> A, qkv |-> K, context |-> C, act |-> S, partial |-> L]
  BY <1>23, <1>24, MemoryParts
<1>26. PICK L2 : L2 = [L EXCEPT ![c] = v]
  OBVIOUS
<1>27. PICK m2 : m2 = [x |-> A, qkv |-> K, context |-> C, act |-> S, partial |-> L2]
  OBVIOUS
<1>28. m2 \in MemorySet
  <2>1. L2 \in [Cta -> Sound]
    BY <1>7, <1>25, <1>26
  <2>2. QED
    BY <1>25, <1>27, <2>1 DEF MemorySet
<1>29. memory' = [memory EXCEPT ![r] = m2]
  <2>1. memory' = [memory EXCEPT ![r].partial[c] = v]
    BY <1>3, <1>7 DEF FinishHead
  <2>2. memory' = [memory EXCEPT ![r] =
                      [memory[r] EXCEPT !.partial = [memory[r].partial EXCEPT ![c] = v]]]
    BY <2>1
  <2>3. [m EXCEPT !.partial = L2] = m2
    BY <1>25, <1>27
  <2>4. QED
    BY <1>23, <1>24, <1>26, <2>2, <2>3
<1>30. PartialLaw(q, row2, L2)
  <2>1. PartialLaw(q, row, L)
    BY <1>3, <1>23, <1>24 DEF MemoryLaw
  <2>2. HandsIn(q, row2, c, L, L2)
    BY <1>6, <1>14, <1>17, <1>25, <1>26 DEF HandsIn
  <2>3. QED
    BY <1>17, <2>1, <2>2, PartialStore
<1>31. ResidualLaw(b, q, row2, A)
  <2>1. ResidualLaw(b, q, row, A)
    BY <1>3, <1>23, <1>24 DEF MemoryLaw
  <2>2. \A e \in Cta : Staying(row[e], row2[e])
    BY <1>3, <1>17, <1>18 DEF Moves, Staying
  <2>3. SameEmbeds(b, row, row2)
    <3>1. Staying(row[0], row2[0])
      BY <2>2, DenseConstants
    <3>2. QED
      BY <1>3, <1>17, <1>20, <3>1, EmbedsKept
  <2>4. QED
    BY <1>3, <1>17, <2>1, <2>2, <2>3, ResidualKept
<1>32. MemoryLaw(b, q, row2, m2)
  <2>1. /\ m2.qkv = m.qkv /\ m2.context = m.context /\ m2.act = m.act /\ MemoryLaw(b, q, row, m)
        /\ m2.x = A /\ m2.partial = L2
        /\ Kind(row[c].stage) \notin {"qkv", "attention", "gate_up"}
        /\ Staying(row[c], row2[c])
    BY <1>3, <1>5, <1>17, <1>18, <1>23, <1>24, <1>27
  <2>2. ResidualLaw(b, q, row2, m2.x) /\ PartialLaw(q, row2, m2.partial)
    BY <1>30, <1>31, <2>1
  <2>3. QED
    BY <1>3, <1>17, <2>1, <2>2, MemoryStream
<1>33. /\ memory' \in [Rank -> MemorySet] /\ memory'[r] = m2
       /\ \A s \in Rank : s # r => memory'[s] = memory[s]
  BY <1>1, <1>28, <1>29, MemoryGoes
<1>34. TokenLaw(q, d, row2, tokens[r])
  BY <1>3, <1>20, SameTokens
<1>35. SameSent(row, row2)
  <2>1. SentStep(c, x, z)
    BY <1>5, <1>14, <1>18 DEF SentStep
  <2>2. QED
    BY <1>3, <1>17, <2>1, SentKept
<1>36. Apart(q, B, Places', packets, exchange)
  BY <1>3, <1>17, <1>20, <1>35, ApartQuiet
<1>37. DenseType'
  BY <1>1, <1>13, <1>15, <1>22, <1>33 DEF DenseType, GoesTo
<1>38. Others(r)
  BY <1>13, <1>22, <1>33 DEF Others
<1>39. HeadLaw(B, row2, arrived'[r]) /\ MemoryLaw(b, q, row2, memory'[r])
       /\ TokenLaw(q, d, row2, tokens'[r]) /\ Apart(q, B, Places', packets', exchange')
  BY <1>13, <1>20, <1>22, <1>32, <1>33, <1>34, <1>36
<1>40. QED
  BY <1>2, <1>13, <1>17, <1>18, <1>19, <1>37, <1>38, <1>39, InnerFinish

-----------------------------------------------------------------------------
(* The boundary after a stage. *)
\* The step y is at is of the rank's kernel.
KernelFits(b, q, d, y) ==
    /\ y.at # "away"
    /\ IF y.at = "done" THEN y.step = FirstOf(b, q, d + 1)
       ELSE FirstOf(b, q, d) <= y.step /\ y.step < FirstOf(b, q, d + 1)

\* A move across a boundary, which only the barriers and the operands see.
LEMMA MoveFinish ==
    ASSUME DenseInv, NEW B \in Nat, NEW r \in Rank, NEW c \in Cta, NEW b, NEW q, NEW d, NEW row,
           NEW x, Runs(B, r, c, b, q, d, row, x), Stands(B, r, c, b, q, d, row, x),
           NEW row2, NEW y, row2 = Places'[r], Moves(row, row2, c), row2[c] = y,
           AllLocated(row2), Done' = Done, \A s \in Rank : s # r => Places'[s] = Places[s],
           x.at # "away", KernelFits(b, q, d, y), SameHeadAt(x, y), QuietMove(b, row, c, x, y),
           PartialStays(x, y), SentStep(c, x, y), PlaceLaw(b, q, c, y),
           Barriers(b, B, row2, events'[r], groups'[r]),
           BankLaw(b, B, y, bank'[r][c]), Moves(bank[r], bank'[r], c),
           UNCHANGED <<build, host, iteration, stream, memory, tokens, arrived, packets,
                       exchange>>,
           Others(r), DenseType'
    PROVE  DenseInv'
<1>1. /\ PlaceLaw(b, q, c, x) /\ HeadLaw(B, row, arrived[r]) /\ AllPlaced(b, q, row)
      /\ AllBanked(b, B, row, bank[r]) /\ KernelLaw(b, q, d, TRUE, row)
      /\ MemoryLaw(b, q, row, memory[r]) /\ TokenLaw(q, d, row, tokens[r])
      /\ Apart(q, B, Places, packets, exchange)
      /\ row = Places[r] /\ x = row[c] /\ Located(x) /\ AllLocated(row)
  BY DEF Stands
<1>2. Located(y)
  BY DEF AllLocated
<1>3. SamePast(row, row2) /\ HeadLaw(B, row2, arrived[r])
  BY <1>1, HeadsSame
<1>4. MemoryLaw(b, q, row2, memory[r])
  <2>1. QuietMove(b, row, c, row[c], row2[c]) /\ PartialStays(row[c], row2[c])
    BY <1>1
  <2>2. QED
    BY <1>1, <1>3, <2>1, QuietMemory
<1>5. TokenLaw(q, d, row2, tokens[r])
  BY <1>1, <1>3, SameTokens
<1>6. SameSent(row, row2)
  BY <1>1, <1>2, SentKept
<1>7. Apart(q, B, Places', packets, exchange)
  BY <1>1, <1>3, <1>6, ApartQuiet
<1>8. AllPlaced(b, q, row2)
  BY <1>1, PlacesMoved
<1>9. KernelLaw(b, q, d, TRUE, row2)
  <2>1. /\ row[c].at # "away" /\ row2[c].at # "away"
        /\ IF row2[c].at = "done" THEN row2[c].step = FirstOf(b, q, d + 1)
           ELSE FirstOf(b, q, d) <= row2[c].step /\ row2[c].step < FirstOf(b, q, d + 1)
    BY <1>1 DEF KernelFits
  <2>2. QED
    BY <1>1, <2>1, KernelMove
<1>10. PICK bk, bk2 : bk = bank[r] /\ bk2 = bank'[r]
  OBVIOUS
<1>11. AllBanked(b, B, row2, bk2)
  <2>1. AllBanked(b, B, row, bk) /\ Moves(bk, bk2, c) /\ BankLaw(b, B, row2[c], bk2[c])
    BY <1>1, <1>10
  <2>2. QED
    BY <2>1, BanksMoved
<1>12. PICK ev, gr, n, m, tok : /\ ev = events'[r] /\ gr = groups'[r] /\ n = arrived[r]
                                /\ m = memory[r] /\ tok = tokens[r]
  OBVIOUS
<1>13. RankLaw(b, q, B, d, TRUE, row2, ev, gr, n, bk2, m, tok)
  <2>1. /\ AllPlaced(b, q, row2) /\ KernelLaw(b, q, d, TRUE, row2)
        /\ Barriers(b, B, row2, ev, gr) /\ HeadLaw(B, row2, n) /\ AllBanked(b, B, row2, bk2)
        /\ MemoryLaw(b, q, row2, m) /\ TokenLaw(q, d, row2, tok)
    BY <1>3, <1>4, <1>5, <1>8, <1>9, <1>11, <1>12
  <2>2. QED
    BY <2>1, RankForm
<1>14. RankLaw(b, q, B, d, TRUE, row2, events'[r], groups'[r], arrived'[r], bank'[r],
               memory'[r], tokens'[r])
  BY <1>10, <1>12, <1>13
<1>15. Apart(q, B, Places', packets', exchange')
  BY <1>7
<1>16. QED
  BY <1>14, <1>15, CtaFinish

\* The record that is published for the stage the CTA goes on with.
Banks(bk) == bk \in [Rank -> [Cta -> [0 .. 1 -> RecordSet]]]
Banked(bk, r, c, h, v) == [bk EXCEPT ![r][c][h % 2] = v]
BanksAs(bk, bk2, r, c, h, v) ==
    /\ Banks(bk2) /\ bk2[r][c][h % 2] = v /\ Moves(bk[r], bk2[r], c)
    /\ \A s \in Rank : s # r => bk2[s] = bk[s]
LEMMA JoinBank ==
    ASSUME NEW bk, Banks(bk), NEW bk2,
           NEW r \in Rank, NEW c \in Cta, NEW h, h \in Nat, NEW v, v \in RecordSet,
           bk2 = Banked(bk, r, c, h, v)
    PROVE  BanksAs(bk, bk2, r, c, h, v)
<1>1. PICK y \in 0 .. 1 : y = h % 2
  BY ParityType
<1>2. PICK K, k : K = bk[r] /\ k = K[c]
  OBVIOUS
<1>3. K \in [Cta -> [0 .. 1 -> RecordSet]] /\ k \in [0 .. 1 -> RecordSet]
  BY <1>2 DEF Banks
<1>4. PICK k2 : k2 = [k EXCEPT ![y] = v]
  OBVIOUS
<1>5. k2 \in [0 .. 1 -> RecordSet] /\ k2[y] = v
  BY <1>3, <1>4
<1>6. PICK K2 : K2 = [K EXCEPT ![c] = k2]
  OBVIOUS
<1>7. K2 \in [Cta -> [0 .. 1 -> RecordSet]] /\ K2[c] = k2 /\ \A e \in Cta : e # c => K2[e] = K[e]
  BY <1>3, <1>5, <1>6
<1>8. bk2 = [bk EXCEPT ![r] = K2]
  BY <1>1, <1>2, <1>4, <1>6 DEF Banked
<1>9. bk2 \in [Rank -> [Cta -> [0 .. 1 -> RecordSet]]] /\ bk2[r] = K2
      /\ \A s \in Rank : s # r => bk2[s] = bk[s]
  BY <1>7, <1>8 DEF Banks
<1>10. QED
  BY <1>1, <1>2, <1>5, <1>7, <1>9 DEF Moves, Banks, BanksAs

LEMMA CountedTyped ==
    ASSUME NEW gr, gr \in [0 .. (KvGroups - 1) -> Nat], NEW g \in DenseStage, NEW c \in Cta
    PROVE  Counted(gr, g, c) \in [0 .. (KvGroups - 1) -> Nat]
<1> SUFFICES ASSUME NEW k \in 0 .. (KvGroups - 1)
             PROVE  gr[k] + Cardinality({t \in Own(g, c) : GroupOf(t) = k}) \in Nat
  BY DEF Counted
<1>1. PICK n \in Nat : n = Tasks(g)
  BY TaskFacts
<1>2. IsFiniteSet(0 .. (n - 1))
  BY <1>1, FS_Interval
<1>3. {t \in Own(g, c) : GroupOf(t) = k} \in SUBSET (0 .. (n - 1))
  BY <1>1 DEF Own
<1>4. IsFiniteSet({t \in Own(g, c) : GroupOf(t) = k})
  BY <1>2, <1>3, FS_Subset
<1>5. Cardinality({t \in Own(g, c) : GroupOf(t) = k}) \in Nat
  BY <1>4, FS_CardinalityType
<1>6. QED
  BY <1>5

\* The counters after the arrival of c at stage g.
Arrived(b, g, c, ev, gr, ev2, gr2) ==
    IF b.groups /\ Kind(g) = "qkv" THEN ev2 = ev /\ gr2 = Counted(gr, g, c)
    ELSE ev2 = [ev EXCEPT ![g] = @ + 1] /\ gr2 = gr

LEMMA JoinCounts ==
    ASSUME DenseType, NEW r \in Rank, NEW c \in Cta, Join(r, c),
           NEW g \in DenseStage, g = cta[r][c].stage, NEW b, b = build
    PROVE  /\ Arrived(b, g, c, events[r], groups[r], events'[r], groups'[r])
           /\ events' \in [Rank -> [DenseStage -> Nat]]
           /\ groups' \in [Rank -> [0 .. (KvGroups - 1) -> Nat]]
           /\ \A s \in Rank : s # r => events'[s] = events[s] /\ groups'[s] = groups[s]
<1>1. /\ events \in [Rank -> [DenseStage -> Nat]]
      /\ groups \in [Rank -> [0 .. (KvGroups - 1) -> Nat]]
  BY DEF DenseType
<1>2. IF b.groups /\ Kind(g) = "qkv"
      THEN /\ groups' = [groups EXCEPT ![r] = [k \in DOMAIN @ |->
                            @[k] + Cardinality({t \in Own(g, c) : GroupOf(t) = k})]]
           /\ events' = events
      ELSE events' = [events EXCEPT ![r][g] = @ + 1] /\ groups' = groups
  BY DEF Join, ByGroups
<1>3. PICK ev, gr : ev = events[r] /\ gr = groups[r]
  OBVIOUS
<1>4. ev \in [DenseStage -> Nat] /\ gr \in [0 .. (KvGroups - 1) -> Nat]
  BY <1>1, <1>3
<1>5. CASE b.groups /\ Kind(g) = "qkv"
  <2>1. PICK gr2 : gr2 = Counted(gr, g, c)
    OBVIOUS
  <2>2. gr2 \in [0 .. (KvGroups - 1) -> Nat]
    BY <1>4, <2>1, CountedTyped
  <2>3. [k \in DOMAIN gr |-> gr[k] + Cardinality({t \in Own(g, c) : GroupOf(t) = k})] = gr2
    BY <1>4, <2>1 DEF Counted
  <2>4. groups' = [groups EXCEPT ![r] = [k \in DOMAIN groups[r] |->
                      groups[r][k] + Cardinality({t \in Own(g, c) : GroupOf(t) = k})]]
    BY <1>2, <1>5
  <2>5. groups' = [groups EXCEPT ![r] = gr2] /\ events' = events
    BY <1>2, <1>3, <1>5, <2>3, <2>4
  <2>6. groups' \in [Rank -> [0 .. (KvGroups - 1) -> Nat]] /\ groups'[r] = gr2
        /\ \A s \in Rank : s # r => groups'[s] = groups[s]
    BY <1>1, <2>2, <2>5
  <2>7. QED
    BY <1>1, <1>3, <1>5, <2>1, <2>5, <2>6 DEF Arrived
<1>6. CASE ~(b.groups /\ Kind(g) = "qkv")
  <2>1. PICK ev2 : ev2 = [ev EXCEPT ![g] = @ + 1]
    OBVIOUS
  <2>2. ev2 \in [DenseStage -> Nat]
    BY <1>4, <2>1
  <2>3. events' = [events EXCEPT ![r] = ev2] /\ groups' = groups
    BY <1>2, <1>3, <1>6, <2>1
  <2>4. events' \in [Rank -> [DenseStage -> Nat]] /\ events'[r] = ev2
        /\ \A s \in Rank : s # r => events'[s] = events[s]
    BY <1>1, <2>2, <2>3
  <2>5. QED
    BY <1>1, <1>3, <1>6, <2>1, <2>3, <2>4 DEF Arrived
<1>7. QED
  BY <1>5, <1>6

LEMMA JoinKeeps ==
    ASSUME DenseInv, NEW r \in Rank, NEW c \in Cta, Join(r, c)
    PROVE  DenseInv'
<1>1. /\ DenseType
      /\ \/ cta[r][c].at = "join"
         \/ /\ cta[r][c].at = "task" /\ ~(cta[r][c].task < Tasks(cta[r][c].stage))
            /\ Kind(cta[r][c].stage) # "head"
            /\ ~(build.embed /\ cta[r][c].stage = 0 /\ cta[r][c].step # 0)
  BY DEF Join, TaskLeft, Standing, AtKind, SkipsPrologue, DenseInv
<1>2. PICK B, b, q, d, row, x :
         B \in Nat /\ Runs(B, r, c, b, q, d, row, x) /\ Stands(B, r, c, b, q, d, row, x)
  BY <1>1, RankParts DEF Idle, DenseInv
<1>3. /\ PlaceLaw(b, q, c, x) /\ Barriers(b, B, row, events[r], groups[r])
      /\ x = cta[r][c] /\ x = row[c] /\ x \in PlaceSet /\ Located(x) /\ AllLocated(row)
      /\ q \in Nat /\ q >= 1 /\ B \in Nat /\ b = build
      /\ FirstOf(b, q, d) <= x.step /\ x.step < FirstOf(b, q, d + 1)
      /\ Iteration(r, c) = B + x.step
      /\ b \in [embed : BOOLEAN, groups : BOOLEAN, loop : BOOLEAN]
  BY <1>2 DEF Stands, Runs
<1>4. PICK g, p, u : g = x.stage /\ p = x.step /\ u = x.task
  OBVIOUS
<1>5. /\ g \in DenseStage /\ g \in Nat /\ g <= HeadStage /\ p \in Nat /\ u \in Nat
      /\ HeadStage \in Nat /\ HeadStage >= 11 /\ HeadStage % 2 = 1
      /\ x.at \in {"join", "task"} /\ x.held = Nothing
      /\ u >= Tasks(g) /\ u % Grid = c /\ u >= c /\ Tasks(g) \in Nat
      /\ ~(b.embed /\ g = 0 /\ p # 0) /\ (x.at = "join" <=> g = HeadStage)
  <2>1. g \in DenseStage /\ u \in Nat /\ p \in Nat
    BY <1>3, <1>4 DEF Located
  <2>2. /\ g \in Nat /\ g <= HeadStage /\ HeadStage \in Nat /\ HeadStage >= 11
        /\ HeadStage % 2 = 1 /\ Tasks(g) \in Nat /\ (Kind(g) = "head" <=> g = HeadStage)
    BY <2>1, KindFacts, TaskFacts, DenseConstants
  <2>3. x.at \in {"join", "task"} /\ u % Grid = c /\ u >= c
    BY <1>1, <1>3, <1>4 DEF PlaceLaw, Idle
  <2>4. CASE x.at = "join"
    <3>1. g = HeadStage /\ x.held = Nothing /\ u >= Tasks(g)
      BY <1>3, <1>4, <2>4 DEF PlaceLaw
    <3>2. QED
      BY <2>1, <2>2, <2>3, <2>4, <3>1
  <2>5. CASE x.at = "task"
    <3>1. g # HeadStage /\ ~(u < Tasks(g)) /\ ~(b.embed /\ g = 0 /\ p # 0)
      BY <1>1, <1>3, <1>4, <2>2, <2>5
    <3>2. x.held = Nothing
      BY <1>3, <1>4, <2>5, <3>1 DEF PlaceLaw
    <3>3. QED
      BY <2>1, <2>2, <2>3, <2>5, <3>1, <3>2
  <2>6. QED
    BY <2>3, <2>4, <2>5
<1>6. PICK z : z = Place("wait", p, g, u, Nothing)
  OBVIOUS
<1>7. z \in PlaceSet
  <2>1. Nothing \in Sound
    BY <1>3, <1>5, SoundValue
  <2>2. QED
    BY <1>5, <1>6, <2>1, PlaceIntro DEF Where, Place
<1>8. cta' = SetTo(cta, r, c, z)
  <2>1. PICK C : C = cta /\ Placing(C) /\ x = C[r][c]
    BY <1>1, <1>3 DEF DenseType, Placing
  <2>2. cta' = SetAt(C, r, c, "wait")
    BY <2>1 DEF SetAt, Join
  <2>3. QED
    BY <1>4, <1>5, <1>6, <2>1, <2>2, AtSet
<1>9. UNCHANGED <<build, host, iteration, stream, memory, tokens, arrived, packets, exchange>>
  BY DEF Join, hostVars, linkVars
<1>10. z.at = "wait" /\ z.step = p /\ z.stage = g /\ z.task = u /\ z.held = Nothing
  BY <1>6 DEF Place
<1>11. GoesTo(r, c, z) /\ \E row2 : Stepped(r, c, row, row2, x, z)
  BY <1>2, <1>7, <1>8, <1>9, <1>10, StepTo DEF Idle
<1>12. PICK row2 : Stepped(r, c, row, row2, x, z)
  BY <1>11
<1>13. /\ row2 = Places'[r] /\ Moves(row, row2, c) /\ row2[c] = z
       /\ AllLocated(row2) /\ Located(z) /\ Done' = Done
       /\ \A s \in Rank : s # r => Places'[s] = Places[s]
  BY <1>12 DEF Stepped
<1>14. Joining(x, z) /\ Staying(x, z)
  BY <1>4, <1>5, <1>10 DEF Joining, Staying
<1>15. PlaceLaw(b, q, c, z)
  BY <1>5, <1>10 DEF PlaceLaw, Idle, Deciding
<1>16. /\ SameHeadAt(x, z) /\ QuietMove(b, row, c, x, z) /\ PartialStays(x, z)
       /\ SentStep(c, x, z) /\ KernelFits(b, q, d, z) /\ x.at # "away"
  <2>1. SameHeadAt(x, z)
    BY <1>4, <1>5, <1>10 DEF SameHeadAt, Scored, Deciding
  <2>2. QuietMove(b, row, c, x, z)
    BY <1>14 DEF QuietMove
  <2>3. PartialStays(x, z)
    BY <1>4, <1>5, <1>10 DEF PartialStays, Scored, Deciding
  <2>4. SentStep(c, x, z)
    BY <1>5, <1>10, <1>14 DEF SentStep
  <2>5. KernelFits(b, q, d, z) /\ x.at # "away"
    BY <1>3, <1>4, <1>5, <1>10 DEF KernelFits
  <2>6. QED
    BY <2>1, <2>2, <2>3, <2>4, <2>5
<1>17. /\ Arrived(b, g, c, events[r], groups[r], events'[r], groups'[r])
       /\ events' \in [Rank -> [DenseStage -> Nat]]
       /\ groups' \in [Rank -> [0 .. (KvGroups - 1) -> Nat]]
       /\ \A s \in Rank : s # r => events'[s] = events[s] /\ groups'[s] = groups[s]
  BY <1>1, <1>3, <1>4, <1>5, JoinCounts
<1>18. Barriers(b, B, row2, events'[r], groups'[r])
  <2>1. PICK ev, gr, ev2, gr2 :
          ev = events[r] /\ gr = groups[r] /\ ev2 = events'[r] /\ gr2 = groups'[r]
    OBVIOUS
  <2>2. ev \in [DenseStage -> Nat] /\ gr \in [0 .. (KvGroups - 1) -> Nat]
    BY <1>1, <2>1 DEF DenseType
  <2>3. IF b.groups /\ Kind(g) = "qkv"
        THEN ev2 = ev /\ gr2 = Counted(gr, g, c)
        ELSE ev2 = [ev EXCEPT ![g] = @ + 1] /\ gr2 = gr
    BY <1>17, <2>1 DEF Arrived
  <2>4. /\ Barriers(b, B, row, ev, gr) /\ Joining(row[c], row2[c]) /\ g = row[c].stage
        /\ (b.embed /\ g = 0 => row[c].step = 0)
    BY <1>3, <1>4, <1>5, <1>13, <1>14, <2>1
  <2>5. Barriers(b, B, row2, ev2, gr2)
    BY <1>3, <1>13, <2>2, <2>3, <2>4, JoinBarriers
  <2>6. QED
    BY <2>1, <2>5
<1>19. PICK h : h = NextStage(g)
  OBVIOUS
<1>20. h \in Nat /\ h = IF g < HeadStage THEN g + 1 ELSE IF b.embed THEN 1 ELSE 0
  BY <1>3, <1>5, <1>19 DEF NextStage
<1>21. PICK v : v = Record(h, p, B + p + 1)
  OBVIOUS
<1>22. v \in RecordSet
  <2>1. B + p + 1 \in Nat
    BY <1>3, <1>5
  <2>2. QED
    BY <1>5, <1>20, <1>21, <2>1 DEF Record, RecordSet
<1>23. bank' = IF h = 0 THEN bank ELSE [bank EXCEPT ![r][c][h % 2] = v]
  BY <1>3, <1>4, <1>19, <1>21 DEF Join
<1>24. /\ bank' \in [Rank -> [Cta -> [0 .. 1 -> RecordSet]]]
       /\ (h # 0 => bank'[r][c][h % 2] = v) /\ Moves(bank[r], bank'[r], c)
       /\ \A s \in Rank : s # r => bank'[s] = bank[s]
  <2>1. bank \in [Rank -> [Cta -> [0 .. 1 -> RecordSet]]]
    BY <1>1 DEF DenseType
  <2>2. CASE h = 0
    BY <1>23, <2>1, <2>2 DEF Moves
  <2>3. CASE h # 0
    <3>1. PICK bk, bk2 : bk = bank /\ bk2 = bank'
      OBVIOUS
    <3>2. /\ bk2 \in [Rank -> [Cta -> [0 .. 1 -> RecordSet]]]
          /\ bk2[r][c][h % 2] = v /\ Moves(bk[r], bk2[r], c)
          /\ \A s \in Rank : s # r => bk2[s] = bk[s]
      <4>1. Banks(bk) /\ bk2 = Banked(bk, r, c, h, v)
        BY <1>23, <2>1, <2>3, <3>1 DEF Banks, Banked
      <4>2. BanksAs(bk, bk2, r, c, h, v)
        BY <1>20, <1>22, <4>1, JoinBank
      <4>3. QED
        BY <4>2 DEF BanksAs, Banks
    <3>3. QED
      BY <3>1, <3>2
  <2>4. QED
    BY <2>2, <2>3
<1>25. BankLaw(b, B, z, bank'[r][c])
  <2>1. PICK k : k = bank'[r][c]
    OBVIOUS
  <2>2. h # 0 => k[h % 2] = v
    BY <1>24, <2>1
  <2>3. g < HeadStage => k[(g + 1) % 2] = Record(g + 1, p, B + p + 1)
    BY <1>5, <1>20, <1>21, <2>2
  <2>4. b.embed /\ g = HeadStage => k[1].stage = 1
    BY <1>5, <1>20, <1>21, <2>2 DEF Record
  <2>5. ~(b.embed /\ z.stage = 0 /\ z.step # 0)
    BY <1>5, <1>10
  <2>6. QED
    BY <1>10, <2>1, <2>3, <2>4, <2>5 DEF BankLaw
<1>26. DenseType'
  BY <1>1, <1>9, <1>11, <1>17, <1>24 DEF DenseType, GoesTo
<1>27. Others(r)
  BY <1>9, <1>17, <1>24 DEF Others
<1>28. QED
  BY <1>2, <1>9, <1>13, <1>15, <1>16, <1>18, <1>24, <1>25, <1>26, <1>27, MoveFinish

\* Where a CTA is after the boundary.
Lands(b, q, d, c, x, y) ==
    \/ x.stage < HeadStage /\ y = Place("task", x.step, x.stage + 1, c, Nothing)
    \/ /\ x.stage = HeadStage /\ x.step + 1 < FirstOf(b, q, d + 1)
       /\ y = Place("task", x.step + 1, 0, c, Nothing)
    \/ /\ x.stage = HeadStage /\ x.step + 1 = FirstOf(b, q, d + 1)
       /\ y = Place("done", x.step + 1, 0, 0, Nothing)

\* c of r is at y, and no other place has changed.
Lies(r, c, row, row2, y) ==
    /\ row2 = Places'[r] /\ Moves(row, row2, c) /\ row2[c] = y /\ AllLocated(row2)
    /\ Done' = Done /\ \A s \in Rank : s # r => Places'[s] = Places[s]

\* What a boundary sets of a place.
StageEdit(x, g, t) == [x EXCEPT !.at = "task", !.stage = g, !.task = t]
StepEdit(x, p, g, t) == [x EXCEPT !.at = "task", !.step = p, !.stage = g, !.task = t]

LEMMA PlaceEdit ==
    ASSUME NEW a, NEW p, NEW g, NEW t, NEW h, NEW x, x = Place(a, p, g, t, h),
           NEW p2, NEW g2, NEW t2
    PROVE  /\ StageEdit(x, g2, t2) = Place("task", p, g2, t2, h)
           /\ StepEdit(x, p2, g2, t2) = Place("task", p2, g2, t2, h)
<1>1. x = [at |-> a, step |-> p, stage |-> g, task |-> t, held |-> h]
  BY DEF Place
<1>2. PICK x1, x2, x3, x4 :
         /\ x1 = [at |-> "task", step |-> p, stage |-> g, task |-> t, held |-> h]
         /\ x2 = [at |-> "task", step |-> p, stage |-> g2, task |-> t, held |-> h]
         /\ x3 = [at |-> "task", step |-> p2, stage |-> g, task |-> t, held |-> h]
         /\ x4 = [at |-> "task", step |-> p2, stage |-> g2, task |-> t, held |-> h]
  OBVIOUS
<1>3. [x EXCEPT !.at = "task"] = x1
  BY <1>1, <1>2
<1>4. [x1 EXCEPT !.stage = g2] = x2 /\ [x1 EXCEPT !.step = p2] = x3
  BY <1>2
<1>5. [x3 EXCEPT !.stage = g2] = x4
  BY <1>2
<1>6. [x2 EXCEPT !.task = t2] = Place("task", p, g2, t2, h)
  BY <1>2 DEF Place
<1>7. [x4 EXCEPT !.task = t2] = Place("task", p2, g2, t2, h)
  BY <1>2 DEF Place
<1>8. [x EXCEPT !.at = "task", !.stage = g2, !.task = t2]  = [x2 EXCEPT !.task = t2]
  BY <1>3, <1>4
<1>9. [x EXCEPT !.at = "task", !.step = p2, !.stage = g2, !.task = t2]  = [x4 EXCEPT !.task = t2]
  BY <1>3, <1>4, <1>5
<1>10. QED
  BY <1>6, <1>7, <1>8, <1>9 DEF StageEdit, StepEdit

LEMMA PassLands ==
    ASSUME DenseInv, NEW B \in Nat, NEW r \in Rank, NEW c \in Cta, NEW b, NEW q, NEW d, NEW row,
           NEW x, Runs(B, r, c, b, q, d, row, x), Stands(B, r, c, b, q, d, row, x),
           Pass(r, c)
    PROVE  /\ cta' \in [Rank -> [Cta -> PlaceSet]]
           /\ \E y, row2 : Lands(b, q, d, c, x, y) /\ Lies(r, c, row, row2, y)
<1>1. /\ DenseType /\ x = cta[r][c] /\ x = row[c] /\ x \in PlaceSet /\ Located(x)
      /\ AllLocated(row) /\ row = Places[r] /\ b = build /\ q = host.request /\ d = Done[r]
      /\ PlaceLaw(b, q, c, x) /\ q \in Nat /\ q >= 1 /\ q <= Len(NewTokens) /\ d \in Nat
      /\ b \in [embed : BOOLEAN, groups : BOOLEAN, loop : BOOLEAN]
      /\ Kernel(r) = Command(b, q, B, d) /\ x.step < FirstOf(b, q, d + 1)
  BY DEF Stands, Runs, DenseInv
<1>2. PICK f, e : f = FirstOf(b, q, d) /\ e = FirstOf(b, q, d + 1)
  OBVIOUS
<1>3. f \in Nat /\ e \in Nat
  BY <1>1, <1>2, FirstFacts
<1>4. PICK p \in Nat, g \in DenseStage : p = x.step /\ g = x.stage
  BY <1>1 DEF Located
<1>5. x.at = "wait" /\ x.held = Nothing /\ x.task \in Nat
  BY <1>1 DEF Pass, Standing, PlaceLaw, Located
<1>6. x = Place("wait", p, g, x.task, Nothing)
  BY <1>1, <1>4, <1>5, PlaceForm
<1>7. /\ g \in Nat /\ g <= HeadStage /\ HeadStage \in Nat /\ Nothing \in Sound /\ 0 \in DenseStage
      /\ c \in Nat /\ p < e
  BY <1>1, <1>2, <1>4, SoundValue, StageIsNat, DenseConstants DEF Cta, DenseStage
<1>8. Kernel(r).first + Kernel(r).count - 1 = e - 1
  <2>1. Kernel(r).first = f /\ Kernel(r).count = e - f
    BY <1>1, <1>2 DEF Command
  <2>2. QED
    BY <1>3, <2>1
<1>a. PICK z1, z2, z3 : /\ z1 = Place("task", p, g + 1, c, Nothing)
                        /\ z2 = Place("task", p + 1, 0, c, Nothing)
                        /\ z3 = Place("done", 0, 0, 0, Nothing)
  OBVIOUS
<1>b. PICK z : z = CASE g < HeadStage -> z1
                     [] g = HeadStage /\ p # e - 1 -> z2
                     [] g = HeadStage /\ p = e - 1 -> z3
  OBVIOUS
<1>9. /\ g < HeadStage => z = Place("task", p, g + 1, c, Nothing)
      /\ g = HeadStage /\ p # e - 1 => z = Place("task", p + 1, 0, c, Nothing)
      /\ g = HeadStage /\ p = e - 1 => z = Place("done", 0, 0, 0, Nothing)
  BY <1>a, <1>b, <1>7
<1>10. cta' = SetTo(cta, r, c, z)
  <2>0. PICK u : x = Place("wait", p, g, u, Nothing)
    BY <1>6
  <2>1. [x EXCEPT !.at = "task", !.stage = x.stage + 1, !.task = c] = z1
    <3>1. PICK h : h = x.stage + 1 /\ h = g + 1
      BY <1>4
    <3>2. StageEdit(x, h, c) = Place("task", p, h, c, Nothing)
      BY <2>0, PlaceEdit
    <3>3. QED
      BY <1>a, <3>1, <3>2 DEF StageEdit
  <2>2. [x EXCEPT !.at = "task", !.step = x.step + 1, !.stage = 0, !.task = c] = z2
    <3>1. PICK h : h = x.step + 1 /\ h = p + 1
      BY <1>4
    <3>2. StepEdit(x, h, 0, c) = Place("task", h, 0, c, Nothing)
      BY <2>0, PlaceEdit
    <3>3. QED
      BY <1>a, <3>1, <3>2 DEF StepEdit
  <2>3. [Away EXCEPT !.at = "done"] = z3
    BY <1>a DEF Place, Away
  <2>4. (x.step = Kernel(r).first + Kernel(r).count - 1) <=> p = e - 1
    BY <1>4, <1>8
  <2>5. PICK z4 : z4 = CASE x.stage < HeadStage ->
                       [x EXCEPT !.at = "task", !.stage = x.stage + 1, !.task = c]
                 [] x.stage = HeadStage /\ ~(x.step = Kernel(r).first + Kernel(r).count - 1) ->
                       [x EXCEPT !.at = "task", !.step = x.step + 1, !.stage = 0,
                                        !.task = c]
                 [] x.stage = HeadStage /\ (x.step = Kernel(r).first + Kernel(r).count - 1) ->
                       [Away EXCEPT !.at = "done"]
    OBVIOUS
  <2>6. cta' = [cta EXCEPT ![r][c] = z4]
    BY <1>1, <2>5 DEF Pass
  <2>7. z4 = CASE g < HeadStage -> z1
               [] g = HeadStage /\ ~(p = e - 1) -> z2
               [] g = HeadStage /\ p = e - 1 -> z3
    BY <1>4, <2>1, <2>2, <2>3, <2>4, <2>5
  <2>8. z4 = z
    BY <1>b, <2>7
  <2>9. QED
    BY <2>6, <2>8 DEF SetTo
<1>11. UNCHANGED <<build, host, stream>>
  BY DEF Pass, hostVars
<1>12. z \in PlaceSet
  <2>1. CASE g < HeadStage
    <3>1. g + 1 \in DenseStage
      BY <1>7, <2>1 DEF DenseStage
    <3>2. z = Place("task", p, g + 1, c, Nothing)
      BY <1>9, <2>1
    <3>3. QED
      BY <1>7, <3>1, <3>2, PlaceIntro DEF Where, Place
  <2>2. CASE g = HeadStage /\ p # e - 1
    <3>1. z = Place("task", p + 1, 0, c, Nothing) /\ p + 1 \in Nat
      BY <1>7, <1>9, <2>2
    <3>2. QED
      BY <1>7, <3>1, PlaceIntro DEF Where, Place
  <2>3. CASE g = HeadStage /\ p = e - 1
    <3>1. z = Place("done", 0, 0, 0, Nothing)
      BY <1>7, <1>9, <2>3
    <3>2. QED
      BY <1>7, <3>1, PlaceIntro DEF Where, Place
  <2>4. QED
    BY <1>7, <2>1, <2>2, <2>3
<1>13. GoesTo(r, c, z)
  BY <1>1, <1>10, <1>12, Goes DEF SetTo
<1>14. PICK row2, y : row2 = Places'[r] /\ y = row2[c]
  OBVIOUS
<1>15. /\ Done' = Done /\ \A s \in Rank : s # r => Places'[s] = Places[s]
       /\ Moves(row, row2, c)
       /\ (z.at \notin Idle => y = z)
       /\ (z.at = "done" => y = [z EXCEPT !.step = e])
  BY <1>1, <1>2, <1>11, <1>13, <1>14, Relocate
<1>16. Lands(b, q, d, c, x, y)
  <2>1. CASE g < HeadStage
    <3>1. z = Place("task", p, g + 1, c, Nothing) /\ z.at \notin Idle
      BY <1>7, <1>9, <2>1 DEF Place, Idle
    <3>2. QED
      BY <1>4, <1>15, <2>1, <3>1 DEF Lands
  <2>2. CASE g = HeadStage /\ p # e - 1
    <3>1. z = Place("task", p + 1, 0, c, Nothing) /\ z.at \notin Idle /\ p + 1 < e
      BY <1>3, <1>7, <1>9, <2>2 DEF Place, Idle
    <3>2. QED
      BY <1>2, <1>4, <1>15, <2>2, <3>1 DEF Lands
  <2>3. CASE g = HeadStage /\ p = e - 1
    <3>1. z = Place("done", 0, 0, 0, Nothing) /\ e = p + 1
      BY <1>3, <1>7, <1>9, <2>3
    <3>2. y = Place("done", p + 1, 0, 0, Nothing)
      BY <1>15, <3>1 DEF Place
    <3>3. QED
      BY <1>2, <1>4, <2>3, <3>1, <3>2 DEF Lands
  <2>4. QED
    BY <1>7, <2>1, <2>2, <2>3
<1>17. Located(y)
  <2>1. g < HeadStage => g + 1 \in DenseStage
    BY <1>7 DEF DenseStage
  <2>2. QED
    BY <1>4, <1>7, <1>16, <2>1 DEF Lands, Place, Located
<1>18. AllLocated(row2)
  <2>1. \A s \in Cta : row2[s] = y \/ row2[s] = row[s]
    BY <1>14, <1>15 DEF Moves
  <2>2. QED
    BY <1>1, <1>17, <2>1 DEF AllLocated
<1>19. Lies(r, c, row, row2, y)
  BY <1>14, <1>15, <1>18 DEF Lies
<1>20. QED
  BY <1>13, <1>16, <1>19 DEF GoesTo

\* What a boundary waited for.
Met(b, row, c, x) ==
    IF b.groups /\ Kind(x.stage) = "qkv"
    THEN \A t \in 0 .. (QkvTiles - 1) : GroupOf(t) % Grid = c =>
             Arr(row[t % Grid], x.stage) >= x.step + 1
    ELSE \A e \in Cta : Arr(row[e], x.stage) >= x.step + 1

LEMMA ReleaseMeets ==
    ASSUME DenseType, NEW B \in Nat, NEW r \in Rank, NEW c \in Cta, NEW b, NEW q, NEW d, NEW row,
           NEW x, Runs(B, r, c, b, q, d, row, x), Stands(B, r, c, b, q, d, row, x),
           x.at = "wait", Released(r, c)
    PROVE  Met(b, row, c, x)
<1>1. /\ x = cta[r][c] /\ x = row[c] /\ AllLocated(row) /\ Located(x) /\ BarrierLaw(b, row)
      /\ EventsLaw(b, B, row, events[r]) /\ GroupsLaw(b, B, row, groups[r])
      /\ PlaceLaw(b, q, c, x) /\ Iteration(r, c) = B + x.step /\ b = build
  BY DEF Stands, Runs, Barriers
<1>2. PICK g, p, ev, gr : g = x.stage /\ p = x.step /\ ev = events[r] /\ gr = groups[r]
  OBVIOUS
<1>3. g \in DenseStage /\ p \in Nat
  BY <1>1, <1>2 DEF Located
<1>4. CASE b.groups /\ Kind(g) = "qkv"
  <2>1. PICK h : h = g + 1
    OBVIOUS
  <2>2. Kind(h) = "attention" /\ h \in DenseStage /\ g + 4 < HeadStage /\ g \in Nat
    <3>1. g \in Nat /\ g + 4 < HeadStage /\ Kind(g + 1) = "attention" /\ HeadStage \in Nat
      BY <1>3, <1>4, KindFacts, DenseConstants
    <3>2. QED
      BY <2>1, <3>1 DEF DenseStage
  <2>3. Tasks(h) = KvGroups
    BY <2>2, TaskFacts
  <2>4. \A k \in Own(h, c) : gr[k] >= ((B + p) * Layers + Layer(g) + 1) * GroupTiles
    BY <1>1, <1>2, <1>4, <2>1 DEF Released, ByGroups, GroupTarget
  <2>5. ASSUME NEW t \in 0 .. (QkvTiles - 1), GroupOf(t) % Grid = c
        PROVE  Arr(row[t % Grid], g) >= p + 1
    <3>1. PICK k : k = GroupOf(t)
      OBVIOUS
    <3>2. k \in 0 .. (KvGroups - 1) /\ k % Grid = c
      BY <2>5, <3>1, GroupTilesFacts
    <3>3. k \in Own(h, c) /\ t \in TilesOf(k)
      BY <2>3, <3>1, <3>2 DEF Own, TilesOf
    <3>4. gr[k] >= ((B + row[c].step) * Layers + Layer(row[c].stage) + 1) * GroupTiles
      BY <1>1, <1>2, <2>4, <3>3
    <3>5. \A u \in TilesOf(k) : Arr(row[u % Grid], row[c].stage) >= row[c].step + 1
      <4>1. GroupsLaw(b, B, row, gr) /\ b.groups /\ Kind(row[c].stage) = "qkv"
        BY <1>1, <1>2, <1>4
      <4>2. QED
        BY <1>1, <3>2, <3>4, <4>1, GroupReleases
    <3>6. QED
      BY <1>1, <1>2, <3>3, <3>5
  <2>6. QED
    BY <1>2, <1>4, <2>5 DEF Met
<1>5. CASE ~(b.groups /\ Kind(g) = "qkv")
  <2>1. ev[g] >= (B + p + 1) * Grid
    BY <1>1, <1>2, <1>5 DEF Released, ByGroups, GridTarget
  <2>2. b.embed /\ g = 0 => p = 0
    BY <1>1, <1>2 DEF PlaceLaw
  <2>3. \A e \in Cta : Arr(row[e], row[c].stage) >= row[c].step + 1
    <3>1. /\ ~(b.groups /\ Kind(row[c].stage) = "qkv") /\ EventsLaw(b, B, row, ev)
          /\ (b.embed /\ row[c].stage = 0 => row[c].step = 0)
          /\ ev[row[c].stage] >= (B + row[c].step + 1) * Grid
          /\ \A e \in Cta : Located(row[e])
      BY <1>1, <1>2, <1>5, <2>1, <2>2 DEF AllLocated
    <3>2. QED
      BY <1>1, <3>1, GridReleases
  <2>4. QED
    BY <1>1, <1>2, <1>5, <2>3 DEF Met
<1>6. QED
  BY <1>4, <1>5

LEMMA PassKeeps ==
    ASSUME DenseInv, NEW r \in Rank, NEW c \in Cta, Pass(r, c)
    PROVE  DenseInv'
<1>1. DenseType /\ cta[r][c].at = "wait" /\ Released(r, c)
  BY DEF Pass, Standing, DenseInv
<1>2. PICK B, b, q, d, row, x :
         B \in Nat /\ Runs(B, r, c, b, q, d, row, x) /\ Stands(B, r, c, b, q, d, row, x)
  BY <1>1, RankParts DEF Idle, DenseInv
<1>3. /\ PlaceLaw(b, q, c, x) /\ Barriers(b, B, row, events[r], groups[r])
      /\ AllPlaced(b, q, row) /\ BarrierLaw(b, row)
      /\ x = cta[r][c] /\ x = row[c] /\ Located(x) /\ AllLocated(row) /\ x.at = "wait"
      /\ q \in Nat /\ q >= 1 /\ q <= Len(NewTokens) /\ b = build /\ d \in Nat
      /\ FirstOf(b, q, d) <= x.step /\ x.step < FirstOf(b, q, d + 1)
      /\ b \in [embed : BOOLEAN, groups : BOOLEAN, loop : BOOLEAN]
      /\ BankLaw(b, B, x, bank[r][c])
  BY <1>1, <1>2 DEF Stands, Runs, AllBanked
<1>4. Met(b, row, c, x)
  BY <1>1, <1>2, <1>3, ReleaseMeets
<1>5. PICK y, row2 : Lands(b, q, d, c, x, y) /\ Lies(r, c, row, row2, y)
  BY <1>2, PassLands
<1>5a. cta' \in [Rank -> [Cta -> PlaceSet]]
  BY <1>2, PassLands
<1>6. /\ row2 = Places'[r] /\ Moves(row, row2, c) /\ row2[c] = y /\ AllLocated(row2)
      /\ Done' = Done /\ \A s \in Rank : s # r => Places'[s] = Places[s]
  BY <1>5 DEF Lies
<1>7. UNCHANGED <<build, host, iteration, stream, bank, memory, tokens, events, groups,
                  arrived, packets, exchange>>
  BY DEF Pass, hostVars, counterVars, linkVars
<1>8. PICK g, p, u, f, e : /\ g = x.stage /\ p = x.step /\ u = x.task
                           /\ f = FirstOf(b, q, d) /\ e = FirstOf(b, q, d + 1)
  OBVIOUS
<1>9. /\ g \in DenseStage /\ g \in Nat /\ g <= HeadStage /\ p \in Nat /\ u \in Nat
      /\ HeadStage \in Nat /\ HeadStage >= 11 /\ HeadStage % 2 = 1 /\ f \in Nat /\ e \in Nat
      /\ u >= Tasks(g) /\ c \in Nat /\ c % Grid = c /\ c >= 0 /\ f <= p /\ p < e
      /\ Grid \in Nat /\ Grid >= 1 /\ c < Grid /\ Tasks(g) \in Nat
  <2>1. g \in DenseStage /\ p \in Nat /\ u \in Nat
    BY <1>3, <1>8 DEF Located
  <2>2. /\ g \in Nat /\ g <= HeadStage /\ HeadStage \in Nat /\ HeadStage >= 11
        /\ HeadStage % 2 = 1 /\ Grid \in Nat /\ Grid >= 1 /\ Tasks(g) \in Nat
    BY <2>1, StageIsNat, DenseConstants, TaskFacts
  <2>3. c \in Nat /\ c < Grid /\ c >= 0
    BY <2>2 DEF Cta
  <2>4. f \in Nat /\ e \in Nat
    BY <1>3, <1>8, FirstFacts
  <2>5. u >= Tasks(g) /\ f <= p /\ p < e
    BY <1>3, <1>8 DEF PlaceLaw
  <2>6. c % Grid = c
    BY <2>2, <2>3
  <2>7. QED
    BY <2>1, <2>2, <2>3, <2>4, <2>5, <2>6
<1>10. \/ g < HeadStage /\ y = Place("task", p, g + 1, c, Nothing)
       \/ g = HeadStage /\ p + 1 < e /\ y = Place("task", p + 1, 0, c, Nothing)
       \/ g = HeadStage /\ p + 1 = e /\ y = Place("done", p + 1, 0, 0, Nothing)
  BY <1>5, <1>8 DEF Lands
<1>11. /\ y.held = Nothing /\ y.task \in Nat /\ y.task <= c /\ y.at \in {"task", "done"}
       /\ (g < HeadStage => y.at = "task" /\ y.step = p /\ y.stage = g + 1 /\ y.task = c)
       /\ (g = HeadStage => y.step = p + 1 /\ y.stage = 0)
       /\ (y.at = "done" => g = HeadStage /\ p + 1 = e /\ y.task = 0 /\ y.stage = 0)
       /\ (y.at = "task" => y.step < e /\ y.step >= f /\ y.task = c)
  BY <1>9, <1>10 DEF Place
<1>12. Entering(c, x, y) /\ Passing(x, y)
  <2>1. Passing(x, y)
    BY <1>3, <1>8, <1>9, <1>11 DEF Passing
  <2>2. QED
    BY <1>8, <1>9, <1>11, <2>1 DEF Entering
<1>13. PlaceLaw(b, q, c, y)
  <2>1. CASE y.at = "task"
    <3>1. y.held = IF y.stage = HeadStage /\ y.task > c
                   THEN Value(q, y.step, HeadStage) ELSE Nothing
      BY <1>9, <1>11, <2>1
    <3>2. y.task % Grid = c /\ y.task >= c
      BY <1>9, <1>11, <2>1
    <3>3. QED
      BY <2>1, <3>1, <3>2, TaskPlace
  <2>2. CASE y.at = "done"
    BY <1>11, <2>2 DEF PlaceLaw, Idle, Deciding
  <2>3. QED
    BY <1>11, <2>1, <2>2
<1>14. QuietMove(b, row, c, x, y)
  <2>1. ~(b.groups /\ Kind(x.stage) = "qkv") =>
              \A s \in Cta : Arr(row[s], x.stage) >= x.step + 1
    BY <1>4 DEF Met
  <2>2. /\ x.stage = 0 => Embeds(b, row, x.step)
        /\ x.stage = HeadStage - 1 => ~Embeds(b, row, x.step + 1)
    BY <1>3, <2>1, EnterSides
  <2>3. QED
    BY <1>12, <2>2 DEF QuietMove
<1>15. SameHeadAt(x, y)
  <2>1. Scored(y) = Scored(x)
    <3>1. CASE g < HeadStage
      <4>1. Scored(x) = p
        BY <1>3, <1>8, <1>9, <3>1 DEF Scored
      <4>2. y.at = "task" /\ y.step = p
        BY <1>11, <3>1
      <4>3. QED
        BY <1>9, <4>1, <4>2 DEF Scored, Deciding
    <3>2. CASE g = HeadStage
      <4>1. Scored(x) = p + 1
        BY <1>3, <1>8, <1>9, <3>2 DEF Scored
      <4>2. y.stage = 0 /\ y.step = p + 1
        BY <1>11, <3>2
      <4>3. QED
        BY <1>9, <4>1, <4>2 DEF Scored
    <3>3. QED
      BY <1>9, <3>1, <3>2
  <2>2. QED
    BY <1>3, <1>11, <2>1 DEF SameHeadAt, Deciding
<1>16. PartialStays(x, y)
  BY <1>9, <1>11 DEF PartialStays, Scored, Deciding
<1>17. SentStep(c, x, y)
  BY <1>11, <1>12 DEF SentStep
<1>18. KernelFits(b, q, d, y) /\ x.at # "away"
  BY <1>3, <1>8, <1>11 DEF KernelFits
<1>19. Barriers(b, B, row2, events'[r], groups'[r])
  <2>1. PICK ev, gr : ev = events[r] /\ gr = groups[r]
    OBVIOUS
  <2>2. Barriers(b, B, row, ev, gr) /\ Passing(row[c], row2[c]) /\ g = row[c].stage
    BY <1>3, <1>6, <1>8, <1>12, <2>1
  <2>3. IF b.groups /\ Kind(g) = "qkv"
        THEN \A t \in 0 .. (QkvTiles - 1) : GroupOf(t) % Grid = c =>
                 Arr(row[t % Grid], g) >= row[c].step + 1
        ELSE \A s \in Cta : Arr(row[s], g) >= row[c].step + 1
    BY <1>3, <1>4, <1>8 DEF Met
  <2>4. Barriers(b, B, row2, ev, gr)
    BY <1>2, <1>3, <1>6, <2>2, <2>3, PassBarriers
  <2>5. QED
    BY <1>7, <2>1, <2>4
<1>20. BankLaw(b, B, y, bank'[r][c])
  <2>1. PICK k : k = bank[r][c]
    OBVIOUS
  <2>2. BankLaw(b, B, x, k)
    BY <1>3, <2>1
  <2>3. CASE g < HeadStage
    <3>1. k[(g + 1) % 2] = Record(g + 1, p, B + p + 1)
      BY <1>3, <1>8, <2>2, <2>3 DEF BankLaw
    <3>2. PICK h : h = g + 1
      OBVIOUS
    <3>3. y.at = "task" /\ y.stage = h /\ y.step = p /\ h # 0
      BY <1>9, <1>11, <2>3, <3>2
    <3>4. k[h % 2] = Record(h, p, B + p + 1)
      BY <3>1, <3>2
    <3>5. k[h % 2].stage = h
      BY <3>4 DEF Record
    <3>6. QED
      BY <1>7, <2>1, <3>3, <3>4, <3>5 DEF BankLaw
  <2>4. CASE g = HeadStage
    <3>1. b.embed => k[1].stage = 1
      BY <1>3, <1>8, <2>2, <2>4 DEF BankLaw
    <3>2. y.stage = 0 /\ y.at # "wait"
      BY <1>11, <2>4
    <3>3. QED
      BY <1>7, <2>1, <3>1, <3>2 DEF BankLaw
  <2>5. QED
    BY <1>9, <2>3, <2>4
<1>21. DenseType'
  BY <1>1, <1>5a, <1>7 DEF DenseType
<1>22. Others(r) /\ Moves(bank[r], bank'[r], c)
  BY <1>7 DEF Others, Moves
<1>23. QED
  BY <1>2, <1>6, <1>7, <1>13, <1>14, <1>15, <1>16, <1>17, <1>18, <1>19, <1>20, <1>21, <1>22,
     MoveFinish

\* The skipped prologue's arrival.
Upped(ev, ev2) == ev2 = [ev EXCEPT ![0] = @ + 1]

LEMMA SkipCounts ==
    ASSUME NEW b, NEW B \in Nat, NEW row, NEW row2, NEW ev, NEW gr, NEW ev2,
           AllLocated(row), AllLocated(row2), Barriers(b, B, row, ev, gr),
           ev \in [DenseStage -> Nat],
           NEW c \in Cta, Moves(row, row2, c), Skipping(row[c], row2[c]),
           b.embed, row[c].step # 0, Upped(ev, ev2)
    PROVE  Barriers(b, B, row2, ev2, gr)
<1>1. ev2 = [ev EXCEPT ![0] = @ + 1]
  BY DEF Upped
<1>2. QED
  BY <1>1, SkipBarriers

LEMMA SkipKeeps ==
    ASSUME DenseInv, NEW r \in Rank, NEW c \in Cta, SkipPrologue(r, c)
    PROVE  DenseInv'
<1>1. /\ DenseType /\ cta[r][c].at = "task" /\ build.embed /\ cta[r][c].stage = 0
      /\ cta[r][c].step # 0
  BY DEF SkipPrologue, SkipsPrologue, Standing, DenseInv
<1>2. PICK B, b, q, d, row, x :
         B \in Nat /\ Runs(B, r, c, b, q, d, row, x) /\ Stands(B, r, c, b, q, d, row, x)
  BY <1>1, RankParts DEF Idle, DenseInv
<1>3. /\ PlaceLaw(b, q, c, x) /\ Barriers(b, B, row, events[r], groups[r])
      /\ BarrierLaw(b, row)
      /\ x = cta[r][c] /\ x = row[c] /\ Located(x) /\ AllLocated(row)
      /\ q \in Nat /\ q >= 1 /\ q <= Len(NewTokens) /\ b = build /\ d \in Nat
      /\ FirstOf(b, q, d) <= x.step /\ x.step < FirstOf(b, q, d + 1)
      /\ BankLaw(b, B, x, bank[r][c])
  BY <1>1, <1>2 DEF Stands, Runs, AllBanked
<1>4. PICK p : p = x.step
  OBVIOUS
<1>5. /\ x.at = "task" /\ x.stage = 0 /\ p \in Nat /\ p # 0 /\ b.embed /\ x.held = Nothing
      /\ c \in Nat /\ c % Grid = c /\ HeadStage \in Nat /\ HeadStage >= 11
      /\ 1 \in DenseStage /\ 0 \in DenseStage
  <2>1. x.at = "task" /\ x.stage = 0 /\ p \in Nat /\ p # 0 /\ b.embed
    BY <1>1, <1>3, <1>4 DEF Located
  <2>2. HeadStage \in Nat /\ HeadStage >= 11 /\ Grid \in Nat /\ Grid >= 1
    BY DenseConstants
  <2>3. x.held = Nothing
    BY <1>3, <2>1, <2>2 DEF PlaceLaw
  <2>4. c \in Nat /\ c % Grid = c
    BY <2>2 DEF Cta
  <2>5. QED
    BY <2>1, <2>2, <2>3, <2>4 DEF DenseStage
<1>6. PICK z : z = Place("task", p, 1, c, Nothing)
  OBVIOUS
<1>7. z \in PlaceSet
  <2>1. Nothing \in Sound
    BY <1>3, <1>5, SoundValue
  <2>2. QED
    BY <1>5, <1>6, <2>1, PlaceIntro DEF Where, Place
<1>8. cta' = SetTo(cta, r, c, z)
  <2>1. PICK C : C = cta /\ Placing(C) /\ x = C[r][c]
    BY <1>1, <1>3 DEF DenseType, Placing
  <2>2. cta' = SetTask(SetStage(C, r, c, 1), r, c, c)
    BY <2>1 DEF SetTask, SetStage, SkipPrologue
  <2>3. QED
    BY <1>4, <1>5, <1>6, <2>1, <2>2, StageTaskSet
<1>9. UNCHANGED <<build, host, iteration, stream, bank, memory, tokens, groups, arrived,
                  packets, exchange>>
  BY DEF SkipPrologue, hostVars, linkVars
<1>10. z.at = "task" /\ z.step = p /\ z.stage = 1 /\ z.task = c /\ z.held = Nothing
  BY <1>6 DEF Place
<1>11. GoesTo(r, c, z) /\ \E row2 : Stepped(r, c, row, row2, x, z)
  BY <1>2, <1>7, <1>8, <1>9, <1>10, StepTo DEF Idle
<1>12. PICK row2 : Stepped(r, c, row, row2, x, z)
  BY <1>11
<1>13. /\ row2 = Places'[r] /\ Moves(row, row2, c) /\ row2[c] = z
       /\ AllLocated(row2) /\ Located(z) /\ Done' = Done
       /\ \A s \in Rank : s # r => Places'[s] = Places[s]
  BY <1>12 DEF Stepped
<1>14. Skipping(x, z) /\ Bypassing(c, x, z)
  BY <1>4, <1>5, <1>10 DEF Skipping, Bypassing
<1>15. PlaceLaw(b, q, c, z)
  <2>1. z.held = IF z.stage = HeadStage /\ z.task > c
                 THEN Value(q, z.step, HeadStage) ELSE Nothing
    BY <1>5, <1>10
  <2>2. z.task % Grid = c /\ z.task >= c
    BY <1>5, <1>10
  <2>3. QED
    BY <1>10, <2>1, <2>2, TaskPlace
<1>16. /\ SameHeadAt(x, z) /\ QuietMove(b, row, c, x, z) /\ PartialStays(x, z)
       /\ SentStep(c, x, z) /\ KernelFits(b, q, d, z) /\ x.at # "away"
  <2>1. SameHeadAt(x, z)
    BY <1>4, <1>5, <1>10 DEF SameHeadAt, Scored, Deciding
  <2>2. QuietMove(b, row, c, x, z)
    <3>1. x.step # 0
      BY <1>4, <1>5
    <3>2. Embeds(b, row, x.step)
      BY <1>3, <1>5, <3>1, BypassSide
    <3>3. QED
      BY <1>5, <1>14, <3>1, <3>2 DEF QuietMove
  <2>3. PartialStays(x, z)
    BY <1>5, <1>10 DEF PartialStays
  <2>4. SentStep(c, x, z)
    BY <1>14 DEF SentStep
  <2>5. KernelFits(b, q, d, z) /\ x.at # "away"
    BY <1>3, <1>4, <1>5, <1>10 DEF KernelFits
  <2>6. QED
    BY <2>1, <2>2, <2>3, <2>4, <2>5
<1>17. PICK ev, ev2 : ev = events[r] /\ ev2 = [ev EXCEPT ![0] = @ + 1]
  OBVIOUS
<1>18. /\ ev \in [DenseStage -> Nat] /\ ev2 \in [DenseStage -> Nat]
       /\ events' \in [Rank -> [DenseStage -> Nat]] /\ events'[r] = ev2
       /\ \A s \in Rank : s # r => events'[s] = events[s]
  <2>1. events \in [Rank -> [DenseStage -> Nat]]
    BY <1>1 DEF DenseType
  <2>2. ev \in [DenseStage -> Nat]
    BY <1>17, <2>1
  <2>3. ev2 \in [DenseStage -> Nat]
    BY <1>5, <1>17, <2>2
  <2>4. events' = [events EXCEPT ![r][0] = @ + 1]
    BY DEF SkipPrologue
  <2>5. events' = [events EXCEPT ![r] = ev2]
    BY <1>17, <2>4
  <2>6. QED
    BY <2>1, <2>2, <2>3, <2>5
<1>19. Barriers(b, B, row2, events'[r], groups'[r])
  <2>1. PICK gr : gr = groups[r]
    OBVIOUS
  <2>2. /\ Barriers(b, B, row, ev, gr) /\ Skipping(row[c], row2[c]) /\ row[c].step # 0
    BY <1>3, <1>4, <1>5, <1>13, <1>14, <1>17, <2>1
  <2>3. Barriers(b, B, row2, ev2, gr)
    <3>1. Upped(ev, ev2)
      BY <1>17 DEF Upped
    <3>2. QED
      BY <1>2, <1>3, <1>5, <1>13, <1>18, <2>2, <3>1, SkipCounts
  <2>4. QED
    BY <1>9, <1>18, <2>1, <2>3
<1>20. BankLaw(b, B, z, bank'[r][c])
  <2>1. PICK k : k = bank[r][c] /\ BankLaw(b, B, x, k)
    BY <1>3
  <2>2. k[1].stage = 1
    BY <1>4, <1>5, <2>1 DEF BankLaw, Idle
  <2>3. BankLaw(b, B, z, k)
    BY <1>10, <2>2 DEF BankLaw
  <2>4. QED
    BY <1>9, <2>1, <2>3
<1>21. DenseType'
  BY <1>1, <1>9, <1>11, <1>18 DEF DenseType, GoesTo
<1>22. Others(r) /\ Moves(bank[r], bank'[r], c)
  BY <1>9, <1>18 DEF Others, Moves
<1>23. QED
  BY <1>2, <1>9, <1>13, <1>15, <1>16, <1>19, <1>20, <1>21, <1>22, MoveFinish

-----------------------------------------------------------------------------
(***************************************************************************)
(* The stream's steps: none of a rank's CTAs runs before or after.         *)
(***************************************************************************)
\* A place of a CTA at rest: it may be given its first task.
Rests(c, x, y) ==
    /\ x.at \in Idle /\ y.at \in Idle \cup {"task"} /\ y.step = x.step
    /\ x.stage = 0 /\ y.stage = 0 /\ x.task = 0 /\ y.task <= c

\* All of a row at rest.
RowRests(row, row2) == \A c \in Cta : Rests(c, row[c], row2[c])

LEMMA RestMoves ==
    ASSUME NEW b, NEW row, NEW c \in Cta, NEW x, NEW y, Rests(c, x, y)
    PROVE  /\ Inner(x, y) /\ SameHeadAt(x, y) /\ QuietMove(b, row, c, x, y)
           /\ PartialStays(x, y) /\ Resting(c, x, y) /\ x.at # "reduce"
<1>1. HeadStage # 0 /\ HeadStage \in Nat
  BY DenseConstants
<1>2. Inner(x, y)
  BY DEF Rests, Inner, Idle
<1>3. Scored(x) = x.step + 0 /\ Scored(y) = y.step + 0
  BY <1>1 DEF Rests, Scored
<1>4. SameHeadAt(x, y)
  BY <1>3 DEF Rests, SameHeadAt, Idle, Deciding
<1>5. Resting(c, x, y)
  BY DEF Rests, Resting
<1>6. PartialStays(x, y)
  BY <1>1 DEF Rests, PartialStays
<1>7. QED
  BY <1>2, <1>4, <1>5, <1>6 DEF QuietMove, Rests, Idle

LEMMA RestSent ==
    ASSUME NEW row, NEW row2, AllLocated(row), AllLocated(row2), RowRests(row, row2)
    PROVE  SameSent(row, row2)
<1>1. ASSUME NEW g \in DenseStage, Reduces(g), NEW t \in 0 .. (XTiles - 1)
      PROVE  Sent(row2[t % Grid], g, t) = Sent(row[t % Grid], g, t)
  <2>1. PICK c : c = t % Grid
    OBVIOUS
  <2>2. c \in Cta
    BY <2>1, Owner, DenseConstants
  <2>3. PICK x, y : x = row[c] /\ y = row2[c]
    OBVIOUS
  <2>4. Located(x) /\ Located(y) /\ Rests(c, x, y)
    BY <2>2, <2>3 DEF AllLocated, RowRests
  <2>5. Resting(c, x, y) /\ x.at # "reduce"
    BY <2>2, <2>4, RestMoves
  <2>6. Sent(y, g, t) = Sent(x, g, t)
    BY <1>1, <2>1, <2>2, <2>4, <2>5, SentMove
  <2>7. QED
    BY <2>1, <2>3, <2>6
<1>2. QED
  BY <1>1 DEF SameSent

\* What a row at rest keeps of its rank's laws.
LEMMA RestRank ==
    ASSUME NEW b, NEW q, NEW B \in Nat, NEW d, NEW s, NEW d2, NEW s2, NEW row, NEW row2,
           NEW ev, NEW gr, NEW n, NEW bk, NEW bk2, NEW m, NEW tok, NEW tok2,
           RankLaw(b, q, B, d, s, row, ev, gr, n, bk, m, tok),
           AllLocated(row), AllLocated(row2), RowRests(row, row2),
           AllPlaced(b, q, row2), KernelLaw(b, q, d2, s2, row2),
           AllBanked(b, B, row2, bk2), TokenLaw(q, d2, row2, tok2)
    PROVE  /\ RankLaw(b, q, B, d2, s2, row2, ev, gr, n, bk2, m, tok2)
           /\ SamePast(row, row2) /\ SameSent(row, row2)
<1>1. \A c \in Cta : /\ Inner(row[c], row2[c]) /\ SameHeadAt(row[c], row2[c])
                     /\ QuietMove(b, row, c, row[c], row2[c])
                     /\ PartialStays(row[c], row2[c])
  BY RestMoves DEF RowRests
<1>2. /\ Barriers(b, B, row, ev, gr) /\ HeadLaw(B, row, n) /\ MemoryLaw(b, q, row, m)
  BY RankForm
<1>3. SamePast(row, row2) /\ HeadLaw(B, row2, n)
  <2>1. \A c \in Cta : SameHeadAt(row[c], row2[c])
    BY <1>1
  <2>2. SamePast(row, row2) /\ \A C, k : HeadLaw(C, row, k) => HeadLaw(C, row2, k)
    BY <2>1, SameHead
  <2>3. QED
    BY <1>2, <2>2
<1>4. Barriers(b, B, row2, ev, gr)
  <2>1. \A c \in Cta : Inner(row[c], row2[c])
    BY <1>1
  <2>2. QED
    BY <1>2, <2>1, InnerBarriers
<1>5. MemoryLaw(b, q, row2, m)
  <2>1. /\ \A c \in Cta : QuietMove(b, row, c, row[c], row2[c])
        /\ \A c \in Cta : PartialStays(row[c], row2[c])
        /\ b.embed => SamePast(row, row2)
    BY <1>1, <1>3
  <2>2. QED
    BY <1>2, <2>1, MemoryQuiet
<1>6. SameSent(row, row2)
  BY RestSent
<1>7. QED
  BY <1>3, <1>4, <1>5, <1>6, RankForm

LEMMA RestFinish ==
    ASSUME NEW B \in Nat, Serves(B), Serving, NEW r \in Rank, NEW b, NEW q, NEW row, NEW row2,
           b = build, q = host.request, row = Places[r], row2 = Places'[r],
           AllLocated(row), AllLocated(row2), RowRests(row, row2),
           \A s \in Rank : s # r => Places'[s] = Places[s],
           UNCHANGED <<build, host, iteration, memory, events, groups, arrived, packets,
                       exchange>>,
           Others(r), NEW d2, d2 = Done'[r], NEW s2 \in BOOLEAN, s2 <=> stream'[r] # <<>>,
           StreamLaw(b, q, B, Issued(host.next, r), stream'[r], iteration[r]),
           AllPlaced(b, q, row2), KernelLaw(b, q, d2, s2, row2),
           AllBanked(b, B, row2, bank'[r]), TokenLaw(q, d2, row2, tokens'[r]), DenseType'
    PROVE  DenseInv'
<1>1. RankHolds(B, r) /\ Apart(q, B, Places, packets, exchange)
  BY ServesForm
<1>2. PICK d, ev, gr, n, bk, bk2, m, tok, tok2 :
         /\ d = Done[r] /\ ev = events[r] /\ gr = groups[r] /\ n = arrived[r] /\ bk = bank[r]
         /\ bk2 = bank'[r] /\ m = memory[r] /\ tok = tokens[r] /\ tok2 = tokens'[r]
  OBVIOUS
<1>3. PICK s \in BOOLEAN : s <=> stream[r] # <<>>
  OBVIOUS
<1>4. RankLaw(b, q, B, d, s, row, ev, gr, n, bk, m, tok)
  BY <1>1, <1>2, <1>3 DEF RankHolds, RankLaw, KernelLaw
<1>5. AllBanked(b, B, row2, bk2) /\ TokenLaw(q, d2, row2, tok2)
  BY <1>2
<1>6. /\ RankLaw(b, q, B, d2, s2, row2, ev, gr, n, bk2, m, tok2)
      /\ SamePast(row, row2) /\ SameSent(row, row2)
  BY <1>4, <1>5, RestRank
<1>7. RankLaw(build', host'.request, B, Done'[r], stream'[r] # <<>>, Places'[r], events'[r],
              groups'[r], arrived'[r], bank'[r], memory'[r], tokens'[r])
  BY <1>2, <1>6 DEF RankLaw, KernelLaw
<1>8. StreamLaw(build', host'.request, B, Issued(host'.next, r), stream'[r], iteration'[r])
  OBVIOUS
<1>9. RankHolds(B, r)'
  BY <1>7, <1>8 DEF RankHolds
<1>10. Apart(q, B, Places', packets', exchange')
  <2>1. PICK P, P2, pk, ex : P = Places /\ P2 = Places' /\ pk = packets /\ ex = exchange
    OBVIOUS
  <2>2. /\ \A z \in Rank : z # r => P2[z] = P[z]
        /\ SamePast(P[r], P2[r]) /\ SameSent(P[r], P2[r]) /\ Apart(q, B, P, pk, ex)
    BY <1>1, <1>6, <2>1
  <2>3. Apart(q, B, P2, pk, ex)
    BY <2>2, ApartQuiet
  <2>4. QED
    BY <2>1, <2>3
<1>11. QED
  BY <1>9, <1>10, Assemble

\* A rank whose stream has a command.
Drives(B, r, b, q, d, row) ==
    /\ B \in Nat /\ Serves(B) /\ Serving /\ DenseType
    /\ b = build /\ q = host.request /\ d = Done[r] /\ row = Places[r]
    /\ b \in [embed : BOOLEAN, groups : BOOLEAN, loop : BOOLEAN]
    /\ q \in Nat /\ q >= 1 /\ q <= Len(NewTokens) /\ d \in Nat /\ d + 1 <= Rounds(b, q)
    /\ AllLocated(row) /\ \A c \in Cta : row[c].at = cta[r][c].at
    /\ stream[r] # <<>> /\ Kernel(r) = Command(b, q, B, d)
    /\ Kernel(r).request = q /\ Kernel(r).first = FirstOf(b, q, d)
    /\ Kernel(r).count = FirstOf(b, q, d + 1) - FirstOf(b, q, d)
    /\ Kernel(r).iteration = B + FirstOf(b, q, d)
    /\ FirstOf(b, q, d) \in Nat /\ FirstOf(b, q, d + 1) \in Nat
    /\ AllPlaced(b, q, row) /\ KernelLaw(b, q, d, TRUE, row)
    /\ AllBanked(b, B, row, bank[r]) /\ TokenLaw(q, d, row, tokens[r])
    /\ StreamLaw(b, q, B, Issued(host.next, r), stream[r], iteration[r])
    /\ Issued(host.next, r) \in Nat /\ d + Len(stream[r]) = Issued(host.next, r)

LEMMA Driven ==
    ASSUME DenseInv, NEW r \in Rank,
           stream[r] # <<>> \/ \E c \in Cta : cta[r][c].at # "away"
    PROVE  \E B, b, q, d, row : Drives(B, r, b, q, d, row)
<1>1. Serving /\ DenseType
  BY DEF DenseInv
<1>2. PICK B \in Nat : Serves(B)
  BY <1>1 DEF DenseInv
<1>3. RankHolds(B, r)
  BY <1>2, ServesForm
<1>4. PICK b, q, d, row : b = build /\ q = host.request /\ d = Done[r] /\ row = Places[r]
  OBVIOUS
<1>5. /\ b \in [embed : BOOLEAN, groups : BOOLEAN, loop : BOOLEAN]
      /\ q \in Nat /\ q >= 1 /\ q <= Len(NewTokens)
  BY <1>1, <1>4, BuildType DEF DenseType, Serving
<1>6. AllLocated(row) /\ \A c \in Cta : row[c].at = cta[r][c].at
  BY <1>1, <1>2, <1>3, <1>4, PlacesTyped
<1>7. PICK s \in BOOLEAN : s <=> stream[r] # <<>>
  OBVIOUS
<1>8. RankLaw(b, q, B, d, s, row, events[r], groups[r], arrived[r], bank[r], memory[r],
              tokens[r])
  BY <1>3, <1>4, <1>7 DEF RankHolds, RankLaw, KernelLaw
<1>9. KernelLaw(b, q, d, s, row) /\ AllPlaced(b, q, row) /\ AllBanked(b, B, row, bank[r])
      /\ TokenLaw(q, d, row, tokens[r])
  BY <1>8, RankForm
<1>10. s
  BY <1>6, <1>7, <1>9 DEF KernelLaw
<1>11. KernelLaw(b, q, d, TRUE, row)
  BY <1>9 DEF KernelLaw
<1>12. /\ d \in Nat /\ stream[r] # <<>> /\ d + 1 <= Rounds(b, q)
       /\ Kernel(r) = Command(b, q, B, d) /\ Issued(host.next, r) \in Nat
       /\ d + Len(stream[r]) = Issued(host.next, r)
  BY <1>1, <1>2, <1>3, <1>4, <1>7, <1>10, StreamFacts
<1>13. FirstOf(b, q, d) \in Nat /\ FirstOf(b, q, d + 1) \in Nat
  BY <1>5, <1>12, FirstFacts
<1>14. /\ Kernel(r).request = q /\ Kernel(r).first = FirstOf(b, q, d)
       /\ Kernel(r).count = FirstOf(b, q, d + 1) - FirstOf(b, q, d)
       /\ Kernel(r).iteration = B + FirstOf(b, q, d)
  BY <1>12 DEF Command
<1>15. StreamLaw(b, q, B, Issued(host.next, r), stream[r], iteration[r])
  BY <1>3, <1>4 DEF RankHolds
<1>16. Drives(B, r, b, q, d, row)
  BY <1>1, <1>2, <1>4, <1>5, <1>6, <1>9, <1>11, <1>12, <1>13, <1>14, <1>15 DEF Drives
<1>17. QED
  BY <1>16

\* The rows after a step of r alone.
LEMMA RowsGo ==
    ASSUME NEW r \in Rank, NEW b, NEW q, NEW d2, b = build, q = host.request, d2 = Done'[r],
           build' = build, host' = host,
           \A s \in Rank : s # r => cta'[s] = cta[s] /\ Done'[s] = Done[s]
    PROVE  /\ \A s \in Rank : s # r => Places'[s] = Places[s]
           /\ \A c \in Cta : Places'[r][c] =
                 [cta'[r][c] EXCEPT !.step = StepOf(b, q, d2, cta'[r][c])]
BY DEF Places

StepSet(x, p) == [x EXCEPT !.step = p]

LEMMA PlaceStep ==
    ASSUME NEW a, NEW p, NEW g, NEW t, NEW h, NEW x, x = Place(a, p, g, t, h), NEW u
    PROVE  StepSet(x, u) = Place(a, u, g, t, h)
<1>1. x = [at |-> a, step |-> p, stage |-> g, task |-> t, held |-> h]
  BY DEF Place
<1>2. [x EXCEPT !.step = u] = [at |-> a, step |-> u, stage |-> g, task |-> t, held |-> h]
  BY <1>1
<1>3. QED
  BY <1>2 DEF Place, StepSet

TailOf(S, r) == [S EXCEPT ![r] = Tail(@)]

\* The first command is done with: the rank has done one more.
LEMMA StreamTail ==
    ASSUME DenseType, NEW r \in Rank, NEW B, NEW b, NEW q, NEW d, NEW row,
           Drives(B, r, b, q, d, row), host' = host,
           stream' = TailOf(stream, r)
    PROVE  /\ stream' \in [Rank -> Seq(Command4)]
           /\ Done'[r] = d + 1
           /\ \A s \in Rank : s # r => Done'[s] = Done[s] /\ stream'[s] = stream[s]
           /\ StreamLaw(b, q, B, Issued(host.next, r), stream'[r], iteration[r])
<1>1. stream \in [Rank -> Seq(Command4)]
  BY DEF DenseType, Command4
<1>2. PICK s, i, n : s = stream[r] /\ i = Issued(host.next, r) /\ n = Len(s)
  OBVIOUS
<1>3. /\ s \in Seq(Command4) /\ s # <<>> /\ i \in Nat /\ d \in Nat /\ d + n = i
      /\ StreamLaw(b, q, B, i, s, iteration[r]) /\ d = Done[r]
  BY <1>1, <1>2 DEF Drives
<1>4. PICK s2 : s2 = Tail(s)
  OBVIOUS
<1>5. /\ s2 \in Seq(Command4) /\ Len(s2) = n - 1 /\ n \in Nat /\ n >= 1
      /\ \A j \in 1 .. (n - 1) : s2[j] = s[j + 1]
  BY <1>2, <1>3, <1>4
<1>6. /\ stream' \in [Rank -> Seq(Command4)] /\ stream'[r] = s2
      /\ \A z \in Rank : z # r => stream'[z] = stream[z]
  BY <1>1, <1>2, <1>4, <1>5 DEF TailOf
<1>7. Done'[r] = d + 1
  <2>1. Done'[r] = i - Len(s2)
    BY <1>2, <1>6 DEF Done
  <2>2. QED
    BY <1>3, <1>5, <2>1
<1>8. \A z \in Rank : z # r => Done'[z] = Done[z]
  BY <1>6 DEF Done
<1>9. StreamLaw(b, q, B, i, s2, iteration[r])
  <2>1. ASSUME NEW j \in 1 .. Len(s2)
        PROVE  s2[j] = Command(b, q, B, i - Len(s2) + j - 1)
    <3>1. j + 1 \in 1 .. Len(s) /\ s2[j] = s[j + 1] /\ j \in Nat
      BY <1>2, <1>5
    <3>2. s[j + 1] = Command(b, q, B, i - Len(s) + (j + 1) - 1)
      BY <1>3, <3>1 DEF StreamLaw
    <3>3. i - Len(s) + (j + 1) - 1 = i - Len(s2) + j - 1
      BY <1>2, <1>3, <1>5, <3>1
    <3>4. QED
      BY <3>1, <3>2, <3>3
  <2>2. Len(s2) <= i
    BY <1>3, <1>5
  <2>3. QED
    BY <1>3, <2>1, <2>2 DEF StreamLaw
<1>10. QED
  BY <1>2, <1>6, <1>7, <1>8, <1>9

\* A row whose CTAs are all away at step e.
RowAway(row, e) == \A c \in Cta : row[c] = Place("away", e, 0, 0, Nothing)

LEMMA AwayRow ==
    ASSUME NEW row, NEW e \in Nat, RowAway(row, e), NEW b, NEW q, NEW B, NEW d, NEW s, NEW bk,
           e = FirstOf(b, q, d)
    PROVE  /\ AllLocated(row) /\ AllPlaced(b, q, row) /\ KernelLaw(b, q, d, s, row)
           /\ AllBanked(b, B, row, bk)
<1>1. \A c \in Cta : /\ row[c].at = "away" /\ row[c].step = e /\ row[c].stage = 0
                     /\ row[c].task = 0 /\ row[c].held = Nothing
  BY DEF RowAway, Place
<1>2. 0 \in DenseStage
  BY DenseConstants DEF DenseStage
<1>3. AllLocated(row)
  BY <1>1, <1>2 DEF AllLocated, Located
<1>4. AllPlaced(b, q, row)
  BY <1>1 DEF AllPlaced, PlaceLaw, Idle, Deciding
<1>5. KernelLaw(b, q, d, s, row)
  BY <1>1 DEF KernelLaw, Idle
<1>6. AllBanked(b, B, row, bk)
  BY <1>1 DEF AllBanked, BankLaw, Idle
<1>7. QED
  BY <1>3, <1>4, <1>5, <1>6

LEMMA AwayPlace ==
    /\ Away = Place("away", 0, 0, 0, Nothing) /\ Away \in PlaceSet /\ Nothing \in Sound
    /\ 0 \in DenseStage
<1>1. Nothing \in Sound
  BY DEF Sound, Val, Nothing, Value
<1>2. 0 \in DenseStage
  BY DenseConstants DEF DenseStage
<1>3. QED
  BY <1>1, <1>2, PlaceIntro DEF Away, Where, Place

\* The tokens that stand, when a rank at rest is done with one more command.
LEMMA RestTokens ==
    ASSUME NEW q, NEW d, NEW d2, NEW row, NEW row2, NEW tok, TokenLaw(q, d, row, tok),
           RowRests(row, row2), d2 >= 1 => d >= 1
    PROVE  TokenLaw(q, d2, row2, tok)
<1>1. \A c \in Cta : SameHeadAt(row[c], row2[c])
  BY RestMoves DEF RowRests
<1>2. SamePast(row, row2)
  BY <1>1, SameHead
<1>3. TokenLaw(q, d, row2, tok)
  BY <1>2, SameTokens
<1>4. QED
  BY <1>3 DEF TokenLaw

LEMMA EndKeeps ==
    ASSUME DenseInv, NEW r \in Rank, EndKernel(r)
    PROVE  DenseInv'
<1>1. DenseType /\ (\A c \in Cta : cta[r][c].at = "done") /\ 0 \in Cta
  BY DenseConstants DEF EndKernel, DenseInv
<1>2. PICK B, b, q, d, row : Drives(B, r, b, q, d, row)
  BY <1>1, Driven
<1>3. /\ B \in Nat /\ Serves(B) /\ Serving /\ b = build /\ q = host.request /\ d = Done[r]
      /\ row = Places[r] /\ AllLocated(row) /\ d \in Nat /\ AllPlaced(b, q, row)
      /\ KernelLaw(b, q, d, TRUE, row) /\ TokenLaw(q, d, row, tokens[r])
      /\ \A c \in Cta : row[c].at = "done"
  BY <1>1, <1>2 DEF Drives
<1>4. PICK e \in Nat : e = FirstOf(b, q, d + 1)
  BY <1>2 DEF Drives
<1>5. d >= 1 /\ \A c \in Cta : row[c].step = e
  BY <1>1, <1>3, <1>4 DEF KernelLaw
<1>6. \A c \in Cta : row[c].stage = 0 /\ row[c].task = 0
  BY <1>3 DEF AllPlaced, PlaceLaw, Idle
<1>7. UNCHANGED <<build, host, iteration, bank, memory, tokens, events, groups, arrived,
                  packets, exchange>>
  BY DEF EndKernel, hostVars, counterVars, linkVars
<1>8. stream' = TailOf(stream, r)
  BY DEF EndKernel, TailOf
<1>9. /\ stream' \in [Rank -> Seq(Command4)] /\ Done'[r] = d + 1
      /\ \A s \in Rank : s # r => Done'[s] = Done[s] /\ stream'[s] = stream[s]
      /\ StreamLaw(b, q, B, Issued(host.next, r), stream'[r], iteration[r])
  BY <1>1, <1>2, <1>7, <1>8, StreamTail
<1>10. /\ cta' \in [Rank -> [Cta -> PlaceSet]]
       /\ \A c \in Cta : cta'[r][c] = Place("away", 0, 0, 0, Nothing)
       /\ \A s \in Rank : s # r => cta'[s] = cta[s]
  <2>1. PICK K : K = Fill(Cta, Away)
    OBVIOUS
  <2>2. K \in [Cta -> PlaceSet] /\ \A c \in Cta : K[c] = Place("away", 0, 0, 0, Nothing)
    BY <2>1, AwayPlace DEF Fill
  <2>3. cta' = [cta EXCEPT ![r] = K] /\ cta \in [Rank -> [Cta -> PlaceSet]]
    BY <1>1, <2>1 DEF EndKernel, DenseType
  <2>4. QED
    BY <2>2, <2>3
<1>11. PICK d2, row2 : d2 = d + 1 /\ row2 = Places'[r]
  OBVIOUS
<1>12. /\ \A s \in Rank : s # r => Places'[s] = Places[s]
       /\ \A c \in Cta : row2[c] = [cta'[r][c] EXCEPT !.step = StepOf(b, q, d2, cta'[r][c])]
  BY <1>3, <1>7, <1>9, <1>10, <1>11, RowsGo
<1>13. RowAway(row2, e)
  <2>1. ASSUME NEW c \in Cta PROVE row2[c] = Place("away", e, 0, 0, Nothing)
    <3>1. PICK x : x = cta'[r][c]
      OBVIOUS
    <3>2. x = Place("away", 0, 0, 0, Nothing)
      BY <1>10, <3>1
    <3>3. StepOf(b, q, d2, x) = e
      BY <1>4, <1>11, <3>2 DEF StepOf, Place
    <3>4. row2[c] = StepSet(x, e)
      BY <1>12, <3>1, <3>3 DEF StepSet
    <3>5. QED
      BY <3>2, <3>4, PlaceStep
  <2>2. QED
    BY <2>1 DEF RowAway
<1>14. /\ AllLocated(row2) /\ AllPlaced(b, q, row2) /\ AllBanked(b, B, row2, bank[r])
       /\ \A s : KernelLaw(b, q, d2, s, row2)
  BY <1>4, <1>11, <1>13, AwayRow
<1>15. RowRests(row, row2)
  <2>1. \A c \in Cta : row2[c].at = "away" /\ row2[c].step = e /\ row2[c].stage = 0
                       /\ row2[c].task = 0
    BY <1>13 DEF RowAway, Place
  <2>2. \A c \in Cta : 0 <= c
    BY DenseConstants DEF Cta
  <2>3. QED
    BY <1>3, <1>5, <1>6, <2>1, <2>2 DEF RowRests, Rests, Idle
<1>16. TokenLaw(q, d2, row2, tokens[r])
  BY <1>3, <1>5, <1>15, RestTokens
<1>17. DenseType'
  BY <1>1, <1>7, <1>9, <1>10 DEF DenseType, Command4
<1>18. Others(r)
  BY <1>7, <1>9 DEF Others
<1>19. PICK s2 \in BOOLEAN : s2 <=> stream'[r] # <<>>
  OBVIOUS
<1>20. /\ KernelLaw(b, q, d2, s2, row2) /\ AllBanked(b, B, row2, bank'[r])
       /\ TokenLaw(q, d2, row2, tokens'[r]) /\ d2 = Done'[r]
  BY <1>7, <1>9, <1>11, <1>14, <1>16
<1>21. QED
  BY <1>3, <1>7, <1>9, <1>11, <1>12, <1>14, <1>15, <1>17, <1>18, <1>19, <1>20, RestFinish

LEMMA CopyKeeps ==
    ASSUME DenseInv, NEW r \in Rank, CopyPrompt(r)
    PROVE  DenseInv'
<1>1. DenseType /\ stream[r] # <<>> /\ Kernel(r).count = 0
  BY DEF CopyPrompt, DenseInv
<1>2. PICK B, b, q, d, row : Drives(B, r, b, q, d, row)
  BY <1>1, Driven
<1>3. /\ B \in Nat /\ Serves(B) /\ Serving /\ b = build /\ q = host.request /\ d = Done[r]
      /\ row = Places[r] /\ AllLocated(row) /\ d \in Nat /\ AllPlaced(b, q, row)
      /\ KernelLaw(b, q, d, TRUE, row) /\ TokenLaw(q, d, row, tokens[r])
      /\ AllBanked(b, B, row, bank[r]) /\ Kernel(r).request = q
      /\ q \in Nat /\ q >= 1 /\ q <= Len(NewTokens)
      /\ \A c \in Cta : row[c].at = cta[r][c].at
  BY <1>2 DEF Drives
<1>4. d = 0
  <2>1. PICK f, e : f = FirstOf(b, q, d) /\ e = FirstOf(b, q, d + 1)
    OBVIOUS
  <2>2. f \in Nat /\ e \in Nat /\ e - f = 0
    BY <1>1, <1>2, <2>1 DEF Drives
  <2>3. d >= 1 => f < e
    BY <1>2, <1>3, <2>1, FirstFacts DEF Drives
  <2>4. QED
    BY <1>3, <2>2, <2>3
<1>5. \A c \in Cta : row[c].at = "away" /\ cta[r][c].at = "away"
  BY <1>3, <1>4 DEF KernelLaw
<1>6. FirstOf(b, q, 0) = 0 /\ FirstOf(b, q, 1) = 0
  BY <1>2, <1>3, FirstFacts DEF Drives
<1>7. UNCHANGED <<build, host, iteration, cta, bank, memory, events, groups, arrived,
                  packets, exchange>>
  BY DEF CopyPrompt, hostVars, counterVars, linkVars
<1>8. stream' = TailOf(stream, r)
  BY DEF CopyPrompt, TailOf
<1>9. /\ stream' \in [Rank -> Seq(Command4)] /\ Done'[r] = d + 1
      /\ \A s \in Rank : s # r => Done'[s] = Done[s] /\ stream'[s] = stream[s]
      /\ StreamLaw(b, q, B, Issued(host.next, r), stream'[r], iteration[r])
  BY <1>1, <1>2, <1>7, <1>8, StreamTail
<1>10. PICK d2, row2 : d2 = 1 /\ row2 = Places'[r]
  OBVIOUS
<1>11. d2 = Done'[r]
  BY <1>4, <1>9, <1>10
<1>12. /\ \A s \in Rank : s # r => Places'[s] = Places[s]
       /\ \A c \in Cta : row2[c] = [cta'[r][c] EXCEPT !.step = StepOf(b, q, d2, cta'[r][c])]
  BY <1>3, <1>7, <1>9, <1>10, <1>11, RowsGo
<1>13. \A c \in Cta : row2[c] = row[c]
  <2>1. TAKE c \in Cta
  <2>2. PICK x : x = cta[r][c]
    OBVIOUS
  <2>3. x.at = "away" /\ x = cta'[r][c]
    BY <1>5, <1>7, <2>2
  <2>4. StepOf(b, q, d2, x) = 0 /\ StepOf(b, q, d, x) = 0
    BY <1>4, <1>6, <1>10, <2>3 DEF StepOf
  <2>5. row2[c] = [x EXCEPT !.step = 0]
    BY <1>12, <2>3, <2>4
  <2>6. row[c] = [x EXCEPT !.step = StepOf(b, q, d, x)]
    BY <1>3, <2>2 DEF Places
  <2>7. QED
    BY <2>4, <2>5, <2>6
<1>14. \A c \in Cta : /\ row[c].at = "away" /\ row[c].step = 0 /\ row[c].stage = 0
                      /\ row[c].task = 0
  <2>1. \A c \in Cta : row[c].step = 0
    BY <1>3, <1>4, <1>5, <1>6 DEF KernelLaw
  <2>2. \A c \in Cta : row[c].stage = 0 /\ row[c].task = 0
    BY <1>3, <1>5 DEF AllPlaced, PlaceLaw, Idle
  <2>3. QED
    BY <1>5, <2>1, <2>2
<1>15. /\ AllLocated(row2) /\ AllPlaced(b, q, row2) /\ AllBanked(b, B, row2, bank[r])
  BY <1>3, <1>13 DEF AllLocated, AllPlaced, AllBanked
<1>16. RowRests(row, row2)
  <2>1. \A c \in Cta : 0 <= c
    BY DenseConstants DEF Cta
  <2>2. QED
    BY <1>13, <1>14, <2>1 DEF RowRests, Rests, Idle
<1>17. PICK s2 \in BOOLEAN : s2 <=> stream'[r] # <<>>
  OBVIOUS
<1>18. KernelLaw(b, q, d2, s2, row2)
  BY <1>6, <1>10, <1>13, <1>14 DEF KernelLaw, Idle
<1>19. PICK tok, tok2 : /\ tok = tokens[r]
                        /\ tok2 = [p \in Position |->
                                     IF p < PromptLen THEN Token(q, p) ELSE tok[p]]
  OBVIOUS
<1>20. tok \in [Position -> Val] /\ tok2 \in [Position -> Val]
  <2>1. tok \in [Position -> Val]
    BY <1>1, <1>19 DEF DenseType
  <2>2. ASSUME NEW p \in Position PROVE Token(q, p) \in Val
    <3>1. p \in Nat /\ HeadStage \in Nat /\ 0 \in Nat
      BY PositionNat, DenseConstants
    <3>2. Value(q, p, 0) \in Val /\ Value(q, p, HeadStage) \in Val
      BY <1>3, <3>1, SoundValue
    <3>3. QED
      BY <3>2 DEF Token
  <2>3. QED
    BY <1>19, <2>1, <2>2
<1>21. /\ tokens' \in [Rank -> [Position -> Val]] /\ tokens'[r] = tok2
       /\ \A s \in Rank : s # r => tokens'[s] = tokens[s]
  <2>1. tokens' = [tokens EXCEPT ![r] = tok2]
    BY <1>3, <1>19 DEF CopyPrompt
  <2>2. tokens \in [Rank -> [Position -> Val]]
    BY <1>1 DEF DenseType
  <2>3. QED
    BY <1>20, <2>1, <2>2
<1>22. TokenLaw(q, d2, row2, tok2)
  <2>1. TokenLaw(q, d, row2, tok)
    BY <1>3, <1>16, <1>19, RestTokens
  <2>2. \A j \in 0 .. (PromptLen - 1) : j \in Position /\ j < PromptLen
    <3>1. 0 .. (PromptLen + NewTokens[q]) \in SUBSET Position /\ NewTokens[q] \in Nat
      BY <1>3, RequestFacts
    <3>2. QED
      BY <3>1, DenseConstants
  <2>3. \A j \in 0 .. (PromptLen - 1) : tok2[j] = Token(q, j)
    BY <1>19, <2>2
  <2>4. \A j \in Position : j >= PromptLen => tok2[j] = tok[j]
    BY <1>19, PositionNat, DenseConstants
  <2>5. QED
    BY <2>1, <2>3, <2>4 DEF TokenLaw
<1>23. DenseType'
  BY <1>1, <1>7, <1>9, <1>21 DEF DenseType, Command4
<1>24. Others(r)
  BY <1>7, <1>9, <1>21 DEF Others
<1>25. /\ AllBanked(b, B, row2, bank'[r]) /\ TokenLaw(q, d2, row2, tokens'[r])
  BY <1>7, <1>15, <1>21, <1>22
<1>26. QED
  BY <1>3, <1>7, <1>9, <1>10, <1>11, <1>12, <1>15, <1>16, <1>17, <1>18, <1>23, <1>24, <1>25,
     RestFinish

\* The operands a kernel starts with.
FirstBank(r) ==
    Fill(Cta, [parity \in 0 .. 1 |->
        IF parity = 1
        THEN (IF build.embed /\ Kernel(r).first # 0
              THEN Record(1, Kernel(r).first, Kernel(r).iteration + 1) ELSE NoRecord)
        ELSE NoRecord])

LEMMA StartKeeps ==
    ASSUME DenseInv, NEW r \in Rank, StartKernel(r)
    PROVE  DenseInv'
<1>1. /\ DenseType /\ stream[r] # <<>> /\ Kernel(r).count > 0
      /\ \A c \in Cta : cta[r][c].at = "away"
  BY DEF StartKernel, DenseInv
<1>2. PICK B, b, q, d, row : Drives(B, r, b, q, d, row)
  BY <1>1, Driven
<1>3. /\ B \in Nat /\ Serves(B) /\ Serving /\ b = build /\ q = host.request /\ d = Done[r]
      /\ row = Places[r] /\ AllLocated(row) /\ d \in Nat /\ AllPlaced(b, q, row)
      /\ KernelLaw(b, q, d, TRUE, row) /\ TokenLaw(q, d, row, tokens[r])
      /\ q \in Nat /\ q >= 1 /\ q <= Len(NewTokens) /\ stream[r] # <<>>
      /\ StreamLaw(b, q, B, Issued(host.next, r), stream[r], iteration[r])
      /\ \A c \in Cta : row[c].at = "away"
  BY <1>1, <1>2 DEF Drives
<1>4. PICK f \in Nat, e \in Nat : f = FirstOf(b, q, d) /\ e = FirstOf(b, q, d + 1)
  BY <1>2 DEF Drives
<1>5. f < e /\ d >= 1 /\ Kernel(r).first = f /\ Kernel(r).iteration = B + f
  <2>1. Kernel(r).count = e - f /\ Kernel(r).first = f /\ Kernel(r).iteration = B + f
    BY <1>2, <1>4 DEF Drives
  <2>2. f < e
    BY <1>1, <1>4, <2>1
  <2>3. d = 0 => f = 0 /\ e = 0
    BY <1>2, <1>3, <1>4, FirstFacts DEF Drives
  <2>4. QED
    BY <1>3, <2>1, <2>2, <2>3
<1>6. UNCHANGED <<build, host, iteration, stream, memory, tokens, events, groups, arrived,
                  packets, exchange>>
  BY DEF StartKernel, hostVars, counterVars, linkVars
<1>7. \A c \in Cta : row[c].step = f /\ row[c].stage = 0 /\ row[c].task = 0
  BY <1>3, <1>4 DEF AllPlaced, PlaceLaw, KernelLaw, Idle
<1>8. \A c \in Cta : c \in Nat /\ c % Grid = c
  BY DenseConstants DEF Cta
<1>9. \A c \in Cta : Place("task", f, 0, c, Nothing) \in PlaceSet
  BY <1>8, AwayPlace, PlaceIntro DEF Place, Where
<1>10. /\ cta' \in [Rank -> [Cta -> PlaceSet]]
       /\ \A c \in Cta : cta'[r][c] = Place("task", f, 0, c, Nothing)
       /\ \A s \in Rank : s # r => cta'[s] = cta[s]
  <2>1. PICK K : K = [c \in Cta |-> Place("task", f, 0, c, Nothing)]
    OBVIOUS
  <2>2. K \in [Cta -> PlaceSet] /\ \A c \in Cta : K[c] = Place("task", f, 0, c, Nothing)
    BY <1>9, <2>1
  <2>3. \A c : [Away EXCEPT !.at = "task", !.step = f, !.task = c]
                  = Place("task", f, 0, c, Nothing)
    <3>1. TAKE c
    <3>2. PICK x1, x2 : x1 = Place("task", 0, 0, 0, Nothing) /\ x2 = Place("task", f, 0, 0, Nothing)
      OBVIOUS
    <3>3. [Away EXCEPT !.at = "task"] = x1
      BY <3>2 DEF Away, Place
    <3>4. [x1 EXCEPT !.step = f] = x2
      BY <3>2 DEF Place
    <3>5. [x2 EXCEPT !.task = c] = Place("task", f, 0, c, Nothing)
      BY <3>2 DEF Place
    <3>6. QED
      BY <3>3, <3>4, <3>5
  <2>4. cta' = [cta EXCEPT ![r] = [c \in Cta |->
                   [Away EXCEPT !.at = "task", !.step = Kernel(r).first, !.task = c]]]
    BY DEF StartKernel
  <2>5. [c \in Cta |-> [Away EXCEPT !.at = "task", !.step = Kernel(r).first, !.task = c]] = K
    BY <1>5, <2>1, <2>3
  <2>6. cta' = [cta EXCEPT ![r] = K]
    BY <2>4, <2>5
  <2>7. cta \in [Rank -> [Cta -> PlaceSet]]
    BY <1>1 DEF DenseType
  <2>8. QED
    BY <2>2, <2>6, <2>7
<1>11. Done' = Done
  BY <1>6 DEF Done
<1>12. PICK row2 : row2 = Places'[r]
  OBVIOUS
<1>13. /\ \A s \in Rank : s # r => Places'[s] = Places[s]
       /\ \A c \in Cta : row2[c] = [cta'[r][c] EXCEPT !.step = StepOf(b, q, d, cta'[r][c])]
  BY <1>3, <1>6, <1>10, <1>11, <1>12, RowsGo
<1>14. \A c \in Cta : row2[c] = Place("task", f, 0, c, Nothing)
  <2>1. ASSUME NEW c \in Cta PROVE row2[c] = Place("task", f, 0, c, Nothing)
    <3>1. PICK x : x = cta'[r][c]
      OBVIOUS
    <3>2. x = Place("task", f, 0, c, Nothing)
      BY <1>10, <3>1
    <3>3. StepOf(b, q, d, x) = f
      BY <3>2 DEF StepOf, Place
    <3>4. row2[c] = StepSet(x, f)
      BY <1>13, <3>1, <3>3 DEF StepSet
    <3>5. QED
      BY <3>2, <3>4, PlaceStep
  <2>2. QED
    BY <2>1
<1>15. \A c \in Cta : /\ row2[c].at = "task" /\ row2[c].step = f /\ row2[c].stage = 0
                      /\ row2[c].task = c /\ row2[c].held = Nothing
  <2>1. TAKE c \in Cta
  <2>2. PICK z : z = row2[c] /\ z = Place("task", f, 0, c, Nothing)
    BY <1>14
  <2>3. z.at = "task" /\ z.step = f /\ z.stage = 0 /\ z.task = c /\ z.held = Nothing
    BY <2>2 DEF Place
  <2>4. QED
    BY <2>2, <2>3
<1>16. AllLocated(row2)
  BY <1>8, <1>15, AwayPlace DEF AllLocated, Located
<1>17. RowRests(row, row2)
  <2>1. \A c \in Cta : c <= c
    BY <1>8
  <2>2. QED
    BY <1>3, <1>7, <1>15, <2>1 DEF RowRests, Rests, Idle
<1>18. AllPlaced(b, q, row2)
  <2>1. ASSUME NEW c \in Cta PROVE PlaceLaw(b, q, c, row2[c])
    <3>1. PICK z : z = row2[c]
      OBVIOUS
    <3>2. /\ z.at = "task" /\ z.task % Grid = c /\ z.task >= c
          /\ z.held = IF z.stage = HeadStage /\ z.task > c
                      THEN Value(q, z.step, HeadStage) ELSE Nothing
      BY <1>8, <1>15, <3>1, DenseConstants
    <3>3. QED
      BY <3>1, <3>2, TaskPlace
  <2>2. QED
    BY <2>1 DEF AllPlaced
<1>19. KernelLaw(b, q, d, TRUE, row2)
  BY <1>4, <1>5, <1>15 DEF KernelLaw, Idle
<1>20. PICK v : v = IF b.embed /\ f # 0 THEN Record(1, f, B + f + 1) ELSE NoRecord
  OBVIOUS
<1>21. v \in RecordSet /\ NoRecord \in RecordSet
  <2>1. B + f + 1 \in Nat
    BY <1>3, <1>4
  <2>2. Record(1, f, B + f + 1) \in RecordSet /\ NoRecord \in RecordSet
    BY <1>4, <2>1 DEF Record, RecordSet, NoRecord
  <2>3. QED
    BY <1>20, <2>2
<1>22. PICK k : k = [parity \in 0 .. 1 |-> IF parity = 1 THEN v ELSE NoRecord]
  OBVIOUS
<1>23. k \in [0 .. 1 -> RecordSet] /\ k[1] = v
  BY <1>21, <1>22
<1>24. /\ bank' \in [Rank -> [Cta -> [0 .. 1 -> RecordSet]]]
       /\ \A c \in Cta : bank'[r][c] = k
       /\ \A s \in Rank : s # r => bank'[s] = bank[s]
  <2>1. FirstBank(r) = Fill(Cta, k)
    BY <1>3, <1>5, <1>20, <1>22 DEF FirstBank
  <2>2. bank' = [bank EXCEPT ![r] = FirstBank(r)]
    BY DEF StartKernel, FirstBank
  <2>3. PICK K : K = Fill(Cta, k)
    OBVIOUS
  <2>4. K \in [Cta -> [0 .. 1 -> RecordSet]] /\ \A c \in Cta : K[c] = k
    BY <1>23, <2>3 DEF Fill
  <2>5. bank \in [Rank -> [Cta -> [0 .. 1 -> RecordSet]]]
    BY <1>1 DEF DenseType
  <2>6. QED
    BY <2>1, <2>2, <2>3, <2>4, <2>5
<1>25. AllBanked(b, B, row2, bank'[r])
  <2>1. b.embed /\ f # 0 => k[1].stage = 1
    BY <1>20, <1>23 DEF Record
  <2>2. \A c \in Cta : BankLaw(b, B, row2[c], k)
    BY <1>15, <2>1 DEF BankLaw
  <2>3. QED
    BY <1>24, <2>2 DEF AllBanked
<1>26. TokenLaw(q, d, row2, tokens'[r])
  BY <1>3, <1>6, <1>17, RestTokens
<1>27. DenseType'
  BY <1>1, <1>6, <1>10, <1>24 DEF DenseType
<1>28. Others(r)
  BY <1>6, <1>24 DEF Others
<1>29. PICK s2 \in BOOLEAN : s2 <=> stream'[r] # <<>>
  OBVIOUS
<1>30. KernelLaw(b, q, d, s2, row2) /\ d = Done'[r]
       /\ StreamLaw(b, q, B, Issued(host.next, r), stream'[r], iteration[r])
  BY <1>3, <1>6, <1>11, <1>19, <1>29 DEF KernelLaw
<1>31. QED
  BY <1>3, <1>6, <1>12, <1>13, <1>16, <1>17, <1>18, <1>25, <1>26, <1>27, <1>28, <1>29, <1>30,
     RestFinish

-----------------------------------------------------------------------------
(***************************************************************************)
(* The commands of a request, round by round.                              *)
(***************************************************************************)
Msg == [rank : Nat, first : Nat, count : Nat]

MsgOf(b, q, r, k) ==
    [rank |-> r, first |-> FirstOf(b, q, k),
     count |-> FirstOf(b, q, k + 1) - FirstOf(b, q, k)]

\* The command at place n.
MsgAt(b, q, n) == MsgOf(b, q, (n - 1) % World, (n - 1) \div World)

\* s holds L rounds, from round k on.
Segment(b, q, k, L, s) ==
    /\ s \in Seq(Msg) /\ Len(s) = L * World
    /\ \A i \in Nat : 1 <= i /\ i <= L * World => s[i] = MsgAt(b, q, k * World + i)

LEMMA RoundAt ==
    ASSUME NEW k \in Nat, NEW m \in Nat
    PROVE  (k * World + m) \div World = k + (m \div World)
           /\ (k * World + m) % World = m % World
           /\ m \div World \in Nat /\ m % World \in Nat
<1>1. PICK w \in Nat \ {0} : w = World
  BY DenseConstants
<1>2. PICK a \in Nat, r \in 0 .. (w - 1) : a = m \div w /\ r = m % w /\ m = a * w + r
  BY <1>1, Division
<1>3. k * w + m = (k + a) * w + r
  BY <1>2
<1>4. k + a \in Nat
  BY <1>2
<1>5. ((k + a) * w + r) \div w = k + a /\ ((k + a) * w + r) % w = r
  BY <1>1, <1>2, <1>4, DivisionUnique
<1>6. QED
  BY <1>1, <1>2, <1>3, <1>5

LEMMA SegmentMsg ==
    ASSUME NEW b, NEW q, NEW k \in Nat, NEW i \in Nat, i >= 1
    PROVE  MsgAt(b, q, k * World + i) = MsgOf(b, q, (i - 1) % World, k + ((i - 1) \div World))
<1>1. PICK m \in Nat : m = i - 1
  OBVIOUS
<1>2. PICK p \in Nat : p = k * World
  BY DenseConstants
<1>3. p + i - 1 = p + m
  BY <1>1, <1>2
<1>4. (p + m) \div World = k + (m \div World) /\ (p + m) % World = m % World
  BY <1>2, RoundAt
<1>5. QED
  BY <1>1, <1>2, <1>3, <1>4 DEF MsgAt

LEMMA MsgTyped ==
    ASSUME NEW b \in [embed : BOOLEAN, groups : BOOLEAN, loop : BOOLEAN],
           NEW q \in Nat, q >= 1, q <= Len(NewTokens), NEW k \in Nat, k + 1 <= Rounds(b, q),
           NEW r \in Nat
    PROVE  MsgOf(b, q, r, k) \in Msg
<1>1. PICK f, e : f = FirstOf(b, q, k) /\ e = FirstOf(b, q, k + 1)
  OBVIOUS
<1>2. f \in Nat /\ e \in Nat /\ f <= e
  BY <1>1, FirstFacts
<1>3. e - f \in Nat
  BY <1>2
<1>4. QED
  BY <1>1, <1>2, <1>3 DEF MsgOf, Msg

\* One launch of all a round's steps per rank.
RoundOf(b, q, k) == [i \in 1 .. World |-> MsgOf(b, q, i - 1, k)]

LEMMA OneRound ==
    ASSUME NEW b \in [embed : BOOLEAN, groups : BOOLEAN, loop : BOOLEAN],
           NEW q \in Nat, q >= 1, q <= Len(NewTokens), NEW k \in Nat, k + 1 <= Rounds(b, q),
           NEW s, s = RoundOf(b, q, k)
    PROVE  Segment(b, q, k, 1, s)
<1>1. PICK w \in Nat : w = World /\ w >= 1
  BY DenseConstants
<1>2. \A i \in 1 .. w : MsgOf(b, q, i - 1, k) \in Msg
  <2>1. TAKE i \in 1 .. w
  <2>2. PICK m \in Nat : m = i - 1
    OBVIOUS
  <2>3. MsgOf(b, q, m, k) \in Msg
    BY <2>2, MsgTyped
  <2>4. QED
    BY <2>2, <2>3
<1>3. s = [i \in 1 .. w |-> MsgOf(b, q, i - 1, k)]
  BY <1>1 DEF RoundOf
<1>4. s \in Seq(Msg) /\ Len(s) = w
  BY <1>2, <1>3
<1>5. ASSUME NEW i \in Nat, 1 <= i, i <= w
      PROVE  s[i] = MsgAt(b, q, k * World + i)
  <2>1. s[i] = MsgOf(b, q, i - 1, k)
    BY <1>3, <1>5
  <2>2. (i - 1) % w = i - 1 /\ (i - 1) \div w = 0
    <3>1. i - 1 \in 0 .. (w - 1) /\ w \in Nat \ {0} /\ 0 \in Nat /\ 0 * w + (i - 1) = i - 1
      BY <1>1, <1>5
    <3>2. QED
      BY <3>1, DivisionUnique
  <2>3. MsgAt(b, q, k * World + i) = MsgOf(b, q, (i - 1) % World, k + ((i - 1) \div World))
    BY <1>5, SegmentMsg
  <2>4. k + 0 = k
    OBVIOUS
  <2>5. QED
    BY <1>1, <2>1, <2>2, <2>3, <2>4
<1>6. 1 * World = w
  BY <1>1
<1>7. QED
  BY <1>4, <1>5, <1>6 DEF Segment

\* A launch per step, every rank's before any rank's next.
StepsOf(first, count) ==
    [i \in 1 .. (count * World) |->
        [rank |-> (i - 1) % World, first |-> first + ((i - 1) \div World), count |-> 1]]

LEMMA StepRounds ==
    ASSUME NEW b, NEW q, ~b.loop, NEW first \in Nat, NEW count \in Nat,
           NEW s, s = StepsOf(first, count)
    PROVE  Segment(b, q, first + 1, count, s)
<1>1. PICK n \in Nat : n = count * World
  BY DenseConstants
<1>2. s = [i \in 1 .. n |->
             [rank |-> (i - 1) % World, first |-> first + ((i - 1) \div World), count |-> 1]]
  BY <1>1 DEF StepsOf
<1>3. \A i \in 1 .. n : (i - 1) % World \in Nat /\ (i - 1) \div World \in Nat
  <2>1. TAKE i \in 1 .. n
  <2>2. PICK m \in Nat : m = i - 1
    OBVIOUS
  <2>3. m % World \in Nat /\ m \div World \in Nat
    BY RoundAt
  <2>4. QED
    BY <2>2, <2>3
<1>4. \A i \in 1 .. n :
         [rank |-> (i - 1) % World, first |-> first + ((i - 1) \div World), count |-> 1] \in Msg
  BY <1>3 DEF Msg
<1>5. s \in Seq(Msg) /\ Len(s) = n
  BY <1>2, <1>4
<1>6. ASSUME NEW i \in Nat, 1 <= i, i <= n
      PROVE  s[i] = MsgAt(b, q, (first + 1) * World + i)
  <2>1. PICK a, j : a = (i - 1) \div World /\ j = (i - 1) % World
    OBVIOUS
  <2>2. a \in Nat /\ s[i] = [rank |-> j, first |-> first + a, count |-> 1]
    BY <1>2, <1>3, <1>6, <2>1
  <2>3. PICK h \in Nat : h = first + 1
    OBVIOUS
  <2>4. MsgAt(b, q, h * World + i) = MsgOf(b, q, j, h + a)
    BY <1>6, <2>1, <2>3, SegmentMsg
  <2>5. FirstOf(b, q, h + a) = first + a /\ FirstOf(b, q, h + a + 1) = first + a + 1
    BY <2>2, <2>3 DEF FirstOf
  <2>6. first + a + 1 - (first + a) = 1
    BY <2>2
  <2>7. QED
    BY <2>2, <2>3, <2>4, <2>5, <2>6 DEF MsgOf
<1>7. QED
  BY <1>1, <1>5, <1>6 DEF Segment

LEMMA TwoParts ==
    ASSUME NEW M, NEW s, s \in Seq(M), NEW z, z \in Seq(M)
    PROVE  /\ s \o z \in Seq(M) /\ Len(s \o z) = Len(s) + Len(z)
           /\ Len(s) \in Nat /\ Len(z) \in Nat
           /\ \A i \in Nat : 1 <= i /\ i <= Len(s) => (s \o z)[i] = s[i]
           /\ \A j \in Nat : 1 <= j /\ j <= Len(z) => (s \o z)[Len(s) + j] = z[j]
OBVIOUS

LEMMA SegmentsJoin ==
    ASSUME NEW b, NEW q, NEW k \in Nat, NEW L \in Nat, NEW h \in Nat, h = k + L, NEW M \in Nat,
           NEW s, NEW z, Segment(b, q, k, L, s), Segment(b, q, h, M, z)
    PROVE  Segment(b, q, k, L + M, s \o z)
<1>1. PICK w \in Nat : w = World
  BY DenseConstants
<1>2. PICK n \in Nat, m \in Nat, u \in Nat : n = L * w /\ m = M * w /\ u = k * w
  BY <1>1
<1>3. (L + M) * w = n + m /\ h * w = u + n
  BY <1>1, <1>2
<1>4. /\ s \in Seq(Msg) /\ Len(s) = n /\ z \in Seq(Msg) /\ Len(z) = m
      /\ \A i \in Nat : 1 <= i /\ i <= n => s[i] = MsgAt(b, q, u + i)
      /\ \A i \in Nat : 1 <= i /\ i <= m => z[i] = MsgAt(b, q, u + n + i)
  BY <1>1, <1>2, <1>3 DEF Segment
<1>5. s \o z \in Seq(Msg) /\ Len(s \o z) = n + m
  BY <1>4, TwoParts
<1>6. ASSUME NEW i \in Nat, 1 <= i, i <= n + m
      PROVE  (s \o z)[i] = MsgAt(b, q, u + i)
  <2>1. CASE i <= n
    <3>1. (s \o z)[i] = s[i]
      BY <1>4, <1>6, <2>1, TwoParts
    <3>2. QED
      BY <1>4, <1>6, <2>1, <3>1
  <2>2. CASE ~(i <= n)
    <3>1. PICK j \in Nat : i = n + j /\ 1 <= j /\ j <= m
      <4>1. i - n \in Nat /\ i = n + (i - n) /\ 1 <= i - n /\ i - n <= m
        BY <1>2, <1>6, <2>2
      <4>2. QED
        BY <4>1
    <3>2. (s \o z)[n + j] = z[j]
      <4>1. 1 <= j /\ j <= Len(z)
        BY <1>4, <3>1
      <4>2. (s \o z)[Len(s) + j] = z[j]
        BY <1>4, <4>1, TwoParts
      <4>3. QED
        BY <1>4, <4>2
    <3>3. u + n + j = u + i
      BY <1>2, <1>6, <3>1
    <3>4. QED
      BY <1>4, <3>1, <3>2, <3>3
  <2>3. QED
    BY <2>1, <2>2
<1>7. QED
  BY <1>1, <1>2, <1>3, <1>5, <1>6 DEF Segment

LEMMA LaunchParts ==
    ASSUME NEW b \in [embed : BOOLEAN, groups : BOOLEAN, loop : BOOLEAN], b = build,
           NEW first, NEW count
    PROVE  /\ b.loop => Launches(first, count) =
                 [i \in 1 .. World |-> [rank |-> i - 1, first |-> first, count |-> count]]
           /\ ~b.loop => Launches(first, count) = StepsOf(first, count)
BY DEF Launches, StepsOf

LEMMA NoMore ==
    ASSUME NEW M, NEW s, s \in Seq(M), NEW y, y = <<>>
    PROVE  s \o y = s
OBVIOUS

\* A round whose steps are named.
LEMMA RoundNamed ==
    ASSUME NEW b, NEW q, NEW k, NEW first, NEW count, NEW e, first = FirstOf(b, q, k),
           e = FirstOf(b, q, k + 1), count = e - first
    PROVE  [i \in 1 .. World |-> [rank |-> i - 1, first |-> first, count |-> count]]
               = RoundOf(b, q, k)
BY DEF RoundOf, MsgOf

LEMMA CommandsSegment ==
    ASSUME NEW b \in [embed : BOOLEAN, groups : BOOLEAN, loop : BOOLEAN], b = build,
           NEW q \in Nat, q >= 1, q <= Len(NewTokens)
    PROVE  Segment(b, q, 0, Rounds(b, q), Commands(q))
<1>1. PICK P \in Nat, N \in Nat : P = PromptLen /\ N = NewTokens[q] /\ P >= 1 /\ N >= 1
  BY RequestFacts, DenseConstants
<1>2. TotalSteps(q) = P + N - 1
  BY <1>1 DEF TotalSteps
<1>3. PICK s, z, y : /\ s = [i \in 1 .. World |-> [rank |-> i - 1, first |-> 0, count |-> 0]]
                     /\ z = Launches(0, P)
                     /\ y = IF N > 1 THEN Launches(P, N - 1) ELSE <<>>
  OBVIOUS
<1>4. Commands(q) = s \o z \o y
  BY <1>1, <1>3 DEF Commands
<1>5. FirstOf(b, q, 0) = 0 /\ FirstOf(b, q, 1) = 0
  BY DEF FirstOf
<1>6. s = RoundOf(b, q, 0)
  <2>1. 0 = FirstOf(b, q, 0) /\ 0 = FirstOf(b, q, 0 + 1) /\ 0 = 0 - 0
    BY <1>5
  <2>2. QED
    BY <1>3, <2>1, RoundNamed
<1>7. Segment(b, q, 0, 1, s)
  <2>1. 0 + 1 <= Rounds(b, q)
    BY <1>1 DEF Rounds, TotalSteps
  <2>2. QED
    BY <1>6, <2>1, OneRound
<1>8. CASE b.loop
  <2>1. FirstOf(b, q, 2) = P /\ FirstOf(b, q, 3) = P + N - 1
        /\ Rounds(b, q) = IF N > 1 THEN 3 ELSE 2
    BY <1>1, <1>2, <1>8 DEF FirstOf, Rounds
  <2>2. z = RoundOf(b, q, 1)
    <3>1. z = [i \in 1 .. World |-> [rank |-> i - 1, first |-> 0, count |-> P]]
      BY <1>3, <1>8, LaunchParts
    <3>2. 0 = FirstOf(b, q, 1) /\ P = FirstOf(b, q, 1 + 1) /\ P = P - 0
      BY <1>5, <2>1
    <3>3. QED
      BY <3>1, <3>2, RoundNamed
  <2>3. Segment(b, q, 1, 1, z)
    <3>1. 1 + 1 <= Rounds(b, q) /\ 1 \in Nat
      BY <2>1
    <3>2. QED
      BY <2>2, <3>1, OneRound
  <2>4. Segment(b, q, 0, 1 + 1, s \o z)
    <3>1. 1 = 0 + 1
      OBVIOUS
    <3>2. QED
      BY <1>7, <2>3, <3>1, SegmentsJoin
  <2>5. CASE N > 1
    <3>1. y = RoundOf(b, q, 2)
      <4>0. PICK n : n = N - 1
        OBVIOUS
      <4>1. y = [i \in 1 .. World |-> [rank |-> i - 1, first |-> P, count |-> n]]
        <5>1. y = Launches(P, n)
          BY <1>3, <2>5, <4>0
        <5>2. QED
          BY <1>8, <5>1, LaunchParts
      <4>2. PICK e : e = P + N - 1
        OBVIOUS
      <4>3. P = FirstOf(b, q, 2) /\ e = FirstOf(b, q, 2 + 1) /\ n = e - P
        BY <1>1, <2>1, <4>0, <4>2
      <4>4. QED
        BY <4>1, <4>3, RoundNamed
    <3>2. Segment(b, q, 2, 1, y)
      <4>1. 2 + 1 <= Rounds(b, q) /\ 2 \in Nat
        BY <2>1, <2>5
      <4>2. QED
        BY <3>1, <4>1, OneRound
    <3>3. Segment(b, q, 0, 2, s \o z)
      BY <2>4
    <3>4. Segment(b, q, 0, 2 + 1, (s \o z) \o y)
      <4>1. 2 = 0 + 2
        OBVIOUS
      <4>2. QED
        BY <3>2, <3>3, <4>1, SegmentsJoin
    <3>5. QED
      BY <1>4, <2>1, <2>5, <3>4
  <2>6. CASE ~(N > 1)
    <3>1. s \o z \in Seq(Msg)
      BY <2>4 DEF Segment
    <3>2. (s \o z) \o y = s \o z
      <4>1. y = <<>>
        BY <1>3, <2>6
      <4>2. QED
        BY <3>1, <4>1, NoMore
    <3>3. QED
      BY <1>4, <2>1, <2>4, <2>6, <3>2
  <2>7. QED
    BY <2>5, <2>6
<1>9. CASE ~b.loop
  <2>1. Rounds(b, q) = P + N
    BY <1>1, <1>2, <1>9 DEF Rounds
  <2>2. Segment(b, q, 0 + 1, P, z)
    <3>1. z = StepsOf(0, P)
      BY <1>3, <1>9, LaunchParts
    <3>2. QED
      BY <1>9, <3>1, StepRounds
  <2>3. Segment(b, q, 0, 1 + P, s \o z)
    <3>1. Segment(b, q, 1, P, z) /\ 1 = 0 + 1
      BY <2>2
    <3>2. QED
      BY <1>7, <3>1, SegmentsJoin
  <2>4. PICK h \in Nat : h = 1 + P
    OBVIOUS
  <2>5. Segment(b, q, 0, h, s \o z)
    BY <2>3, <2>4
  <2>6. CASE N > 1
    <3>1. PICK n \in Nat : n = N - 1
      BY <1>1
    <3>2. y = StepsOf(P, n)
      <4>1. y = Launches(P, n)
        BY <1>3, <2>6, <3>1
      <4>2. QED
        BY <1>9, <4>1, LaunchParts
    <3>3. Segment(b, q, P + 1, n, y)
      BY <1>9, <3>2, StepRounds
    <3>4. Segment(b, q, h, n, y)
      <4>1. P + 1 = h
        BY <2>4
      <4>2. QED
        BY <3>3, <4>1
    <3>5. Segment(b, q, 0, h + n, (s \o z) \o y)
      <4>1. h = 0 + h
        OBVIOUS
      <4>2. QED
        BY <2>5, <3>4, <4>1, SegmentsJoin
    <3>6. h + n = Rounds(b, q)
      BY <2>1, <2>4, <3>1
    <3>7. QED
      BY <1>4, <3>5, <3>6
  <2>7. CASE ~(N > 1)
    <3>1. s \o z \in Seq(Msg)
      BY <2>5 DEF Segment
    <3>2. (s \o z) \o y = s \o z
      <4>1. y = <<>>
        BY <1>3, <2>7
      <4>2. QED
        BY <3>1, <4>1, NoMore
    <3>3. h = Rounds(b, q)
      BY <1>1, <2>1, <2>4, <2>7
    <3>4. QED
      BY <1>4, <2>5, <3>2, <3>3
  <2>8. QED
    BY <2>6, <2>7
<1>10. QED
  BY <1>8, <1>9

-----------------------------------------------------------------------------
(***************************************************************************)
(* The host's steps.                                                       *)
(***************************************************************************)
LEMMA IssuedNext ==
    ASSUME NEW n \in Nat, n >= 1, NEW a, a = (n - 1) \div World, NEW j, j = (n - 1) % World
    PROVE  /\ a \in Nat /\ j \in Rank /\ Issued(n, j) = a
           /\ Issued(n + 1, j) = a + 1
           /\ \A r \in Rank : r # j => Issued(n + 1, r) = Issued(n, r)
<1>1. PICK w \in Nat \ {0} : w = World
  BY DenseConstants
<1>2. PICK m \in Nat : m = n - 1
  OBVIOUS
<1>3. a \in Nat /\ j \in 0 .. (w - 1) /\ m = a * w + j
  BY <1>1, <1>2, Division
<1>4. j \in Rank /\ \A r \in Rank : r \in 0 .. (w - 1)
  BY <1>1, <1>3 DEF Rank
<1>5. \A r : Issued(n, r) = a + (IF r < j THEN 1 ELSE 0)
  BY <1>2 DEF Issued
<1>6. n + 1 - 1 = m + 1
  BY <1>2
<1>7. CASE j + 1 < w
  <2>1. (m + 1) \div w = a /\ (m + 1) % w = j + 1
    <3>1. PICK p \in Nat : p = a * w
      BY <1>3
    <3>2. m = p + j /\ j \in Nat
      BY <1>3, <3>1
    <3>3. PICK h : h = j + 1
      OBVIOUS
    <3>4. h \in 0 .. (w - 1)
      BY <1>7, <3>2, <3>3
    <3>5. (a * w + h) \div w = a /\ (a * w + h) % w = h
      BY <1>3, <3>4, DivisionUnique
    <3>6. m + 1 = p + h
      BY <3>1, <3>2, <3>3
    <3>7. QED
      BY <3>1, <3>3, <3>5, <3>6
  <2>2. \A r : Issued(n + 1, r) = a + (IF r < j + 1 THEN 1 ELSE 0)
    BY <1>1, <1>6, <2>1 DEF Issued
  <2>3. QED
    BY <1>3, <1>4, <1>5, <2>2
<1>8. CASE ~(j + 1 < w)
  <2>1. (m + 1) \div w = a + 1 /\ (m + 1) % w = 0
    <3>1. j + 1 = w
      <4>1. j \in Nat /\ j < w
        BY <1>3
      <4>2. QED
        BY <1>8, <4>1
    <3>2. m + 1 = (a + 1) * w + 0 /\ 0 \in 0 .. (w - 1) /\ a + 1 \in Nat
      BY <1>3, <3>1
    <3>3. ((a + 1) * w + 0) \div w = a + 1 /\ ((a + 1) * w + 0) % w = 0
      BY <3>2, DivisionUnique
    <3>4. QED
      BY <3>2, <3>3
  <2>2. \A r \in Rank : Issued(n + 1, r) = a + 1
    <3>1. \A r \in Rank : ~(r < 0)
      BY <1>4
    <3>2. QED
      BY <1>1, <1>3, <1>6, <2>1, <3>1 DEF Issued
  <2>3. \A r \in Rank : r # j => r < j
    BY <1>3, <1>4, <1>8
  <2>4. QED
    BY <1>3, <1>4, <1>5, <2>2, <2>3
<1>9. QED
  BY <1>7, <1>8

\* A command that is issued is of one of the request's rounds.
LEMMA RoundWithin ==
    ASSUME NEW m \in Nat, NEW R \in Nat, NEW a, a = m \div World, m < R * World
    PROVE  a + 1 <= R
<1>1. PICK w \in Nat \ {0} : w = World
  BY DenseConstants
<1>2. a \in Nat /\ m % w \in 0 .. (w - 1) /\ m = a * w + (m % w)
  BY <1>1, Division
<1>3. SUFFICES ASSUME a >= R PROVE FALSE
  BY <1>2
<1>4. PICK e \in Nat : a = R + e
  <2>1. a - R \in Nat /\ a = R + (a - R)
    BY <1>2, <1>3
  <2>2. QED
    BY <2>1
<1>5. a * w = R * w + e * w /\ e * w \in Nat /\ R * w \in Nat
  BY <1>4
<1>6. m >= R * w
  BY <1>2, <1>5
<1>7. QED
  BY <1>1, <1>5, <1>6

\* What a rank's stream and iteration become when it is issued v.
Appends(s, v, s2) == s2 = Append(s, v)
StepsAhead(b, q, B, i, h, steps2) ==
    h = i + 1 /\ h <= Rounds(b, q) /\ steps2 = B + FirstOf(b, q, h)
IsCommand(b, q, B, i, v) == v \in Command4 /\ v = Command(b, q, B, i)
Grown(s, s2) ==
    s2 \in Seq(Command4) /\ Len(s2) = Len(s) + 1 /\ Len(s) \in Nat /\ s2 # <<>>

\* The command at the end of a stream.
LEMMA StreamAppend ==
    ASSUME NEW b, NEW q, NEW B, NEW i \in Nat, NEW s \in Seq(Command4),
           NEW steps, StreamLaw(b, q, B, i, s, steps),
           NEW v, IsCommand(b, q, B, i, v), NEW s2, Appends(s, v, s2),
           NEW h, NEW steps2, StepsAhead(b, q, B, i, h, steps2)
    PROVE  StreamLaw(b, q, B, h, s2, steps2) /\ Grown(s, s2)
<1>0. /\ v \in Command4 /\ v = Command(b, q, B, i) /\ s2 = Append(s, v)
      /\ h = i + 1 /\ h <= Rounds(b, q) /\ steps2 = B + FirstOf(b, q, h)
  BY DEF IsCommand, Appends, StepsAhead
<1>1. PICK n \in Nat : n = Len(s)
  OBVIOUS
<1>2. /\ s2 \in Seq(Command4) /\ Len(s2) = n + 1 /\ s2[n + 1] = v /\ s2 # <<>>
      /\ \A j \in 1 .. n : s2[j] = s[j]
  BY <1>0, <1>1
<1>3. /\ n <= i /\ \A j \in 1 .. n : s[j] = Command(b, q, B, i - n + j - 1)
  BY <1>1 DEF StreamLaw
<1>4. ASSUME NEW j \in 1 .. (n + 1)
      PROVE  s2[j] = Command(b, q, B, h - (n + 1) + j - 1)
  <2>1. CASE j <= n
    <3>1. s2[j] = Command(b, q, B, i - n + j - 1)
      BY <1>2, <1>3, <2>1
    <3>2. i - n + j - 1 = h - (n + 1) + j - 1
      BY <1>0
    <3>3. QED
      BY <3>1, <3>2
  <2>2. CASE ~(j <= n)
    <3>1. j = n + 1
      BY <2>2
    <3>2. h - (n + 1) + j - 1 = i
      BY <1>0, <3>1
    <3>3. QED
      BY <1>0, <1>2, <3>1, <3>2
  <2>3. QED
    BY <2>1, <2>2
<1>5. QED
  BY <1>0, <1>1, <1>2, <1>3, <1>4 DEF StreamLaw, Grown

\* The host serves a request.
Leads(B, b, q) ==
    /\ B \in Nat /\ Serves(B) /\ Serving /\ DenseType /\ b = build /\ q = host.request
    /\ b \in [embed : BOOLEAN, groups : BOOLEAN, loop : BOOLEAN]
    /\ q \in Nat /\ q >= 1 /\ q <= Len(NewTokens) /\ \A r \in Rank : RankHolds(B, r)
    /\ Segment(b, q, 0, Rounds(b, q), Commands(q))
    /\ Rounds(b, q) \in Nat /\ host.next \in Nat /\ host.next >= 1

LEMMA Led ==
    ASSUME DenseInv, Serving
    PROVE  \E B, b, q : Leads(B, b, q)
<1>1. DenseType
  BY DEF DenseInv
<1>2. PICK B \in Nat : Serves(B)
  BY DEF DenseInv
<1>3. PICK b, q : b = build /\ q = host.request
  OBVIOUS
<1>4. /\ b \in [embed : BOOLEAN, groups : BOOLEAN, loop : BOOLEAN]
      /\ q \in Nat /\ q >= 1 /\ q <= Len(NewTokens)
  BY <1>1, <1>3, BuildType DEF DenseType, Serving
<1>5. \A r \in Rank : RankHolds(B, r)
  BY <1>2, ServesForm
<1>6. Segment(b, q, 0, Rounds(b, q), Commands(q))
  BY <1>3, <1>4, CommandsSegment
<1>7. Rounds(b, q) \in Nat
  <2>1. 0 \in Nat
    OBVIOUS
  <2>2. QED
    BY <1>4, <2>1, FirstFacts
<1>8. host.next \in Nat /\ host.next >= 1
  BY <1>1 DEF DenseType
<1>9. Leads(B, b, q)
  BY <1>1, <1>2, <1>3, <1>4, <1>5, <1>6, <1>7, <1>8 DEF Leads
<1>10. QED
  BY <1>9

\* What the host issues is of the next round of its rank.
LEMMA IssuedCommand ==
    ASSUME NEW B, NEW b, NEW q, Leads(B, b, q), NEW n, n = host.next,
           n <= Len(Commands(q)), NEW a, a = (n - 1) \div World, NEW j, j = (n - 1) % World
    PROVE  /\ Commands(q)[n] = MsgOf(b, q, j, a) /\ a \in Nat /\ a + 1 <= Rounds(b, q)
           /\ j \in Rank
<1>1. PICK R \in Nat, m \in Nat : R = Rounds(b, q) /\ m = n - 1
  BY DEF Leads
<1>2. PICK p : p = R * World
  OBVIOUS
<1>3. p \in Nat /\ n \in Nat /\ n >= 1 /\ n <= p
  BY <1>1, <1>2, DenseConstants DEF Leads, Segment
<1>4. Commands(q)[n] = MsgAt(b, q, 0 * World + n)
  BY <1>1, <1>2, <1>3 DEF Leads, Segment
<1>5. 0 * World + n = n
  BY <1>3, DenseConstants
<1>6. Commands(q)[n] = MsgOf(b, q, j, a)
  BY <1>4, <1>5 DEF MsgAt
<1>7. a + 1 <= R
  <2>1. m < p
    BY <1>1, <1>3
  <2>2. QED
    BY <1>1, <1>2, <2>1, RoundWithin
<1>8. a \in Nat /\ j \in Rank
  BY <1>3, IssuedNext
<1>9. QED
  BY <1>1, <1>6, <1>7, <1>8

LEMMA IssueKeeps ==
    ASSUME DenseInv, Issue
    PROVE  DenseInv'
<1>1. Serving /\ host.next <= Len(Commands(host.request))
  BY DEF Issue
<1>2. PICK B, b, q : Leads(B, b, q)
  BY <1>1, Led
<1>3. /\ B \in Nat /\ Serves(B) /\ DenseType /\ b = build /\ q = host.request
      /\ b \in [embed : BOOLEAN, groups : BOOLEAN, loop : BOOLEAN]
      /\ q \in Nat /\ q >= 1 /\ q <= Len(NewTokens) /\ \A s \in Rank : RankHolds(B, s)
      /\ host.next \in Nat /\ host.next >= 1
  BY <1>2 DEF Leads
<1>4. PICK n, a, r : /\ n \in Nat /\ n = host.next /\ a = (n - 1) \div World
                     /\ r = (n - 1) % World /\ n >= 1
  BY <1>3
<1>5. /\ Commands(q)[n] = MsgOf(b, q, r, a) /\ a \in Nat /\ a + 1 <= Rounds(b, q)
      /\ r \in Rank
  BY <1>1, <1>2, <1>3, <1>4, IssuedCommand
<1>6. /\ Issued(n, r) = a /\ Issued(n + 1, r) = a + 1
      /\ \A s \in Rank : s # r => Issued(n + 1, s) = Issued(n, s)
  BY <1>4, IssuedNext
<1>7. PICK f, e, h : f = FirstOf(b, q, a) /\ e = FirstOf(b, q, a + 1) /\ h = e - f
  OBVIOUS
<1>8. f \in Nat /\ e \in Nat /\ h \in Nat /\ f + h = e
  <2>1. f \in Nat /\ e \in Nat /\ f <= e
    BY <1>3, <1>5, <1>7, FirstFacts
  <2>2. QED
    BY <1>7, <2>1
<1>9. UNCHANGED <<build, cta, bank, memory, tokens, events, groups, arrived, packets, exchange>>
  BY DEF Issue, counterVars, linkVars
<1>10. /\ host' \in [request : Nat, next : Nat] /\ host'.request = q /\ host'.next = n + 1
  <2>1. host \in [request : Nat, next : Nat]
    BY <1>3 DEF DenseType
  <2>2. host' = [host EXCEPT !.next = @ + 1]
    BY DEF Issue
  <2>3. QED
    BY <1>3, <1>4, <2>1, <2>2
<1>11. PICK s, v, s2 : /\ s = stream[r] /\ s2 = Append(s, v)
                       /\ v = [request |-> q, first |-> f, count |-> h,
                               iteration |-> iteration[r]]
  OBVIOUS
<1>12. PICK i, i2 : i = iteration[r] /\ i2 = B + e
  OBVIOUS
<1>13. StreamLaw(b, q, B, a, s, i) /\ i = B + f
  BY <1>3, <1>4, <1>5, <1>6, <1>7, <1>11, <1>12 DEF RankHolds, StreamLaw
<1>14. /\ stream \in [Rank -> Seq(Command4)] /\ iteration \in [Rank -> Nat]
  BY <1>3 DEF DenseType, Command4
<1>15. v = Command(b, q, B, a) /\ v \in Command4
  <2>1. i \in Nat
    BY <1>5, <1>12, <1>14
  <2>2. QED
    BY <1>3, <1>7, <1>8, <1>11, <1>12, <1>13, <2>1 DEF Command, Command4
<1>16. /\ StreamLaw(b, q, B, a + 1, s2, i2) /\ s2 \in Seq(Command4)
       /\ Len(s2) = Len(s) + 1 /\ Len(s) \in Nat /\ s2 # <<>>
  <2>1. s \in Seq(Command4)
    BY <1>5, <1>11, <1>14
  <2>2. PICK u \in Nat : u = a + 1
    BY <1>5
  <2>3. StepsAhead(b, q, B, a, u, i2)
    BY <1>5, <1>7, <1>12, <2>2 DEF StepsAhead
  <2>4. IsCommand(b, q, B, a, v) /\ Appends(s, v, s2)
    BY <1>11, <1>15 DEF IsCommand, Appends
  <2>5. StreamLaw(b, q, B, u, s2, i2) /\ Grown(s, s2)
    BY <1>5, <1>13, <2>1, <2>3, <2>4, StreamAppend
  <2>6. QED
    BY <2>2, <2>5 DEF Grown
<1>17. PICK g : g = Commands(q)[n]
  OBVIOUS
<1>18. g.rank = r /\ g.first = f /\ g.count = h
  BY <1>5, <1>7, <1>17 DEF MsgOf
<1>19. /\ stream' = [stream EXCEPT ![r] = s2] /\ iteration' = [iteration EXCEPT ![r] = i2]
  <2>1. /\ stream' = [stream EXCEPT ![g.rank] = Append(@,
                [request |-> host.request, first |-> g.first, count |-> g.count,
                 iteration |-> iteration[g.rank]])]
        /\ iteration' = [iteration EXCEPT ![g.rank] = @ + g.count]
    BY <1>3, <1>4, <1>17 DEF Issue
  <2>2. stream' = [stream EXCEPT ![r] = Append(stream[r], v)]
    BY <1>3, <1>11, <1>18, <2>1
  <2>3. iteration' = [iteration EXCEPT ![r] = iteration[r] + h]
    BY <1>18, <2>1
  <2>4. iteration[r] + h = i2
    BY <1>3, <1>8, <1>12, <1>13
  <2>5. QED
    BY <1>11, <2>2, <2>3, <2>4
<1>20. /\ stream' \in [Rank -> Seq(Command4)] /\ stream'[r] = s2
       /\ \A z \in Rank : z # r => stream'[z] = stream[z]
       /\ iteration' \in [Rank -> Nat] /\ iteration'[r] = i2
       /\ \A z \in Rank : z # r => iteration'[z] = iteration[z]
  <2>1. i2 \in Nat
    BY <1>3, <1>8, <1>12
  <2>2. QED
    BY <1>5, <1>14, <1>16, <1>19, <2>1
<1>21. Done' = Done
  <2>1. ASSUME NEW z \in Rank PROVE Done'[z] = Done[z]
    <3>1. Done'[z] = Issued(n + 1, z) - Len(stream'[z]) /\ Done[z] = Issued(n, z) - Len(stream[z])
      BY <1>4, <1>10 DEF Done
    <3>2. CASE z = r
      <4>1. Issued(n + 1, z) = a + 1 /\ Issued(n, z) = a
        BY <1>6, <3>2
      <4>2. PICK k, k2 : k = Len(s) /\ k2 = Len(s2)
        OBVIOUS
      <4>3. Len(stream'[z]) = k2 /\ Len(stream[z]) = k
        BY <1>11, <1>20, <3>2, <4>2
      <4>4. k \in Nat /\ k2 = k + 1
        BY <1>16, <4>2
      <4>5. Done'[z] = (a + 1) - k2 /\ Done[z] = a - k
        BY <3>1, <4>1, <4>3
      <4>6. QED
        BY <1>5, <4>4, <4>5
    <3>3. CASE z # r
      BY <1>6, <1>20, <3>1, <3>3
    <3>4. QED
      BY <3>2, <3>3
  <2>2. DOMAIN Done = Rank /\ DOMAIN Done' = Rank
        /\ Done = [z \in Rank |-> Done[z]] /\ Done' = [z \in Rank |-> Done'[z]]
    BY DEF Done
  <2>3. QED
    BY <2>1, <2>2
<1>22. Places' = Places
  BY <1>3, <1>9, <1>10, <1>21 DEF Places
<1>23. ASSUME NEW z \in Rank PROVE RankHolds(B, z)'
  <2>1. RankHolds(B, z)
    BY <1>3
  <2>2. StreamLaw(b, q, B, Issued(n + 1, z), stream'[z], iteration'[z])
    <3>1. CASE z = r
      BY <1>6, <1>16, <1>20, <3>1
    <3>2. CASE z # r
      <4>1. StreamLaw(b, q, B, Issued(n, z), stream[z], iteration[z])
        BY <1>3, <1>4, <2>1 DEF RankHolds
      <4>2. QED
        BY <1>6, <1>20, <3>2, <4>1
    <3>3. QED
      BY <3>1, <3>2
  <2>3. PICK d, row, ev, gr, k, bk, m, tok :
           /\ d = Done[z] /\ row = Places[z] /\ ev = events[z] /\ gr = groups[z]
           /\ k = arrived[z] /\ bk = bank[z] /\ m = memory[z] /\ tok = tokens[z]
    OBVIOUS
  <2>4. PICK y \in BOOLEAN, y2 \in BOOLEAN :
           (y <=> stream[z] # <<>>) /\ (y2 <=> stream'[z] # <<>>)
    OBVIOUS
  <2>5. y => y2
    BY <1>16, <1>20, <2>4
  <2>6. RankLaw(b, q, B, d, y, row, ev, gr, k, bk, m, tok)
    BY <1>3, <2>1, <2>3, <2>4 DEF RankHolds, RankLaw, KernelLaw
  <2>7. KernelLaw(b, q, d, y2, row)
    BY <2>5, <2>6 DEF RankLaw, KernelLaw
  <2>8. RankLaw(b, q, B, d, y2, row, ev, gr, k, bk, m, tok)
    BY <2>6, <2>7 DEF RankLaw
  <2>9. RankLaw(build', host'.request, B, Done'[z], stream'[z] # <<>>, Places'[z], events'[z],
                groups'[z], arrived'[z], bank'[z], memory'[z], tokens'[z])
    BY <1>3, <1>9, <1>10, <1>21, <1>22, <2>3, <2>4, <2>8 DEF RankLaw, KernelLaw
  <2>10. StreamLaw(build', host'.request, B, Issued(host'.next, z), stream'[z], iteration'[z])
    BY <1>3, <1>9, <1>10, <2>2
  <2>11. QED
    BY <2>9, <2>10 DEF RankHolds
<1>24. Serves(B)'
  <2>1. Apart(q, B, Places, packets, exchange)
    BY <1>3, ServesForm
  <2>2. /\ SkewLaw(Places') /\ PacketLaw(host'.request, B, Places', packets')
        /\ ExchangeLaw(host'.request, B, Places', exchange')
    BY <1>9, <1>10, <1>22, <2>1 DEF Apart
  <2>3. \A z \in Rank : RankHolds(B, z)'
    BY <1>23
  <2>4. QED
    BY <2>2, <2>3 DEF Serves, RankHolds
<1>25. Serving' /\ DenseType'
  <2>1. Serving'
    BY <1>1, <1>3, <1>10 DEF Serving
  <2>2. host'.request >= 1 /\ host'.next >= 1
    BY <1>3, <1>4, <1>10
  <2>3. QED
    BY <1>3, <1>9, <1>10, <1>20, <2>1, <2>2 DEF DenseType, Command4
<1>26. QED
  BY <1>3, <1>24, <1>25 DEF DenseInv

-----------------------------------------------------------------------------
(***************************************************************************)
(* From one request to the next: all CTAs are away, and every counter,     *)
(* packet and flag is where the steps before have left it.                 *)
(***************************************************************************)
LEMMA AwayProgress ==
    ASSUME NEW e \in Nat, NEW x, x = Place("away", e, 0, 0, Nothing), NEW g \in DenseStage
    PROVE  /\ Arr(x, g) = e /\ Freed(x, g) = e /\ Scored(x) = e
           /\ Joined(x) = e * Layers
           /\ \A t \in Nat : Sent(x, g, t) = e /\ Ran(x, g, t) = e
<1>1. x.at = "away" /\ x.step = e /\ x.stage = 0 /\ x.task = 0
  BY DEF Place
<1>2. g \in Nat /\ HeadStage # 0 /\ HeadStage \in Nat
  BY DenseConstants, StageIsNat
<1>3. ~(0 > g) /\ e + 0 = e
  BY <1>2
<1>4. Arr(x, g) = e /\ Freed(x, g) = e /\ Scored(x) = e
  BY <1>1, <1>2, <1>3 DEF Arr, Freed, Scored
<1>5. Joined(x) = e * Layers
  <2>1. (0 + 3) \div 5 = 0
    OBVIOUS
  <2>2. JoinedInStep(x) = 0
    BY <1>1, <2>1 DEF JoinedInStep
  <2>3. PICK p \in Nat : p = e * Layers
    BY DenseConstants
  <2>4. QED
    BY <1>1, <2>2, <2>3 DEF Joined
<1>6. ASSUME NEW t \in Nat PROVE Sent(x, g, t) = e /\ Ran(x, g, t) = e
  <2>1. ~(0 > t)
    OBVIOUS
  <2>2. QED
    BY <1>1, <1>3, <2>1 DEF Sent, Ran
<1>7. QED
  BY <1>4, <1>5, <1>6

\* The counters of a rank after B steps.
CountersAt(b, B, ev, gr, n) ==
    /\ \A g \in DenseStage : ~(b.groups /\ Kind(g) = "qkv") => ev[g] = Grid * B
    /\ b.groups => \A k \in 0 .. (KvGroups - 1) : gr[k] = GroupTiles * (B * Layers)
    /\ n = Grid * B

LEMMA CountersRest ==
    ASSUME NEW b, NEW B \in Nat, NEW e \in Nat, NEW row, RowAway(row, e), NEW ev, NEW gr, NEW n,
           EventsLaw(b, B, row, ev), GroupsLaw(b, B, row, gr), HeadLaw(B, row, n),
           NEW B2, B2 = B + e
    PROVE  CountersAt(b, B2, ev, gr, n)
<1>1. ASSUME NEW g \in DenseStage, ~(b.groups /\ Kind(g) = "qkv") PROVE ev[g] = Grid * B2
  <2>1. PICK f : f = [c \in Cta |-> Arr(row[c], g)]
    OBVIOUS
  <2>2. Tally(Cta, f, ev[g], Grid, B)
    BY <1>1, <2>1 DEF EventsLaw
  <2>3. \A c \in Cta : f[c] = e
    BY <2>1, AwayProgress DEF RowAway
  <2>4. ev[g] = RoundStart(Grid, B, e)
    BY <2>2, <2>3, CtaFinite, DenseConstants, TallyLevel
  <2>5. QED
    BY <2>4 DEF RoundStart
<1>2. ASSUME b.groups, NEW k \in 0 .. (KvGroups - 1) PROVE gr[k] = GroupTiles * (B2 * Layers)
  <2>1. PICK f : f = [t \in TilesOf(k) |-> Joined(row[t % Grid])]
    OBVIOUS
  <2>2. PICK u \in Nat, v \in Nat : u = B * Layers /\ v = e * Layers
    BY DenseConstants
  <2>3. Tally(TilesOf(k), f, gr[k], GroupTiles, u)
    BY <1>2, <2>1, <2>2 DEF GroupsLaw
  <2>4. ASSUME NEW t \in TilesOf(k) PROVE f[t] = v
    <3>1. t \in Nat
      BY DenseConstants DEF TilesOf
    <3>2. t % Grid \in Cta
      BY <3>1, SameOwner
    <3>3. row[t % Grid] = Place("away", e, 0, 0, Nothing) /\ 0 \in DenseStage
      BY <3>2, AwayPlace DEF RowAway
    <3>4. Joined(row[t % Grid]) = e * Layers
      BY <3>3, AwayProgress
    <3>5. QED
      BY <2>1, <2>2, <3>4
  <2>5. gr[k] = RoundStart(GroupTiles, u, v)
    <3>1. IsFiniteSet(TilesOf(k)) /\ Cardinality(TilesOf(k)) = GroupTiles /\ GroupTiles \in Nat
      BY <1>2, GroupTilesFacts
    <3>2. QED
      BY <2>2, <2>3, <2>4, <3>1, TallyLevel
  <2>6. B2 * Layers = u + v
    BY <2>2, DenseConstants
  <2>7. QED
    BY <2>5, <2>6 DEF RoundStart
<1>3. n = Grid * B2
  <2>1. PICK f : f = [c \in Cta |-> Scored(row[c])]
    OBVIOUS
  <2>2. Tally(Cta, f, n, Grid, B)
    BY <2>1 DEF HeadLaw
  <2>3. \A c \in Cta : f[c] = e
    BY <2>1, AwayProgress, AwayPlace DEF RowAway
  <2>4. n = RoundStart(Grid, B, e)
    BY <2>2, <2>3, CtaFinite, DenseConstants, TallyLevel
  <2>5. QED
    BY <2>4 DEF RoundStart
<1>4. QED
  BY <1>1, <1>2, <1>3 DEF CountersAt

LEMMA FreshCounters ==
    ASSUME NEW b, NEW B \in Nat, NEW row, RowAway(row, 0), NEW ev, NEW gr, NEW n,
           CountersAt(b, B, ev, gr, n)
    PROVE  EventsLaw(b, B, row, ev) /\ GroupsLaw(b, B, row, gr) /\ HeadLaw(B, row, n)
<1>1. ASSUME NEW g \in DenseStage, ~(b.groups /\ Kind(g) = "qkv")
      PROVE  Tally(Cta, [c \in Cta |-> Arr(row[c], g)], ev[g], Grid, B)
  <2>1. PICK f, v : f = [c \in Cta |-> Arr(row[c], g)] /\ v = ev[g]
    OBVIOUS
  <2>2. \A c \in Cta : f[c] = 0
    BY <2>1, AwayProgress DEF RowAway
  <2>3. v = Grid * B
    BY <1>1, <2>1 DEF CountersAt
  <2>4. Tally(Cta, f, v, Grid, B)
    BY <2>2, <2>3, CtaFinite, DenseConstants, TallyStart
  <2>5. QED
    BY <2>1, <2>4
<1>2. ASSUME b.groups, NEW k \in 0 .. (KvGroups - 1)
      PROVE  Tally(TilesOf(k), [t \in TilesOf(k) |-> Joined(row[t % Grid])], gr[k],
                   GroupTiles, B * Layers)
  <2>1. PICK f, v : f = [t \in TilesOf(k) |-> Joined(row[t % Grid])] /\ v = gr[k]
    OBVIOUS
  <2>2. PICK u \in Nat : u = B * Layers
    BY DenseConstants
  <2>3. v = GroupTiles * u
    BY <1>2, <2>1, <2>2 DEF CountersAt
  <2>4. ASSUME NEW t \in TilesOf(k) PROVE f[t] = 0
    <3>1. t \in Nat
      BY DenseConstants DEF TilesOf
    <3>2. t % Grid \in Cta
      BY <3>1, SameOwner
    <3>3. row[t % Grid] = Place("away", 0, 0, 0, Nothing) /\ 0 \in DenseStage
      BY <3>2, AwayPlace DEF RowAway
    <3>4. Joined(row[t % Grid]) = 0 * Layers
      BY <3>3, AwayProgress
    <3>5. QED
      BY <2>1, <3>4, DenseConstants
  <2>5. Tally(TilesOf(k), f, v, GroupTiles, u)
    <3>1. IsFiniteSet(TilesOf(k)) /\ TilesOf(k) # {} /\ GroupTiles \in Nat
      BY <1>2, GroupTilesFacts
    <3>2. QED
      BY <2>2, <2>3, <2>4, <3>1, TallyStart
  <2>6. QED
    BY <2>1, <2>2, <2>5
<1>3. Tally(Cta, [c \in Cta |-> Scored(row[c])], n, Grid, B)
  <2>1. PICK f : f = [c \in Cta |-> Scored(row[c])]
    OBVIOUS
  <2>2. \A c \in Cta : f[c] = 0
    BY <2>1, AwayProgress, AwayPlace DEF RowAway
  <2>3. n = Grid * B
    BY DEF CountersAt
  <2>4. Tally(Cta, f, n, Grid, B)
    BY <2>2, <2>3, CtaFinite, DenseConstants, TallyStart
  <2>5. QED
    BY <2>1, <2>4
<1>4. \A c \in Cta : row[c].at \notin Deciding
  BY DEF RowAway, Place, Deciding
<1>5. QED
  BY <1>1, <1>2, <1>3, <1>4 DEF EventsLaw, GroupsLaw, HeadLaw

LEMMA FreshMemory ==
    ASSUME NEW b, NEW q, NEW row, RowAway(row, 0), NEW m, NEW tok
    PROVE  /\ BarrierLaw(b, row) /\ GroupFree(b, row) /\ MemoryLaw(b, q, row, m)
           /\ TokenLaw(q, 0, row, tok)
<1>1. \A c \in Cta : row[c].step = 0 /\ row[c].stage = 0 /\ row[c].at = "away"
                     /\ row[c].task = 0
  BY DEF RowAway, Place
<1>2. \A c \in Cta : Scored(row[c]) = 0
  BY AwayProgress, AwayPlace DEF RowAway
<1>3. BarrierLaw(b, row)
  <2>1. \A c \in Cta : \A g \in DenseStage : Freed(row[c], g) = 0 /\ Arr(row[c], g) = 0
    BY AwayProgress DEF RowAway
  <2>2. 0 \in DenseStage /\ ~(0 >= 1)
    BY AwayPlace
  <2>3. QED
    BY <2>1, <2>2 DEF BarrierLaw
<1>4. Kind(0) = "embed" /\ HeadStage # 0
  BY EdgeKinds, DenseConstants
<1>5. GroupFree(b, row)
  BY <1>1, <1>4 DEF GroupFree
<1>6. \A t \in Nat : row[t % Grid].stage = 0 /\ row[t % Grid].step = 0
  BY <1>1, SameOwner
<1>7. ASSUME NEW kind \in {"qkv", "attention", "gate_up"}, NEW T, T \subseteq Nat, NEW v
      PROVE  WrittenAt(kind, q, row, T, v)
  BY <1>4, <1>6, <1>7 DEF WrittenAt
<1>8. /\ 0 .. (QkvTiles - 1) \subseteq Nat /\ 0 .. (KvGroups - 1) \subseteq Nat
      /\ 0 .. (ActTiles - 1) \subseteq Nat /\ 0 .. (XTiles - 1) \subseteq Nat
  BY DenseConstants
<1>9. ~Embeds(b, row, 0)
  <2>1. Ran(row[0], 0, 0) = 0
    BY AwayProgress, AwayPlace, DenseConstants DEF RowAway
  <2>2. QED
    BY <2>1 DEF Embeds
<1>10. ResidualLaw(b, q, row, m.x)
  BY <1>4, <1>6, <1>8, <1>9 DEF ResidualLaw
<1>11. PartialLaw(q, row, m.partial)
  BY <1>1, <1>4 DEF PartialLaw
<1>12. MemoryLaw(b, q, row, m)
  <2>1. /\ WrittenAt("qkv", q, row, 0 .. (QkvTiles - 1), m.qkv)
        /\ WrittenAt("attention", q, row, 0 .. (KvGroups - 1), m.context)
        /\ WrittenAt("gate_up", q, row, 0 .. (ActTiles - 1), m.act)
    BY <1>7, <1>8
  <2>2. QED
    BY <1>10, <1>11, <2>1 DEF MemoryLaw
<1>13. ASSUME NEW j \in Position, j >= PromptLen PROVE ~Chosen(row, j - 1)
  <2>1. j \in Nat /\ j >= 1
    <3>1. j \in Nat
      BY PositionNat
    <3>2. QED
      BY <1>13, <3>1, DenseConstants
  <2>2. ~(0 >= j - 1 + 1) /\ 0 \in Cta
    BY <2>1, DenseConstants
  <2>3. QED
    BY <1>2, <2>2 DEF Chosen, HeadPast
<1>14. TokenLaw(q, 0, row, tok)
  BY <1>13 DEF TokenLaw
<1>15. QED
  BY <1>3, <1>5, <1>12, <1>14

LEMMA FreshRank ==
    ASSUME NEW b, NEW q, NEW B \in Nat, NEW s, NEW row, RowAway(row, 0), NEW ev, NEW gr, NEW n,
           CountersAt(b, B, ev, gr, n), NEW bk, NEW m, NEW tok
    PROVE  RankLaw(b, q, B, 0, s, row, ev, gr, n, bk, m, tok)
<1>1. 0 = FirstOf(b, q, 0) /\ 0 \in Nat
  BY DEF FirstOf
<1>2. AllPlaced(b, q, row) /\ KernelLaw(b, q, 0, s, row) /\ AllBanked(b, B, row, bk)
  BY <1>1, AwayRow
<1>3. EventsLaw(b, B, row, ev) /\ GroupsLaw(b, B, row, gr) /\ HeadLaw(B, row, n)
  BY FreshCounters
<1>4. /\ BarrierLaw(b, row) /\ GroupFree(b, row) /\ MemoryLaw(b, q, row, m)
      /\ TokenLaw(q, 0, row, tok)
  BY FreshMemory
<1>5. QED
  BY <1>2, <1>3, <1>4 DEF RankLaw, AllPlaced, AllBanked

\* The packets and flags of all ranks after B steps.
PacketsAt(B, pk) ==
    \A r, s \in Rank : s # r =>
        \A g \in DenseStage : Reduces(g) => \A t \in 0 .. (XTiles - 1) :
            pk[r][Region(g)][s][t].epoch = B % PacketEpochs

FlagsAt(B, ex) ==
    \A r, s \in Rank : s # r =>
        \A n \in Nat : \A y \in 0 .. 1 : ex[r].flag[y][s] # B + n + 1

AllAway(P, e) == \A r \in Rank : RowAway(P[r], e)

LEMMA LinksRest ==
    ASSUME NEW q, NEW B \in Nat, NEW e \in Nat, NEW P, AllAway(P, e), NEW pk, NEW ex,
           PacketLaw(q, B, P, pk), ExchangeLaw(q, B, P, ex), NEW B2, B2 = B + e
    PROVE  PacketsAt(B2, pk) /\ FlagsAt(B2, ex)
<1>1. ASSUME NEW r \in Rank, NEW s \in Rank, s # r, NEW g \in DenseStage, Reduces(g),
             NEW t \in 0 .. (XTiles - 1)
      PROVE  pk[r][Region(g)][s][t].epoch = B2 % PacketEpochs
  <2>1. t \in Nat /\ t % Grid \in Cta
    <3>1. t \in Nat
      BY DenseConstants
    <3>2. QED
      BY <3>1, SameOwner
  <2>2. PICK x : x = P[s][t % Grid]
    OBVIOUS
  <2>3. x = Place("away", e, 0, 0, Nothing)
    BY <2>1, <2>2 DEF AllAway, RowAway
  <2>4. Sent(x, g, t) = e
    BY <2>1, <2>3, AwayProgress
  <2>5. pk[r][Region(g)][s][t].epoch = (B + Sent(x, g, t)) % PacketEpochs
    BY <1>1, <2>2 DEF PacketLaw
  <2>6. QED
    BY <2>4, <2>5
<1>2. ASSUME NEW r \in Rank, NEW s \in Rank, s # r, NEW n \in Nat, NEW y \in 0 .. 1
      PROVE  ex[r].flag[y][s] # B2 + n + 1
  <2>1. SUFFICES ASSUME ex[r].flag[y][s] = B2 + n + 1 PROVE FALSE
    OBVIOUS
  <2>2. PICK k \in Nat : k = e + n
    OBVIOUS
  <2>3. ex[r].flag[y][s] = B + k + 1
    BY <2>1, <2>2
  <2>4. Raised(P[s], k)
    BY <1>2, <2>3 DEF ExchangeLaw
  <2>5. PICK x : x = P[s][0]
    OBVIOUS
  <2>6. x = Place("away", e, 0, 0, Nothing) /\ 0 \in DenseStage /\ 0 \in Cta
    BY <2>5, DenseConstants, AwayPlace DEF AllAway, RowAway
  <2>7. Scored(x) = e
    BY <2>6, AwayProgress
  <2>8. Scored(x) >= k + 1
    BY <2>4, <2>5, <2>6 DEF Raised, HeadPast
  <2>9. QED
    BY <2>2, <2>7, <2>8
<1>3. QED
  BY <1>1, <1>2 DEF PacketsAt, FlagsAt

LEMMA FreshApart ==
    ASSUME NEW q, NEW B \in Nat, NEW P, AllAway(P, 0), NEW pk, NEW ex,
           PacketsAt(B, pk), FlagsAt(B, ex)
    PROVE  SkewLaw(P) /\ PacketLaw(q, B, P, pk) /\ ExchangeLaw(q, B, P, ex)
<1>1. ASSUME NEW s \in Rank, NEW n \in Nat, NEW S
      PROVE  ~HeadPast(P[s], n, S)
  <2>1. PICK x : x = P[s][0]
    OBVIOUS
  <2>2. x = Place("away", 0, 0, 0, Nothing) /\ 0 \in DenseStage /\ 0 \in Cta
    BY <2>1, DenseConstants, AwayPlace DEF AllAway, RowAway
  <2>3. Scored(x) = 0
    BY <2>2, AwayProgress
  <2>4. ~(Scored(x) >= n + 1)
    BY <2>3
  <2>5. QED
    BY <2>1, <2>2, <2>4 DEF HeadPast
<1>2. SkewLaw(P)
  BY <1>1 DEF SkewLaw, Awaited
<1>3. ASSUME NEW r \in Rank, NEW s \in Rank, s # r, NEW g \in DenseStage, Reduces(g),
             NEW t \in 0 .. (XTiles - 1)
      PROVE  /\ Sent(P[s][t % Grid], g, t) = 0
             /\ pk[r][Region(g)][s][t].epoch = (B + 0) % PacketEpochs
  <2>1. t \in Nat /\ t % Grid \in Cta
    <3>1. t \in Nat
      BY DenseConstants
    <3>2. QED
      BY <3>1, SameOwner
  <2>2. PICK x : x = P[s][t % Grid]
    OBVIOUS
  <2>3. x = Place("away", 0, 0, 0, Nothing)
    BY <2>1, <2>2 DEF AllAway, RowAway
  <2>4. Sent(x, g, t) = 0
    BY <2>1, <2>3, AwayProgress
  <2>5. B + 0 = B
    OBVIOUS
  <2>6. pk[r][Region(g)][s][t].epoch = B % PacketEpochs
    BY <1>3 DEF PacketsAt
  <2>7. QED
    BY <2>2, <2>4, <2>5, <2>6
<1>4. PacketLaw(q, B, P, pk)
  BY <1>3 DEF PacketLaw
<1>5. ExchangeLaw(q, B, P, ex)
  BY <1>1 DEF ExchangeLaw, Offered, FlagsAt
<1>6. QED
  BY <1>2, <1>4, <1>5

\* The end of a request: the ranks have done all its rounds.
Served(B, b, q, e) ==
    /\ e \in Nat /\ e = TotalSteps(q)
    /\ \A r \in Rank : /\ Done[r] = Rounds(b, q) /\ RowAway(Places[r], e)
                       /\ iteration[r] = B + e

LEMMA AllIssued ==
    ASSUME NEW m \in Nat, NEW R \in Nat, m >= R * World, NEW n, m = n - 1, NEW r
    PROVE  Issued(n, r) >= R
<1>1. PICK w \in Nat \ {0} : w = World
  BY DenseConstants
<1>2. PICK a \in Nat, z \in 0 .. (w - 1) : a = m \div w /\ m = a * w + z
  BY <1>1, Division
<1>3. a >= R
  <2>1. SUFFICES ASSUME a + 1 <= R PROVE FALSE
    BY <1>2
  <2>2. PICK f \in Nat : R = a + 1 + f
    <3>1. R - (a + 1) \in Nat /\ R = a + 1 + (R - (a + 1))
      BY <1>2, <2>1
    <3>2. QED
      BY <3>1
  <2>3. R * w = a * w + w + f * w /\ f * w \in Nat /\ a * w \in Nat
    BY <2>2
  <2>4. QED
    BY <1>1, <1>2, <2>3
<1>4. Issued(n, r) = a + (IF r < (n - 1) % World THEN 1 ELSE 0)
  BY <1>1, <1>2 DEF Issued
<1>5. QED
  BY <1>2, <1>3, <1>4

LEMMA AllServed ==
    ASSUME NEW B, NEW b, NEW q, Leads(B, b, q), host.next > Len(Commands(q)),
           \A r \in Rank : stream[r] = <<>>
    PROVE  \E e : Served(B, b, q, e)
<1>1. /\ B \in Nat /\ Serves(B) /\ Serving /\ DenseType /\ b = build /\ q = host.request
      /\ b \in [embed : BOOLEAN, groups : BOOLEAN, loop : BOOLEAN]
      /\ q \in Nat /\ q >= 1 /\ q <= Len(NewTokens) /\ \A r \in Rank : RankHolds(B, r)
  BY DEF Leads
<1>2. PICK R, n, p : /\ R \in Nat /\ n \in Nat /\ R = Rounds(b, q) /\ n = host.next
                     /\ n >= 1 /\ p = R * World
  BY DEF Leads
<1>3. p \in Nat /\ n > p
  BY <1>1, <1>2, DenseConstants DEF Leads, Segment
<1>4. PICK m \in Nat : m = n - 1
  BY <1>2
<1>5. m >= p
  BY <1>2, <1>3, <1>4
<1>6. PICK e \in Nat : e = TotalSteps(q) /\ e = FirstOf(b, q, R)
  BY <1>1, <1>2, FirstFacts, RequestFacts
<1>7. ASSUME NEW r \in Rank
      PROVE  Done[r] = R /\ iteration[r] = B + e /\ RowAway(Places[r], e)
  <2>1. StreamLaw(b, q, B, Issued(n, r), stream[r], iteration[r])
    BY <1>1, <1>2 DEF RankHolds
  <2>2. PICK i : i = Issued(n, r)
    OBVIOUS
  <2>3. i >= R
    BY <1>2, <1>4, <1>5, <2>2, AllIssued
  <2>4. i \in Nat /\ Done[r] + Len(stream[r]) = i
    BY <1>1, <1>2, <2>2, StreamFacts
  <2>5. i <= R /\ iteration[r] = B + FirstOf(b, q, i)
    BY <1>2, <2>1, <2>2 DEF StreamLaw
  <2>6. i = R
    BY <1>2, <2>3, <2>4, <2>5
  <2>7. Done[r] = R
    <3>1. PICK d : d = Done[r]
      OBVIOUS
    <3>2. d \in Nat
      <4>1. DenseType /\ Serving
        BY <1>1
      <4>2. B \in Nat /\ RankHolds(B, r)
        BY <1>1
      <4>3. Done[r] \in Nat
        BY <4>1, <4>2, StreamFacts
      <4>4. QED
        BY <3>1, <4>3
    <3>3. Len(stream[r]) = 0
      OBVIOUS
    <3>4. d + Len(stream[r]) = i
      BY <2>4, <3>1
    <3>5. QED
      BY <2>6, <3>1, <3>2, <3>3, <3>4
  <2>8. iteration[r] = B + e
    BY <1>6, <2>5, <2>6
  <2>9. PICK row : row = Places[r]
    OBVIOUS
  <2>10. row \in [Cta -> PlaceSet]
    BY <1>1, <2>9, PlacesTyped
  <2>11. /\ \A c \in Cta : PlaceLaw(b, q, c, row[c])
         /\ KernelLaw(b, q, R, stream[r] # <<>>, row)
    BY <1>1, <2>7, <2>9 DEF RankHolds, RankLaw
  <2>12. ASSUME NEW c \in Cta PROVE row[c] = Place("away", e, 0, 0, Nothing)
    <3>1. PICK x : x = row[c] /\ x \in PlaceSet
      BY <2>10
    <3>2. x.at = "away" /\ x.step = e
      BY <1>6, <2>11, <3>1 DEF KernelLaw
    <3>3. x.stage = 0 /\ x.task = 0 /\ x.held = Nothing
      BY <2>11, <3>1, <3>2 DEF PlaceLaw, Idle
    <3>4. QED
      BY <3>1, <3>2, <3>3, PlaceFields DEF Place
  <2>13. QED
    BY <2>7, <2>8, <2>9, <2>12 DEF RowAway
<1>8. Served(B, b, q, e)
  BY <1>2, <1>6, <1>7 DEF Served
<1>9. QED
  BY <1>8

LEMMA NoneIssued == \A r \in Rank : Issued(1, r) = 0
<1>1. PICK w \in Nat \ {0} : w = World
  BY DenseConstants
<1>2. 0 \in Nat /\ 0 \in 0 .. (w - 1) /\ 0 * w + 0 = 0
  BY <1>1
<1>3. 0 \div w = 0 /\ 0 % w = 0
  BY <1>1, <1>2, DivisionUnique
<1>4. \A r \in Rank : ~(r < 0)
  BY <1>1 DEF Rank
<1>5. 1 - 1 = 0
  OBVIOUS
<1>6. QED
  BY <1>1, <1>3, <1>4, <1>5 DEF Issued

\* A request that has yet to begin.
LEMMA FreshStream ==
    ASSUME NEW b \in [embed : BOOLEAN, groups : BOOLEAN, loop : BOOLEAN],
           NEW q \in Nat, q >= 1, q <= Len(NewTokens), NEW B \in Nat, NEW s, s = <<>>,
           NEW i, i = B
    PROVE  StreamLaw(b, q, B, 0, s, i)
<1>1. 0 <= Rounds(b, q) /\ FirstOf(b, q, 0) = 0
  <2>1. 0 \in Nat
    OBVIOUS
  <2>2. Rounds(b, q) \in Nat /\ FirstOf(b, q, 0) = 0
    BY <2>1, FirstFacts
  <2>3. QED
    BY <2>2
<1>2. Len(s) = 0 /\ B + 0 = B
  OBVIOUS
<1>3. QED
  BY <1>1, <1>2 DEF StreamLaw

LEMMA FreshPlace ==
    ASSUME NEW b, NEW q, NEW p, NEW x, x = Place("away", p, 0, 0, Nothing)
    PROVE  StepSet(x, StepOf(b, q, 0, x)) = Place("away", 0, 0, 0, Nothing)
<1>1. x.at = "away"
  BY DEF Place
<1>2. StepOf(b, q, 0, x) = 0
  BY <1>1 DEF StepOf, FirstOf
<1>3. QED
  BY <1>2, PlaceStep

LEMMA SynchronizeKeeps ==
    ASSUME DenseInv, Synchronize
    PROVE  DenseInv'
<1>1. /\ Serving /\ host.next > Len(Commands(host.request))
      /\ \A r \in Rank : stream[r] = <<>>
  BY DEF Synchronize
<1>2. PICK B, b, q : Leads(B, b, q)
  BY <1>1, Led
<1>3. /\ B \in Nat /\ Serves(B) /\ DenseType /\ b = build /\ q = host.request
      /\ b \in [embed : BOOLEAN, groups : BOOLEAN, loop : BOOLEAN]
      /\ q \in Nat /\ q >= 1 /\ q <= Len(NewTokens) /\ \A r \in Rank : RankHolds(B, r)
  BY <1>2 DEF Leads
<1>4. PICK e : Served(B, b, q, e)
  BY <1>1, <1>2, <1>3, AllServed
<1>5. PICK B2 \in Nat, q2 \in Nat : B2 = B + e /\ q2 = q + 1
  BY <1>3, <1>4 DEF Served
<1>6. UNCHANGED <<build, stream, iteration, cta, bank, memory, tokens, events, groups,
                  arrived, packets, exchange>>
  BY DEF Synchronize, counterVars, linkVars
<1>7. host' \in [request : Nat, next : Nat] /\ host'.request = q2 /\ host'.next = 1
  BY <1>3, <1>5 DEF Synchronize
<1>8. DenseType'
  BY <1>3, <1>5, <1>6, <1>7 DEF DenseType
<1>9. ASSUME NEW r \in Rank, NEW c \in Cta
      PROVE  \E p : cta[r][c] = Place("away", p, 0, 0, Nothing)
  <2>1. PICK x, y : x = cta[r][c] /\ y = Places[r][c] /\ x \in PlaceSet
    BY <1>3 DEF DenseType
  <2>2. y = Place("away", e, 0, 0, Nothing)
    BY <1>4, <2>1 DEF Served, RowAway
  <2>3. PICK k : y = [x EXCEPT !.step = k]
    BY <2>1 DEF Places
  <2>4. PICK a, p, g, t, h : x = Place(a, p, g, t, h)
    <3>1. PICK a, p, g, t, h : /\ a = x.at /\ p = x.step /\ g = x.stage /\ t = x.task
                               /\ h = x.held
      OBVIOUS
    <3>2. x = Place(a, p, g, t, h)
      BY <2>1, <3>1, PlaceFields DEF Place
    <3>3. QED
      BY <3>2
  <2>5. y = Place(a, k, g, t, h)
    BY <2>3, <2>4, PlaceStep DEF StepSet
  <2>6. a = "away" /\ g = 0 /\ t = 0 /\ h = Nothing
    BY <2>2, <2>5 DEF Place
  <2>7. QED
    BY <2>1, <2>4, <2>6
<1>10. \A r \in Rank : stream'[r] = <<>> /\ \A c \in Cta : cta'[r][c].at = "away"
  <2>1. ASSUME NEW r \in Rank, NEW c \in Cta PROVE cta'[r][c].at = "away"
    <3>1. PICK x : x = cta[r][c]
      OBVIOUS
    <3>2. PICK p : x = Place("away", p, 0, 0, Nothing)
      BY <1>9, <3>1
    <3>3. x.at = "away"
      BY <3>2 DEF Place
    <3>4. QED
      BY <1>6, <3>1, <3>3
  <2>2. QED
    BY <1>1, <1>6, <2>1
<1>11. CASE ~Serving'
  BY <1>8, <1>10, <1>11 DEF DenseInv
<1>12. CASE Serving'
  <2>1. q2 >= 1 /\ q2 <= Len(NewTokens)
    BY <1>3, <1>5, <1>7, <1>12 DEF Serving
  <2>2. \A r \in Rank : Done'[r] = 0
    <3>1. \A r \in Rank : Issued(host'.next, r) = 0 /\ Len(stream'[r]) = 0
      BY <1>7, <1>10, NoneIssued
    <3>2. QED
      BY <3>1 DEF Done
  <2>3. PICK P : P = Places'
    OBVIOUS
  <2>4. AllAway(P, 0)
    <3>1. ASSUME NEW r \in Rank, NEW c \in Cta
          PROVE  P[r][c] = Place("away", 0, 0, 0, Nothing)
      <4>1. PICK x : x = cta[r][c]
        OBVIOUS
      <4>2. PICK p : x = Place("away", p, 0, 0, Nothing)
        BY <1>9, <4>1
      <4>3. P[r][c] = [x EXCEPT !.step = StepOf(b, q2, 0, x)]
        BY <1>3, <1>6, <1>7, <2>2, <2>3, <4>1 DEF Places
      <4>4. QED
        BY <4>2, <4>3, FreshPlace DEF StepSet
    <3>2. QED
      BY <3>1 DEF AllAway, RowAway
  <2>5. AllAway(Places, e) /\ e \in Nat
    BY <1>4 DEF Served, AllAway
  <2>6. PacketsAt(B2, packets) /\ FlagsAt(B2, exchange)
    <3>1. Apart(q, B, Places, packets, exchange)
      BY <1>3, ServesForm
    <3>2. QED
      BY <1>3, <1>5, <2>5, <3>1, LinksRest DEF Apart
  <2>7. SkewLaw(P) /\ PacketLaw(q2, B2, P, packets) /\ ExchangeLaw(q2, B2, P, exchange)
    BY <2>4, <2>6, FreshApart
  <2>8. ASSUME NEW r \in Rank PROVE RankHolds(B2, r)'
    <3>1. RankHolds(B, r)
      BY <1>3
    <3>2. PICK row, row2, ev, gr, n, bk, m, tok :
             /\ row = Places[r] /\ row2 = P[r] /\ ev = events[r] /\ gr = groups[r]
             /\ n = arrived[r] /\ bk = bank[r] /\ m = memory[r] /\ tok = tokens[r]
      OBVIOUS
    <3>3. EventsLaw(b, B, row, ev) /\ GroupsLaw(b, B, row, gr) /\ HeadLaw(B, row, n)
      BY <1>3, <3>1, <3>2 DEF RankHolds, RankLaw
    <3>4. RowAway(row, e) /\ RowAway(row2, 0)
      BY <2>4, <2>5, <3>2 DEF AllAway
    <3>5. CountersAt(b, B2, ev, gr, n)
      BY <1>3, <1>5, <2>5, <3>3, <3>4, CountersRest
    <3>6. PICK y \in BOOLEAN : y <=> stream'[r] # <<>>
      OBVIOUS
    <3>7. RankLaw(b, q2, B2, 0, y, row2, ev, gr, n, bk, m, tok)
      BY <3>4, <3>5, FreshRank
    <3>8. RankLaw(build', host'.request, B2, Done'[r], stream'[r] # <<>>, Places'[r], events'[r],
                  groups'[r], arrived'[r], bank'[r], memory'[r], tokens'[r])
      BY <1>3, <1>6, <1>7, <2>2, <2>3, <3>2, <3>6, <3>7 DEF RankLaw, KernelLaw
    <3>9. StreamLaw(build', host'.request, B2, Issued(host'.next, r), stream'[r], iteration'[r])
      <4>1. iteration[r] = B2
        BY <1>4, <1>5 DEF Served
      <4>2. PICK s, i : s = stream'[r] /\ i = iteration'[r]
        OBVIOUS
      <4>3. StreamLaw(b, q2, B2, 0, s, i)
        BY <1>3, <1>6, <1>10, <2>1, <4>1, <4>2, FreshStream
      <4>4. Issued(host'.next, r) = 0
        BY <1>7, NoneIssued
      <4>5. QED
        BY <1>3, <1>6, <1>7, <4>2, <4>3, <4>4
    <3>10. QED
      BY <3>8, <3>9 DEF RankHolds
  <2>9. Serves(B2)'
    <3>1. \A r \in Rank : RankHolds(B2, r)'
      BY <2>8
    <3>2. /\ SkewLaw(Places') /\ PacketLaw(host'.request, B2, Places', packets')
          /\ ExchangeLaw(host'.request, B2, Places', exchange')
      BY <1>6, <1>7, <2>3, <2>7
    <3>3. QED
      BY <3>1, <3>2 DEF Serves, RankHolds
  <2>10. QED
    BY <1>8, <1>12, <2>9 DEF DenseInv
<1>13. QED
  BY <1>11, <1>12

LEMMA UniformAt ==
    ASSUME NEW S, NEW v, NEW T, v \in T
    PROVE  Fill(S, v) \in [S -> T] /\ \A s \in S : Fill(S, v)[s] = v
BY DEF Fill

LEMMA InitTypes ==
    ASSUME Init
    PROVE  DenseType
<1>1. Nothing \in Sound /\ Nothing \in Val /\ 0 \in Nat /\ 1 \in Nat
  BY AwayPlace DEF Sound
<1>2. host \in [request : Nat, next : Nat] /\ host.request = 1 /\ host.next = 1
  BY DEF Init
<1>3. stream \in [Rank -> Seq(Command4)]
  <2>1. <<>> \in Seq(Command4)
    OBVIOUS
  <2>2. QED
    BY <2>1, UniformAt DEF Init
<1>4. cta \in [Rank -> [Cta -> PlaceSet]]
  <2>1. Fill(Cta, Away) \in [Cta -> PlaceSet]
    BY AwayPlace, UniformAt
  <2>2. QED
    BY <2>1, UniformAt DEF Init
<1>5. bank \in [Rank -> [Cta -> [0 .. 1 -> RecordSet]]]
  <2>1. NoRecord \in RecordSet
    BY DEF NoRecord, Record, RecordSet
  <2>2. PICK k : k = Fill(0 .. 1, NoRecord)
    OBVIOUS
  <2>3. k \in [0 .. 1 -> RecordSet]
    BY <2>1, <2>2, UniformAt
  <2>4. Fill(Cta, k) \in [Cta -> [0 .. 1 -> RecordSet]]
    BY <2>3, UniformAt
  <2>5. PICK h : h = Fill(Cta, k)
    OBVIOUS
  <2>6. bank = Fill(Rank, h)
    BY <2>2, <2>5 DEF Init
  <2>7. QED
    BY <2>4, <2>5, <2>6 DEF Fill
<1>6. memory \in [Rank -> MemorySet]
  <2>1. PICK m : m =
          [x |-> Fill(0 .. (XTiles - 1), Nothing), qkv |-> Fill(0 .. (QkvTiles - 1), Nothing),
           context |-> Fill(0 .. (KvGroups - 1), Nothing),
           act |-> Fill(0 .. (ActTiles - 1), Nothing), partial |-> Fill(Cta, Nothing)]
    OBVIOUS
  <2>2. \A S : Fill(S, Nothing) \in [S -> Sound]
    BY <1>1, UniformAt
  <2>3. m \in MemorySet
    BY <2>1, <2>2 DEF MemorySet
  <2>4. QED
    BY <2>1, <2>3, UniformAt DEF Init
<1>7. tokens \in [Rank -> [Position -> Val]]
  <2>1. Fill(Position, Nothing) \in [Position -> Val]
    BY <1>1, UniformAt
  <2>2. QED
    BY <2>1, UniformAt DEF Init
<1>8. /\ events \in [Rank -> [DenseStage -> Nat]]
      /\ groups \in [Rank -> [0 .. (KvGroups - 1) -> Nat]]
      /\ arrived \in [Rank -> Nat] /\ iteration \in [Rank -> Nat]
  <2>1. Fill(DenseStage, 0) \in [DenseStage -> Nat]
        /\ Fill(0 .. (KvGroups - 1), 0) \in [0 .. (KvGroups - 1) -> Nat]
        /\ Fill(Rank, 0) \in [Rank -> Nat]
    BY DEF Fill
  <2>2. events \in [Rank -> [DenseStage -> Nat]]
    BY <2>1, UniformAt DEF Init
  <2>3. groups \in [Rank -> [0 .. (KvGroups - 1) -> Nat]]
    BY DEF Init, Fill
  <2>4. QED
    BY <2>1, <2>2, <2>3 DEF Init
<1>9. packets \in [Rank -> [0 .. (2 * Layers - 1) ->
                      [Rank -> [0 .. (XTiles - 1) -> PacketSet]]]]
  <2>1. PICK v : v = [epoch |-> 0, value |-> Nothing]
    OBVIOUS
  <2>2. v \in PacketSet
    BY <1>1, <2>1 DEF PacketSet
  <2>3. PICK k : k = Fill(0 .. (XTiles - 1), v)
    OBVIOUS
  <2>4. PICK K : K = [0 .. (XTiles - 1) -> PacketSet]
    OBVIOUS
  <2>5. k \in K
    BY <2>2, <2>3, <2>4 DEF Fill
  <2>6. PICK h : h = Fill(Rank, k)
    OBVIOUS
  <2>7. PICK H : H = [Rank -> K]
    OBVIOUS
  <2>8. h \in H
    BY <2>5, <2>6, <2>7 DEF Fill
  <2>9. PICK f, F : f = Fill(0 .. (2 * Layers - 1), h) /\ F = [0 .. (2 * Layers - 1) -> H]
    OBVIOUS
  <2>10. f \in F
    BY <2>8, <2>9 DEF Fill
  <2>11. packets = Fill(Rank, f)
    BY <2>1, <2>3, <2>6, <2>9 DEF Init
  <2>12. packets \in [Rank -> F]
    BY <2>10, <2>11 DEF Fill
  <2>13. QED
    BY <2>4, <2>7, <2>9, <2>12
<1>10. exchange \in [Rank -> ExchangeSet]
  <2>1. PICK d : d = Fill(Rank, Nothing) /\ d \in [Rank -> Val]
    BY <1>1, UniformAt
  <2>2. PICK f : f = Fill(Rank, 0) /\ f \in [Rank -> Nat]
    BY <1>1, UniformAt
  <2>3. PICK v : v = [data |-> Fill(0 .. 1, d), flag |-> Fill(0 .. 1, f)]
    OBVIOUS
  <2>4. Fill(0 .. 1, d) \in [0 .. 1 -> [Rank -> Val]]
        /\ Fill(0 .. 1, f) \in [0 .. 1 -> [Rank -> Nat]]
    BY <2>1, <2>2, UniformAt
  <2>5. v \in ExchangeSet
    BY <2>3, <2>4 DEF ExchangeSet
  <2>6. exchange = Fill(Rank, v)
    BY <2>1, <2>2, <2>3 DEF Init
  <2>7. QED
    BY <2>5, <2>6, UniformAt
<1>11. build \in Builds
  BY DEF Init
<1>12. QED
  BY <1>2, <1>3, <1>4, <1>5, <1>6, <1>7, <1>8, <1>9, <1>10, <1>11 DEF DenseType, Command4

LEMMA InitLinks ==
    ASSUME Init
    PROVE  PacketsAt(0, packets) /\ FlagsAt(0, exchange)
<1>1. ASSUME NEW r \in Rank, NEW s \in Rank, NEW g \in DenseStage, Reduces(g),
             NEW t \in 0 .. (XTiles - 1)
      PROVE  packets[r][Region(g)][s][t].epoch = 0 % PacketEpochs
  <2>1. PICK v : v = [epoch |-> 0, value |-> Nothing]
    OBVIOUS
  <2>2. packets[r][Region(g)][s][t] = v
    <3>1. Region(g) \in 0 .. (2 * Layers - 1)
      BY <1>1, RegionFacts
    <3>2. QED
      BY <2>1, <3>1 DEF Init, Fill
  <2>3. 0 % PacketEpochs = 0
    <3>1. PICK w \in Nat \ {0} : w = PacketEpochs
      BY DenseConstants
    <3>2. 0 \in Nat /\ 0 \in 0 .. (w - 1) /\ 0 * w + 0 = 0
      BY <3>1
    <3>3. 0 % w = 0
      BY <3>1, <3>2, DivisionUnique
    <3>4. QED
      BY <3>1, <3>3
  <2>4. QED
    BY <2>1, <2>2, <2>3
<1>2. ASSUME NEW r \in Rank, NEW s \in Rank, NEW n \in Nat, NEW y \in 0 .. 1
      PROVE  exchange[r].flag[y][s] # 0 + n + 1
  <2>1. exchange[r].flag[y][s] = 0
    BY DEF Init, Fill
  <2>2. QED
    BY <2>1
<1>3. QED
  BY <1>1, <1>2 DEF PacketsAt, FlagsAt

LEMMA InitHolds ==
    ASSUME Init
    PROVE  DenseInv
<1>1. DenseType
  BY InitTypes
<1>2. PICK b \in [embed : BOOLEAN, groups : BOOLEAN, loop : BOOLEAN], q \in Nat :
         b = build /\ q = host.request /\ q = 1
  <2>1. build \in [embed : BOOLEAN, groups : BOOLEAN, loop : BOOLEAN]
    BY <1>1, BuildType DEF DenseType
  <2>2. host.request = 1 /\ 1 \in Nat
    BY DEF Init
  <2>3. QED
    BY <2>1, <2>2
<1>3. host.next = 1
  BY DEF Init
<1>4. \A r \in Rank : stream[r] = <<>> /\ iteration[r] = 0
                      /\ \A c \in Cta : cta[r][c] = Away
  BY DEF Init, Fill
<1>5. CASE ~Serving
  BY <1>1, <1>4, <1>5 DEF DenseInv, Away
<1>6. CASE Serving
  <2>1. q >= 1 /\ q <= Len(NewTokens)
    BY <1>2, <1>6 DEF Serving
  <2>2. \A r \in Rank : Done[r] = 0
    <3>1. \A r \in Rank : Issued(host.next, r) = 0 /\ Len(stream[r]) = 0
      BY <1>3, <1>4, NoneIssued
    <3>2. QED
      BY <3>1 DEF Done
  <2>3. AllAway(Places, 0)
    <3>1. ASSUME NEW r \in Rank, NEW c \in Cta
          PROVE  Places[r][c] = Place("away", 0, 0, 0, Nothing)
      <4>1. PICK x : x = cta[r][c]
        OBVIOUS
      <4>2. x = Place("away", 0, 0, 0, Nothing)
        BY <1>4, <4>1, AwayPlace
      <4>3. Places[r][c] = [x EXCEPT !.step = StepOf(b, q, 0, x)]
        BY <1>2, <2>2, <4>1 DEF Places
      <4>4. QED
        BY <4>2, <4>3, FreshPlace DEF StepSet
    <3>2. QED
      BY <3>1 DEF AllAway, RowAway
  <2>4. SkewLaw(Places) /\ PacketLaw(q, 0, Places, packets) /\ ExchangeLaw(q, 0, Places, exchange)
    BY <2>3, InitLinks, FreshApart
  <2>5. ASSUME NEW r \in Rank PROVE RankHolds(0, r)
    <3>1. PICK row, ev, gr, n, bk, m, tok :
             /\ row = Places[r] /\ ev = events[r] /\ gr = groups[r]
             /\ n = arrived[r] /\ bk = bank[r] /\ m = memory[r] /\ tok = tokens[r]
      OBVIOUS
    <3>2. RowAway(row, 0)
      BY <2>3, <3>1 DEF AllAway
    <3>3. CountersAt(b, 0, ev, gr, n)
      <4>1. /\ \A g \in DenseStage : ev[g] = 0
            /\ \A k \in 0 .. (KvGroups - 1) : gr[k] = 0
            /\ n = 0
        BY <3>1 DEF Init, Fill
      <4>2. Grid * 0 = 0 /\ 0 * Layers = 0 /\ GroupTiles * 0 = 0
        BY DenseConstants, GroupTilesFacts
      <4>3. QED
        BY <4>1, <4>2 DEF CountersAt
    <3>4. PICK y \in BOOLEAN : y <=> stream[r] # <<>>
      OBVIOUS
    <3>5. RankLaw(b, q, 0, 0, y, row, ev, gr, n, bk, m, tok)
      BY <3>2, <3>3, FreshRank
    <3>6. RankLaw(build, host.request, 0, Done[r], stream[r] # <<>>, Places[r], events[r],
                  groups[r], arrived[r], bank[r], memory[r], tokens[r])
      BY <1>2, <2>2, <3>1, <3>4, <3>5 DEF RankLaw, KernelLaw
    <3>7. StreamLaw(build, host.request, 0, Issued(host.next, r), stream[r], iteration[r])
      <4>1. PICK s, i : s = stream[r] /\ i = iteration[r]
        OBVIOUS
      <4>2. StreamLaw(b, q, 0, 0, s, i)
        BY <1>2, <1>4, <2>1, <4>1, FreshStream
      <4>3. Issued(host.next, r) = 0
        BY <1>3, NoneIssued
      <4>4. QED
        BY <1>2, <4>1, <4>2, <4>3
    <3>8. QED
      BY <3>6, <3>7 DEF RankHolds
  <2>6. Serves(0)
    BY <1>2, <2>4, <2>5 DEF Serves, RankHolds
  <2>7. QED
    BY <1>1, <1>6, <2>6 DEF DenseInv
<1>7. QED
  BY <1>5, <1>6

-----------------------------------------------------------------------------
(***************************************************************************)
(* What holds of every behaviour.                                          *)
(***************************************************************************)
LEMMA DenseStutter ==
    ASSUME DenseInv, UNCHANGED vars
    PROVE  DenseInv'
<1>1. /\ build' = build /\ host' = host /\ stream' = stream /\ iteration' = iteration
      /\ cta' = cta /\ bank' = bank /\ memory' = memory /\ tokens' = tokens
      /\ events' = events /\ groups' = groups /\ arrived' = arrived
      /\ packets' = packets /\ exchange' = exchange
  BY DEF vars
<1>2. DenseType' <=> DenseType
  BY <1>1 DEF DenseType
<1>3. Serving' <=> Serving
  BY <1>1 DEF Serving
<1>4. Done' = Done /\ Places' = Places
  BY <1>1 DEF Done, Places
<1>5. ASSUME NEW B, Serves(B) PROVE Serves(B)'
  BY <1>1, <1>4, <1>5 DEF Serves
<1>6. QED
  BY <1>1, <1>2, <1>3, <1>5 DEF DenseInv

LEMMA CtaStepKeeps ==
    ASSUME DenseInv, NEW r \in Rank, NEW c \in Cta, CtaStep(r, c)
    PROVE  DenseInv'
<1>1. CASE SkipPrologue(r, c)
  BY <1>1, SkipKeeps
<1>2. CASE Embed(r, c)
  BY <1>2, EmbedKeeps
<1>3. CASE Compute(r, c)
  BY <1>3, ComputeKeeps
<1>4. CASE SendTile(r, c)
  BY <1>4, SendKeeps
<1>5. CASE ReduceTile(r, c)
  BY <1>5, ReduceKeeps
<1>6. CASE Score(r, c)
  BY <1>6, ScoreKeeps
<1>7. CASE FinishHead(r, c)
  BY <1>7, FinishKeeps
<1>8. CASE OfferCandidate(r, c)
  BY <1>8, OfferKeeps
<1>9. CASE RaiseFlags(r, c)
  BY <1>9, RaiseKeeps
<1>10. CASE AwaitFlags(r, c)
  BY <1>10, AwaitKeeps
<1>11. CASE ChooseToken(r, c)
  BY <1>11, ChooseKeeps
<1>12. CASE Join(r, c)
  BY <1>12, JoinKeeps
<1>13. CASE Pass(r, c)
  BY <1>13, PassKeeps
<1>14. QED
  BY <1>1, <1>2, <1>3, <1>4, <1>5, <1>6, <1>7, <1>8, <1>9, <1>10, <1>11, <1>12, <1>13
     DEF CtaStep

(* The inductive invariant of the dense program: for every number of ranks, *)
(* CTAs, layers, tiles and requests, and every compiled form, each rank's   *)
(* counters count the arrivals of its CTAs, its stream holds the rounds the *)
(* host has issued and it has not done, its memory, packets and candidates  *)
(* are of the steps its CTAs have reached, and no rank is past the head of  *)
(* a step that another has yet to raise its flag for.                       *)
THEOREM DenseInductive == Spec => []DenseInv
<1>1. Init => DenseInv
  BY InitHolds
<1>2. DenseInv /\ [Next]_vars => DenseInv'
  <2>1. SUFFICES ASSUME DenseInv, [Next]_vars PROVE DenseInv'
    OBVIOUS
  <2>2. CASE UNCHANGED vars
    BY <2>1, <2>2, DenseStutter
  <2>3. CASE Next
    <3>1. CASE Issue
      BY <2>1, <3>1, IssueKeeps
    <3>2. CASE Synchronize
      BY <2>1, <3>2, SynchronizeKeeps
    <3>3. ASSUME NEW r \in Rank, CopyPrompt(r) PROVE DenseInv'
      BY <2>1, <3>3, CopyKeeps
    <3>4. ASSUME NEW r \in Rank, StartKernel(r) PROVE DenseInv'
      BY <2>1, <3>4, StartKeeps
    <3>5. ASSUME NEW r \in Rank, EndKernel(r) PROVE DenseInv'
      BY <2>1, <3>5, EndKeeps
    <3>6. ASSUME NEW r \in Rank, NEW c \in Cta, CtaStep(r, c) PROVE DenseInv'
      BY <2>1, <3>6, CtaStepKeeps
    <3>7. QED
      BY <2>3, <3>1, <3>2, <3>3, <3>4, <3>5, <3>6 DEF Next
  <2>4. QED
    BY <2>1, <2>2, <2>3
<1>3. QED
  BY <1>1, <1>2, PTL DEF Spec

LEMMA NoneGarbled ==
    ASSUME DenseInv
    PROVE  InputsCurrent
<1>1. DenseType
  BY DEF DenseInv
<1>2. Garbled \notin Sound
  BY DEF Sound, Val, Garbled, Nothing, Value
<1>3. ASSUME NEW r \in Rank
      PROVE  /\ \A i \in DOMAIN memory[r].x : memory[r].x[i] # Garbled
             /\ \A i \in DOMAIN memory[r].qkv : memory[r].qkv[i] # Garbled
             /\ \A i \in DOMAIN memory[r].context : memory[r].context[i] # Garbled
             /\ \A i \in DOMAIN memory[r].act : memory[r].act[i] # Garbled
             /\ \A c \in Cta : Garbled \notin {memory[r].partial[c], cta[r][c].held}
  <2>1. PICK m : m = memory[r] /\ m \in MemorySet
    BY <1>1 DEF DenseType
  <2>2. /\ m.x \in [0 .. (XTiles - 1) -> Sound] /\ m.qkv \in [0 .. (QkvTiles - 1) -> Sound]
        /\ m.context \in [0 .. (KvGroups - 1) -> Sound]
        /\ m.act \in [0 .. (ActTiles - 1) -> Sound] /\ m.partial \in [Cta -> Sound]
    BY <2>1 DEF MemorySet
  <2>3. \A c \in Cta : cta[r][c].held \in Sound
    BY <1>1 DEF DenseType, PlaceSet
  <2>4. QED
    BY <1>2, <2>1, <2>2, <2>3
<1>4. QED
  BY <1>3 DEF InputsCurrent

(* Every task of the dense program reads what the stage before wrote in    *)
(* this step: no barrier, group counter, packet epoch or flag lets a CTA   *)
(* of any rank go on with something else.                                  *)
THEOREM InputsAreCurrent == Spec => []InputsCurrent
BY DenseInductive, NoneGarbled, PTL

LEMMA AllAgree ==
    ASSUME DenseInv
    PROVE  RanksAgree
<1>1. SUFFICES ASSUME Serving, host.next > Len(Commands(host.request)),
                      \A r \in Rank : stream[r] = <<>>, NEW r \in Rank,
                      NEW p \in 0 .. (PromptLen + NewTokens[host.request] - 1)
               PROVE  tokens[r][p] = Token(host.request, p)
  BY DEF RanksAgree
<1>2. PICK B, b, q : Leads(B, b, q)
  BY <1>1, Led
<1>3. /\ b = build /\ q = host.request /\ RankHolds(B, r)
      /\ b \in [embed : BOOLEAN, groups : BOOLEAN, loop : BOOLEAN]
      /\ q \in Nat /\ q >= 1 /\ q <= Len(NewTokens)
  BY <1>2 DEF Leads
<1>4. PICK e \in Nat : Served(B, b, q, e)
  BY <1>1, <1>2, <1>3, AllServed DEF Served
<1>5. PICK row, d : row = Places[r] /\ d = Rounds(b, q)
  OBVIOUS
<1>6. RowAway(row, e) /\ Done[r] = d /\ e = TotalSteps(q)
  BY <1>4, <1>5 DEF Served
<1>7. TokenLaw(q, d, row, tokens[r])
  BY <1>3, <1>5, <1>6 DEF RankHolds, RankLaw
<1>8. d >= 1
  <2>1. 0 \in Nat
    OBVIOUS
  <2>2. d \in Nat /\ d >= 2
    BY <1>3, <1>5, <2>1, FirstFacts
  <2>3. QED
    BY <2>2
<1>9. PICK N \in Nat : N = NewTokens[q] /\ e = PromptLen + N - 1
                       /\ 0 .. (PromptLen + N) \in SUBSET Position
  BY <1>3, <1>6, RequestFacts
<1>10. p \in Nat /\ p <= e /\ p \in Position
  <2>1. p \in 0 .. (PromptLen + N - 1) /\ PromptLen \in Nat
    BY <1>3, <1>9, DenseConstants
  <2>2. PICK L \in Nat : L = PromptLen
    BY <2>1
  <2>3. p \in 0 .. (L + N - 1) /\ e = L + N - 1
    BY <1>9, <2>1, <2>2
  <2>4. p \in Nat /\ p <= e /\ p \in 0 .. (L + N)
    BY <2>3
  <2>5. QED
    BY <1>9, <2>2, <2>4
<1>11. CASE p < PromptLen
  <2>1. p \in 0 .. (PromptLen - 1)
    BY <1>10, <1>11, DenseConstants
  <2>2. QED
    BY <1>3, <1>7, <1>8, <2>1 DEF TokenLaw
<1>12. CASE ~(p < PromptLen)
  <2>1. p >= PromptLen /\ PromptLen >= 1
    BY <1>10, <1>12, DenseConstants
  <2>2. ASSUME NEW c \in Cta PROVE Scored(row[c]) >= p - 1 + 1 /\ row[c].at \notin Deciding
    <3>1. PICK x : x = row[c]
      OBVIOUS
    <3>2. x = Place("away", e, 0, 0, Nothing) /\ 0 \in DenseStage
      BY <1>6, <3>1, AwayPlace DEF RowAway
    <3>3. Scored(x) = e
      BY <3>2, AwayProgress
    <3>4. x.at = "away"
      BY <3>2 DEF Place
    <3>5. QED
      BY <1>10, <3>1, <3>3, <3>4 DEF Deciding
  <2>3. Chosen(row, p - 1)
    BY <2>2 DEF Chosen, HeadPast
  <2>4. QED
    BY <1>3, <1>7, <1>10, <2>1, <2>3 DEF TokenLaw
<1>13. QED
  BY <1>10, <1>11, <1>12, DenseConstants

(* When a request has been synchronized every rank's buffer holds the      *)
(* prompt and then the tokens chosen among all ranks' candidates: the      *)
(* driver's comparison of the ranks' tokens never fails.                   *)
THEOREM RanksChooseAlike == Spec => []RanksAgree
BY DenseInductive, AllAgree, PTL
=============================================================================
