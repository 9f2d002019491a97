----------------------------- MODULE HandlerProofs -----------------------------
(***************************************************************************)
(* What a job may cost, what its query asks, which jobs are refused, what  *)
(* a ping tells and what a board is shown, for every payload, every view   *)
(* of a position and every setting of the bounds.                          *)
(***************************************************************************)
EXTENDS Handler, FiniteSetTheorems, TLAPS

AskedRight ==
  /\ job.kind \in {"review", "analyze"} /\ Validates(job)
  /\ query = QueryFor(job, humanModel)

LEMMA NextType == TypeOK /\ [Next]_vars => TypeOK'
<1> SUFFICES ASSUME TypeOK, [Next]_vars PROVE TypeOK'
  OBVIOUS
<1>1. CASE Dispatch \/ Reached \/ CallFails \/ Ends \/ EngineChanges \/ UNCHANGED vars
  <2>1. UNCHANGED <<job, humanModel, query, view>>
    BY <1>1 DEF Dispatch, Reached, CallFails, Ends, EngineChanges, vars
  <2>2. /\ at' \in {"received", "reaching", "calling", "asked"} \cup Over
        /\ warm' \in BOOLEAN /\ engine' \in Engines
        /\ at' = "asked" => at = "asked"
        /\ at' \in {"reaching", "calling"} => job.kind \in Kinds
    BY <1>1 DEF TypeOK, Dispatch, Reached, CallFails, Ends, EngineChanges, vars,
                Over, Engines, Kinds
  <2>3. (query # Absent \/ at = "asked" => AskedRight)'
    <3>1. (query # Absent \/ at = "asked")' => query # Absent \/ at = "asked"
      BY <2>1, <2>2
    <3>2. query # Absent \/ at = "asked" => AskedRight
      BY DEF TypeOK, AskedRight
    <3>3. AskedRight <=> AskedRight'
      BY <2>1 DEF AskedRight, Validates, ReviewIn, AnalyzeIn
    <3> QED
      BY <3>1, <3>2, <3>3
  <2> QED
    BY <2>1, <2>2, <2>3 DEF TypeOK, AskedRight
<1>2. CASE Called
  <2>1. /\ UNCHANGED <<job, humanModel, view>> /\ engine' \in Engines
        /\ warm' \in BOOLEAN /\ job.kind \in Kinds /\ at = "calling"
    BY <1>2 DEF Called, CallReturns, TypeOK, Engines
  <2>2. /\ at' \in {"asked"} \cup Over
        /\ query' # query \/ at' = "asked" =>
             /\ Validates(job) /\ query' = QueryFor(job, humanModel) /\ job.kind # "ping"
    BY <1>2 DEF Called, CallReturns, Ask, AskIf, Over
  <2>3. (query # Absent \/ at = "asked" => AskedRight)'
    <3>1. Validates(job)' <=> Validates(job)
      BY <2>1
    <3>2. QueryFor(job, humanModel)' = QueryFor(job, humanModel)
      BY <2>1
    <3>3. CASE query' # query \/ at' = "asked"
      BY <2>1, <2>2, <3>1, <3>2, <3>3 DEF AskedRight, Kinds
    <3>4. CASE query' = query /\ at' # "asked"
      BY <2>1, <3>1, <3>2, <3>4 DEF AskedRight, TypeOK
    <3> QED
      BY <3>3, <3>4
  <2> QED
    BY <2>1, <2>2, <2>3 DEF TypeOK, AskedRight, Over
<1>3. CASE Analysed
  BY <1>3 DEF Analysed, TypeOK, Over
<1> QED
  BY <1>1, <1>2, <1>3 DEF Next

(***************************************************************************)
(* A query is only ever what a valid payload asks for (handler.py:251).    *)
(***************************************************************************)
THEOREM TypeCorrect == Spec => []TypeOK
<1>1. Init => TypeOK
  BY DEF Init, TypeOK
<1> QED
  BY <1>1, NextType, PTL DEF Spec

LEMMA PayloadsFit ==
  ASSUME job \in Payloads, job.kind \in {"review", "analyze"}
  PROVE  /\ job.moves \in Seq(Spelled) /\ job.stones \in Seq(Spelled)
         /\ Len(job.moves) \in Nat /\ job.visits \in Int \cup {Absent}
<1>1. job.moves \in Games /\ job.stones \in Setups /\ job.visits \in Visits \cup {Absent}
  BY DEF Payloads
<1>2. job.moves \in Seq(Spelled) /\ job.stones \in Seq(Spelled)
  BY <1>1, HandlerAssumption
<1>3. Len(job.moves) \in Nat
  BY <1>2
<1>4. job.visits \in Int \cup {Absent}
  BY <1>1, HandlerAssumption
<1> QED
  BY <1>2, <1>3, <1>4

\* The positions searched are as many as there are moves, or one.
LEMMA Turns ==
  ASSUME NEW n \in Nat
  PROVE  Cardinality(0 .. n - 1) = n /\ Cardinality({n}) = 1
<1>1. Cardinality(0 .. n - 1) = n
  <2>1. CASE n = 0
    BY <2>1, FS_EmptySet
  <2>2. CASE n # 0
    BY <2>2, FS_Interval
  <2> QED
    BY <2>1, <2>2
<1>2. Cardinality({n}) = 1
  BY FS_Singleton
<1> QED
  BY <1>1, <1>2

LEMMA TypeBoundsCost == TypeOK => CostIsBounded
<1> SUFFICES ASSUME TypeOK, query # Absent PROVE CostIsBounded
  BY DEF CostIsBounded
<1>1. AskedRight /\ job \in Payloads
  BY DEF TypeOK, AskedRight
<1>2. Len(job.moves) \in Nat /\ job.visits \in Int \cup {Absent}
  BY <1>1, PayloadsFit DEF AskedRight
<1>3. CASE job.kind = "review"
  <2>1. query.turns = 0 .. Len(job.moves) - 1 /\ query.visits = VisitsAsked(job)
    BY <1>1, <1>3 DEF AskedRight, QueryFor, BuildQuery
  <2>2. Len(job.moves) <= MaxMoves /\ Or(job.visits, ReviewVisits) \in 0 .. MaxVisits
    BY <1>1, <1>3 DEF AskedRight, Validates, ReviewIn
  <2>3. IF AsksForDefault(job) THEN query.visits = DefaultVisits
                               ELSE query.visits \in 1 .. MaxVisits
    <3>1. CASE job.visits = 0
      BY <1>3, <2>1, <3>1, RequestsAssumption DEF VisitsAsked, AsksForDefault, Or
    <3>2. CASE job.visits # 0
      <4>1. Or(job.visits, ReviewVisits) \in 1 .. MaxVisits
        BY <1>2, <2>2, <3>2, RequestsAssumption DEF Or
      <4> QED
        BY <1>3, <2>1, <3>2, <4>1 DEF VisitsAsked, AsksForDefault
    <3> QED
      BY <3>1, <3>2
  <2>4. Cardinality(query.turns) = Len(job.moves)
    BY <2>1, <1>2, Turns
  <2> QED
    BY <1>3, <2>2, <2>3, <2>4 DEF CostIsBounded
<1>4. CASE job.kind = "analyze"
  <2>1. query.turns = {Len(job.moves)} /\ query.visits = Or(job.visits, AnalyzeVisits)
    BY <1>1, <1>4 DEF AskedRight, QueryFor, BuildPositionQuery
  <2>2. query.visits \in MinVisits .. MaxVisits
    BY <1>1, <1>4, <2>1 DEF AskedRight, Validates, AnalyzeIn
  <2>3. Cardinality(query.turns) = 1
    BY <2>1, <1>2, Turns
  <2> QED
    BY <1>4, <2>2, <2>3, RequestsAssumption DEF CostIsBounded, AsksForDefault
<1> QED
  BY <1>1, <1>3, <1>4 DEF AskedRight

(***************************************************************************)
(* No job costs more than the bounds of its kind allow, whatever its       *)
(* payload leaves out, but for the review that asks for the default, which *)
(* costs what the environment says (schemas.py:76-84, config.py:37).       *)
(***************************************************************************)
THEOREM NoJobCostsMore == Spec => []CostIsBounded
BY TypeCorrect, TypeBoundsCost, PTL

(***************************************************************************)
(* Whatever state a worker is in, it answers a ping, and a warm one says   *)
(* whether the engine runs at that moment (handler.py:150-199).            *)
(***************************************************************************)
THEOREM PingIsTrue == Spec => PingTellsTheTruth
<1> DEFINE Truth == job.kind = "ping" =>
      /\ at' \notin {"failed", "refused"}
      /\ at' = "reported" /\ at # at' /\ job.warm => warm' = (engine' = "running")
<1>1. TypeOK /\ [Next]_vars => [Truth]_vars
  <2> SUFFICES ASSUME TypeOK, Next, job.kind = "ping" PROVE Truth
    BY DEF Truth
  <2>1. ~(at = "asked")
    BY DEF TypeOK
  <2>2. CASE Dispatch
    BY <2>2 DEF Dispatch, Kinds
  <2>3. CASE Reached
    BY <2>3 DEF Reached
  <2>4. CASE Called
    BY <2>4 DEF Called, CallReturns
  <2>5. CASE CallFails
    BY <2>5 DEF CallFails, Engines
  <2>6. CASE Analysed \/ Ends
    BY <2>6, <2>1 DEF Analysed, Ends
  <2>7. CASE EngineChanges
    BY <2>7 DEF EngineChanges, Over
  <2> QED
    BY <2>2, <2>3, <2>4, <2>5, <2>6, <2>7 DEF Next
<1> QED
  BY <1>1, TypeCorrect, PTL DEF Spec, PingTellsTheTruth

\* Both spellings of a move come out as the move that was meant.
LEMMA MeantAsWritten ==
  ASSUME NEW moves \in Seq(Spelled), AreMoves(moves)
  PROVE  SaysAll(moves, AsPairs(moves))
<1>1. ASSUME NEW m \in Spelled, IsMove(m)
      PROVE  Says(m, AsPair(m))
  <2>1. CASE m.form = "pair"
    <3>1. m \in [form : {"pair"}, words : Seq(Words)] /\ Len(m.words) = 2
      BY <1>1, <2>1 DEF Spelled, IsMove, IsPair, IsObject
    <3>2. m.words = <<m.words[1], m.words[2]>>
      BY <3>1
    <3>3. m = [form |-> "pair", words |-> m.words]
      BY <3>1
    <3> QED
      BY <2>1, <3>2, <3>3 DEF Says, AsPair, Pair
  <2>2. CASE m.form # "pair"
    <3>1. m = [form |-> "object", color |-> m.color, loc |-> m.loc]
      BY <2>2 DEF Spelled
    <3> QED
      BY <2>2, <3>1 DEF Says, AsPair, Object
  <2> QED
    BY <2>1, <2>2
<1>2. \A i \in DOMAIN moves : moves[i] \in Spelled
  OBVIOUS
<1>3. DOMAIN AsPairs(moves) = DOMAIN moves /\ Len(AsPairs(moves)) = Len(moves)
  BY DEF AsPairs
<1>4. \A i \in DOMAIN moves : AsPairs(moves)[i] = AsPair(moves[i])
  BY DEF AsPairs
<1> QED
  BY <1>1, <1>2, <1>3, <1>4 DEF SaysAll, AreMoves

LEMMA TypeAsksRight == TypeOK => AsksWhatWasMeant
<1> SUFFICES ASSUME TypeOK, query # Absent PROVE AsksWhatWasMeant
  BY DEF AsksWhatWasMeant
<1>1. AskedRight /\ job \in Payloads
  BY DEF TypeOK, AskedRight
<1>2. /\ job.moves \in Seq(Spelled) /\ job.stones \in Seq(Spelled)
      /\ Len(job.moves) \in Nat
  BY <1>1, PayloadsFit DEF AskedRight
<1>3. AreMoves(job.moves) /\ AreMoves(job.stones)
  BY <1>1 DEF AskedRight, Validates, ReviewIn, AnalyzeIn
<1>4. query.moves = AsPairs(job.moves) /\ query.stones = AsPairs(job.stones)
  BY <1>1 DEF AskedRight, QueryFor, BuildQuery, BuildPositionQuery
<1>5. SaysAll(job.moves, query.moves) /\ SaysAll(job.stones, query.stones)
  BY <1>2, <1>3, <1>4, MeantAsWritten
<1>6. query.turns = {n \in 0 .. Len(job.moves) :
                       n < Len(job.moves) <=> job.kind = "review"}
  <2>1. CASE job.kind = "review"
    BY <1>1, <1>2, <2>1 DEF AskedRight, QueryFor, BuildQuery
  <2>2. CASE job.kind = "analyze"
    BY <1>1, <1>2, <2>2 DEF AskedRight, QueryFor, BuildPositionQuery
  <2> QED
    BY <1>1, <2>1, <2>2 DEF AskedRight
<1>7. query.rank # Absent => humanModel /\ job.human
  <2>1. CASE job.kind = "review"
    BY <1>1, <2>1 DEF AskedRight, QueryFor, BuildQuery
  <2>2. CASE job.kind # "review"
    BY <1>1, <2>2 DEF AskedRight, QueryFor, BuildPositionQuery
  <2> QED
    BY <2>1, <2>2
<1> QED
  BY <1>5, <1>6, <1>7 DEF AsksWhatWasMeant

(***************************************************************************)
(* However a game was spelled, the engine is asked about the moves that    *)
(* were meant and the positions that were asked for (schemas.py:29-57).    *)
(***************************************************************************)
THEOREM AskedAsMeant == Spec => []AsksWhatWasMeant
BY TypeCorrect, TypeAsksRight, PTL

\* The inductive invariant behind RefusedIsMeaningless.
RefusedInvalid ==
  at = "refused" => job.kind \in {"review", "analyze"} /\ ~Validates(job)

LEMMA MeantIsTaken ==
  ASSUME NEW moves, Meant(moves)
  PROVE  AreMoves(moves)
<1> SUFFICES ASSUME NEW i \in DOMAIN moves PROVE IsMove(moves[i])
  BY DEF AreMoves
<1>1. PICK c \in Colours, l \in Words \ {Absent} : Says(moves[i], <<c, l>>)
  BY DEF Meant
<1>2. CASE moves[i] = Pair(<<c, l>>)
  BY <1>2 DEF Pair, IsMove, IsPair, Plays
<1>3. CASE moves[i] = Object(c, l)
  BY <1>3 DEF Object, IsMove, IsObject, Plays
<1> QED
  BY <1>1, <1>2, <1>3 DEF Says

(***************************************************************************)
(* A job is refused only for a move that means nothing, a game that is too *)
(* long or visits out of bounds (schemas.py:38-44).                        *)
(***************************************************************************)
THEOREM NothingMeantIsRefused == Spec => []RefusedIsMeaningless
<1>1. Init => RefusedInvalid
  BY DEF Init, RefusedInvalid
<1>2. TypeOK /\ RefusedInvalid /\ [Next]_vars => RefusedInvalid'
  <2> SUFFICES ASSUME TypeOK, RefusedInvalid, [Next]_vars, at' = "refused"
               PROVE  (job.kind \in {"review", "analyze"} /\ ~Validates(job))'
    BY DEF RefusedInvalid
  <2>1. job' = job
    BY DEF Next, Dispatch, Reached, Called, CallReturns, CallFails, Analysed, Ends,
           EngineChanges, vars
  <2>2. job.kind \in {"review", "analyze"} /\ ~Validates(job)
    <3>1. CASE Called
      BY <3>1 DEF Called, CallReturns, Ask, AskIf, TypeOK, Kinds
    <3>2. CASE ~Called
      <4>1. at = "refused"
        BY <3>2 DEF Next, Dispatch, Reached, CallFails, Analysed, Ends, EngineChanges, vars
      <4> QED
        BY <4>1 DEF RefusedInvalid
    <3> QED
      BY <3>1, <3>2
  <2> QED
    BY <2>1, <2>2
<1>3. RefusedInvalid => RefusedIsMeaningless
  <2> SUFFICES ASSUME RefusedInvalid, at = "refused", Meant(job.moves), Meant(job.stones)
               PROVE  RefusedIsMeaningless
    BY DEF RefusedIsMeaningless
  <2>1. AreMoves(job.moves) /\ AreMoves(job.stones)
    BY MeantIsTaken
  <2>2. CASE job.kind = "review"
    BY <2>1, <2>2, RequestsAssumption
       DEF RefusedInvalid, Validates, ReviewIn, Or, RefusedIsMeaningless
  <2>3. CASE job.kind = "analyze"
    BY <2>1, <2>3, RequestsAssumption
       DEF RefusedInvalid, Validates, AnalyzeIn, Or, RefusedIsMeaningless
  <2> QED
    BY <2>2, <2>3 DEF RefusedInvalid
<1> QED
  BY <1>1, <1>2, <1>3, TypeCorrect, PTL DEF Spec

-------------------------------------------------------------------------------
(***************************************************************************)
(* What a board is shown.  Below, an engine's candidates are `infos`.      *)
(***************************************************************************)
UpTo(infos, i) ==
  {j \in DOMAIN infos :
    \/ infos[j].order < infos[i].order
    \/ infos[j].order = infos[i].order /\ j <= i}

\* The places of the candidates say which comes before which.
LEMMA PlacesOrder ==
  ASSUME NEW S, NEW infos \in Seq(S), \A i \in DOMAIN infos : infos[i].order \in Int,
         NEW i \in DOMAIN infos, NEW j \in DOMAIN infos
  PROVE  /\ Place(infos, i) \in 1 .. Len(infos)
         /\ Before(infos, i, j) <=> Place(infos, i) < Place(infos, j)
         /\ i # j => Place(infos, i) # Place(infos, j)
<1> DEFINE D == DOMAIN infos
<1>1. D = 1 .. Len(infos) /\ Len(infos) \in Nat /\ D \subseteq Nat
  OBVIOUS
<1>2. IsFiniteSet(D) /\ Cardinality(D) = Len(infos)
  <2>1. IsFiniteSet(1 .. Len(infos))
        /\ Cardinality(1 .. Len(infos)) = IF 1 > Len(infos) THEN 0 ELSE Len(infos) - 1 + 1
    BY <1>1, FS_Interval
  <2> QED
    BY <1>1, <2>1
<1>3. ASSUME NEW k \in D
      PROVE  /\ UpTo(infos, k) \subseteq D /\ k \in UpTo(infos, k)
             /\ IsFiniteSet(UpTo(infos, k))
             /\ Place(infos, k) = Cardinality(UpTo(infos, k))
             /\ Place(infos, k) \in 1 .. Len(infos)
  <2>1. UpTo(infos, k) \subseteq D /\ k \in UpTo(infos, k)
    BY <1>1 DEF UpTo
  <2>2. IsFiniteSet(UpTo(infos, k)) /\ Cardinality(UpTo(infos, k)) <= Len(infos)
    BY <1>2, <2>1, FS_Subset
  <2>3. Cardinality(UpTo(infos, k)) \in Nat /\ Cardinality(UpTo(infos, k)) # 0
    BY <2>1, <2>2, FS_CardinalityType, FS_EmptySet
  <2>4. Place(infos, k) = Cardinality(UpTo(infos, k))
    BY DEF Place, UpTo
  <2> QED
    BY <2>1, <2>2, <2>3, <2>4, <1>1
<1>4. ASSUME NEW k \in D, NEW l \in D, Before(infos, k, l)
      PROVE  Place(infos, k) < Place(infos, l)
  <2>1. UpTo(infos, k) \subseteq UpTo(infos, l)
    BY <1>1, <1>4 DEF UpTo, Before
  <2>2. l \notin UpTo(infos, k)
    BY <1>1, <1>4 DEF UpTo, Before
  <2>3. UpTo(infos, k) # UpTo(infos, l)
    BY <1>3, <2>2
  <2>4. Cardinality(UpTo(infos, k)) <= Cardinality(UpTo(infos, l))
        /\ Cardinality(UpTo(infos, k)) # Cardinality(UpTo(infos, l))
    BY <1>3, <2>1, <2>3, FS_Subset
  <2> QED
    BY <1>1, <1>3, <2>4
<1>5. i = j \/ Before(infos, i, j) \/ Before(infos, j, i)
  BY <1>1 DEF Before
<1>6. Place(infos, i) \in Int /\ Place(infos, j) \in Int
  BY <1>1, <1>3
<1>7. ~(i = j /\ Before(infos, i, j))
  BY <1>1 DEF Before
<1> QED
  BY <1>3, <1>4, <1>5, <1>6, <1>7

\* Every place is somebody's.
LEMMA PlacesAreTaken ==
  ASSUME NEW S, NEW infos \in Seq(S), \A i \in DOMAIN infos : infos[i].order \in Int,
         NEW k \in 1 .. Len(infos)
  PROVE  \E i \in DOMAIN infos : Place(infos, i) = k
<1> DEFINE D == DOMAIN infos  f == [i \in D |-> Place(infos, i)]
<1>1. D = 1 .. Len(infos) /\ Len(infos) \in Nat
  OBVIOUS
<1>2. IsFiniteSet(D)
  BY <1>1, FS_Interval
<1>3. \A i \in D : f[i] \in D /\ \A j \in D : i # j => f[i] # f[j]
  BY <1>1, PlacesOrder
<1>4. f \in [D -> D] /\ \A i \in D : f[i] = Place(infos, i)
  BY <1>3
<1> HIDE DEF f
<1>5. f \in Injection(D, D)
  BY <1>3, <1>4 DEF Injection, IsInjective
<1>6. f \in Surjection(D, D)
  BY <1>2, <1>5, FS_Injection
<1>7. \E i \in D : f[i] = k
  BY <1>1, <1>6 DEF Surjection
<1> QED
  BY <1>4, <1>7

\* The candidates shown are the first ones, each once and in their order.
LEMMA ShownAreFirst ==
  ASSUME NEW S, NEW infos \in Seq(S), \A i \in DOMAIN infos : infos[i].order \in Int
  PROVE  /\ DOMAIN Shown(infos) = {k \in DOMAIN infos : k <= Top}
         /\ \E from \in [DOMAIN Shown(infos) -> DOMAIN infos] : \A k \in DOMAIN from :
              /\ Shown(infos)[k] = infos[from[k]]
              /\ \A l \in DOMAIN from : k < l => Before(infos, from[k], from[l])
              /\ \A i \in DOMAIN infos :
                   (\A l \in DOMAIN from : i # from[l]) => Before(infos, from[k], i)
<1> DEFINE D == DOMAIN infos
           M == DOMAIN Shown(infos)
           At(k) == CHOOSE i \in D : Place(infos, i) = k
           from == [k \in M |-> At(k)]
<1>1. D = 1 .. Len(infos) /\ Len(infos) \in Nat /\ Top \in Nat
  BY SummaryAssumption
<1>2. M = {k \in D : k <= Top}
  BY <1>1 DEF Shown
<1>3. \A k \in M : Shown(infos)[k] = infos[At(k)]
  BY DEF Shown
<1>4. \A k \in M : At(k) \in D /\ Place(infos, At(k)) = k
  BY <1>1, <1>2, PlacesAreTaken
<1> HIDE DEF At, M
<1>5. from \in [M -> D] /\ \A k \in M : Shown(infos)[k] = infos[from[k]]
  BY <1>3, <1>4
<1>6. \A k, l \in M : k < l => Before(infos, from[k], from[l])
  BY <1>4, PlacesOrder
<1>7. ASSUME NEW k \in M, NEW i \in D, \A l \in M : i # from[l]
      PROVE  Before(infos, from[k], i)
  <2>1. Place(infos, i) \in D
    BY <1>1, PlacesOrder
  <2>2. Place(infos, i) \notin M
    <3> SUFFICES ASSUME Place(infos, i) \in M PROVE FALSE
      OBVIOUS
    <3>1. Place(infos, At(Place(infos, i))) = Place(infos, i)
      BY <1>4
    <3>2. At(Place(infos, i)) = i
      BY <3>1, <1>4, PlacesOrder
    <3> QED
      BY <3>2, <1>7
  <2>3. k < Place(infos, i)
    BY <1>1, <1>2, <2>1, <2>2
  <2> QED
    BY <1>4, <2>3, PlacesOrder
<1>8. \E g \in [M -> D] : \A k \in DOMAIN g :
        /\ Shown(infos)[k] = infos[g[k]]
        /\ \A l \in DOMAIN g : k < l => Before(infos, g[k], g[l])
        /\ \A i \in D : (\A l \in DOMAIN g : i # g[l]) => Before(infos, g[k], i)
  <2>1. DOMAIN from = M
    OBVIOUS
  <2> HIDE DEF from
  <2> QED
    BY <1>5, <1>6, <1>7, <2>1
<1> QED
  BY <1>2, <1>8 DEF M

Candidates == [move : Points, order : Int, value : Values]

\* What is told in the mover's view and turned to Black's is what was thought.
LEMMA TurnedBack ==
  ASSUME NEW v \in Values, NEW player \in Colours,
         NEW told, told = IF player = "B" THEN v
                          ELSE [winrate |-> Whole - v.winrate, score |-> -v.score]
  PROVE  told \in Values /\ AsBlack(told, player = "W") = v
<1>1. v = [winrate |-> v.winrate, score |-> v.score] /\ v.winrate \in Int /\ v.score \in Int
  BY DEF Values
<1>2. CASE player = "B"
  BY <1>2 DEF AsBlack
<1>3. CASE player = "W"
  <2>1. told.winrate = Whole - v.winrate /\ told.score = -v.score /\ told \in Values
    BY <1>1, <1>3 DEF Values, Whole
  <2>2. Whole - told.winrate = v.winrate /\ -told.score = v.score
    BY <1>1, <2>1 DEF Whole
  <2> QED
    BY <1>1, <1>3, <2>1, <2>2 DEF AsBlack
<1> QED
  BY <1>2, <1>3 DEF Colours

\* The candidates told are those thought of, each with its value in the
\* mover's view.
LEMMA ToldCandidates ==
  ASSUME NEW v \in Opinions(Points), NEW player \in Colours
  PROVE  LET told == Told(v, player).infos
         IN  /\ told \in Seq(Candidates)
             /\ DOMAIN told = DOMAIN v.infos /\ Len(told) = Len(v.infos)
             /\ \A i \in DOMAIN v.infos :
                  /\ told[i].order = v.infos[i].order
                  /\ [move |-> told[i].move, order |-> told[i].order,
                      value |-> AsBlack(told[i].value, player = "W")] = v.infos[i]
<1> DEFINE told == Told(v, player).infos
           Mover(value) == IF player = "B" THEN value
                           ELSE [winrate |-> Whole - value.winrate, score |-> -value.score]
<1>1. v.infos \in Seq(Candidates)
  BY DEF Opinions, Candidates
<1>2. told = [i \in DOMAIN v.infos |-> [v.infos[i] EXCEPT !.value = Mover(@)]]
  BY DEF Told
<1>3. ASSUME NEW i \in DOMAIN v.infos
      PROVE  /\ told[i] \in Candidates /\ told[i].order = v.infos[i].order
             /\ [move |-> told[i].move, order |-> told[i].order,
                 value |-> AsBlack(told[i].value, player = "W")] = v.infos[i]
  <2>1. v.infos[i] \in Candidates
    BY <1>1
  <2>2. v.infos[i] = [move |-> v.infos[i].move, order |-> v.infos[i].order,
                      value |-> v.infos[i].value] /\ v.infos[i].value \in Values
    BY <2>1 DEF Candidates
  <2>3. /\ Mover(v.infos[i].value) \in Values
        /\ AsBlack(Mover(v.infos[i].value), player = "W") = v.infos[i].value
    BY <2>2, TurnedBack
  <2> HIDE DEF Mover
  <2>4. told[i] = [v.infos[i] EXCEPT !.value = Mover(v.infos[i].value)]
    BY <1>2
  <2>5. /\ told[i].move = v.infos[i].move /\ told[i].order = v.infos[i].order
        /\ told[i].value = Mover(v.infos[i].value) /\ told[i] \in Candidates
    BY <2>1, <2>3, <2>4 DEF Candidates
  <2> QED
    BY <2>2, <2>3, <2>5
<1> HIDE DEF Mover
<1>4. DOMAIN told = 1 .. Len(v.infos) /\ Len(v.infos) \in Nat
  BY <1>1, <1>2
<1>5. told \in [1 .. Len(v.infos) -> Candidates]
  BY <1>1, <1>2, <1>3, <1>4
<1>6. told \in Seq(Candidates) /\ Len(told) = Len(v.infos)
  BY <1>4, <1>5
<1> HIDE DEF told
<1>7. DOMAIN told = DOMAIN v.infos
  BY <1>1, <1>4
<1> QED
  BY <1>3, <1>6, <1>7 DEF told

LEMMA SummaryIsRight ==
  ASSUME NEW v \in Opinions(Points), NEW player \in Colours, NEW own \in BOOLEAN
  PROVE  LET a == Summarise(Told(v, player), own)
         IN  /\ a.root = v.root
             /\ a.ownership = IF own THEN v.ownership ELSE << >>
             /\ DOMAIN a.moves = {k \in DOMAIN v.infos : k <= Top}
             /\ \E from \in [DOMAIN a.moves -> DOMAIN v.infos] : \A k \in DOMAIN from :
                  /\ a.moves[k] = v.infos[from[k]]
                  /\ \A l \in DOMAIN from : k < l => Before(v.infos, from[k], from[l])
                  /\ \A i \in DOMAIN v.infos :
                       (\A l \in DOMAIN from : i # from[l]) => Before(v.infos, from[k], i)
<1> DEFINE a == Summarise(Told(v, player), own)
           told == Told(v, player).infos
           shown == Shown(told)
           flip == player = "W"
           board(info) == [move |-> info.move, order |-> info.order,
                           value |-> AsBlack(info.value, flip)]
<1>1. v.root \in Values /\ v.ownership \in Seq(Int)
  BY DEF Opinions
<1>2. a.root = v.root
  <2>1. a.root = AsBlack(Told(v, player).root, flip)
    BY DEF Summarise, Told
  <2>2. Told(v, player).root = IF player = "B" THEN v.root
          ELSE [winrate |-> Whole - v.root.winrate, score |-> -v.root.score]
    BY DEF Told
  <2> QED
    BY <1>1, <2>1, <2>2, TurnedBack
<1>3. a.ownership = IF own THEN v.ownership ELSE << >>
  <2>1. \A i \in DOMAIN v.ownership : v.ownership[i] \in Int
    BY <1>1
  <2>2. Told(v, player).ownership = [i \in DOMAIN v.ownership |->
          IF player = "B" THEN v.ownership[i] ELSE -v.ownership[i]]
    BY DEF Told
  <2>3. a.ownership = IF ~own THEN << >> ELSE [i \in DOMAIN v.ownership |->
          IF flip THEN -Told(v, player).ownership[i] ELSE Told(v, player).ownership[i]]
    BY <2>2 DEF Summarise, Told
  <2>4. \A i \in DOMAIN v.ownership :
          (IF flip THEN -Told(v, player).ownership[i] ELSE Told(v, player).ownership[i])
            = v.ownership[i]
    BY <2>1, <2>2 DEF Colours
  <2>5. v.ownership = [i \in DOMAIN v.ownership |-> v.ownership[i]]
    BY <1>1
  <2> QED
    BY <2>3, <2>4, <2>5
<1>4. /\ DOMAIN a.moves = DOMAIN shown
      /\ \A k \in DOMAIN shown : a.moves[k] = board(shown[k])
  BY DEF Summarise, Told
<1>5. /\ told \in Seq(Candidates) /\ DOMAIN told = DOMAIN v.infos
      /\ \A i \in DOMAIN v.infos : told[i].order = v.infos[i].order /\ board(told[i]) = v.infos[i]
  BY ToldCandidates
<1> HIDE DEF a, told, shown, board
<1>6. \A i \in DOMAIN told : told[i].order \in Int
  <2>1. \A i \in DOMAIN told : told[i] \in Candidates
    BY <1>5
  <2> QED
    BY <2>1 DEF Candidates
<1>7. \A i, j \in DOMAIN told : Before(told, i, j) <=> Before(v.infos, i, j)
  BY <1>5 DEF Before
<1>8. DOMAIN shown = {k \in DOMAIN told : k <= Top}
  BY <1>5, <1>6, ShownAreFirst DEF shown
<1>9. PICK from \in [DOMAIN shown -> DOMAIN told] : \A k \in DOMAIN from :
        /\ shown[k] = told[from[k]]
        /\ \A l \in DOMAIN from : k < l => Before(told, from[k], from[l])
        /\ \A i \in DOMAIN told :
             (\A l \in DOMAIN from : i # from[l]) => Before(told, from[k], i)
  BY <1>5, <1>6, ShownAreFirst DEF shown
<1>10. from \in [DOMAIN a.moves -> DOMAIN v.infos] /\ DOMAIN from = DOMAIN shown
  BY <1>4, <1>5
<1>11. \A k \in DOMAIN from :
        /\ a.moves[k] = v.infos[from[k]]
        /\ \A l \in DOMAIN from : k < l => Before(v.infos, from[k], from[l])
        /\ \A i \in DOMAIN v.infos :
             (\A l \in DOMAIN from : i # from[l]) => Before(v.infos, from[k], i)
  BY <1>4, <1>5, <1>7, <1>9, <1>10
<1> QED
  BY <1>2, <1>3, <1>4, <1>5, <1>8, <1>10, <1>11 DEF a

\* The inductive invariant behind BoardSees.
Drawn ==
  answer # Absent =>
    /\ view \in Views /\ job.ownership \in BOOLEAN
    /\ \E player \in Colours : answer = Summarise(Told(view, player), job.ownership)

(***************************************************************************)
(* Whatever the engine thinks, of whichever colour, in whatever order its  *)
(* candidates come and however many a board is shown, the board draws it   *)
(* as it is (analysis.py:123-170).                                         *)
(***************************************************************************)
THEOREM BoardIsTrue == Spec => []BoardSees
<1>1. Init => Drawn
  BY DEF Init, Drawn
<1>2. TypeOK /\ Drawn /\ [Next]_vars => Drawn'
  <2> SUFFICES ASSUME TypeOK, Drawn, [Next]_vars PROVE Drawn'
    OBVIOUS
  <2>1. CASE Analysed
    <3>1. job' = job /\ job.ownership \in BOOLEAN
      BY <2>1 DEF Analysed, TypeOK, Payloads
    <3>2. view' \in Views /\ \E player \in Colours :
            answer' = Summarise(Told(view', player), job.ownership)
      BY <2>1 DEF Analysed
    <3> QED
      BY <3>1, <3>2 DEF Drawn
  <2>2. CASE ~Analysed
    <3>1. UNCHANGED <<job, view, answer>>
      BY <2>2 DEF Next, Dispatch, Reached, Called, CallReturns, CallFails, Ends,
                  EngineChanges, vars
    <3> QED
      BY <3>1 DEF Drawn
  <2> QED
    BY <2>1, <2>2
<1>3. Drawn => BoardSees
  <2> SUFFICES ASSUME Drawn, answer # Absent PROVE BoardSees
    BY DEF BoardSees
  <2>1. view \in Opinions(Points) /\ job.ownership \in BOOLEAN
    BY HandlerAssumption DEF Drawn
  <2>2. PICK player \in Colours : answer = Summarise(Told(view, player), job.ownership)
    BY DEF Drawn
  <2> QED
    BY <2>1, <2>2, SummaryIsRight DEF BoardSees
<1> QED
  BY <1>1, <1>2, <1>3, TypeCorrect, PTL DEF Spec
=============================================================================
