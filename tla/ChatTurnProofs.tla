--------------------------- MODULE ChatTurnProofs ---------------------------
(***************************************************************************)
(* What holds of ChatTurn for any number of requests, conversations, tool  *)
(* calls and chunks, and any limit.                                        *)
(*                                                                         *)
(* The types alone are not inductive: a tool call is counted down only     *)
(* where one is left.  Shape adds what the program counter says of the     *)
(* generator's locals; it is also what bounds a turn's cost and the number *)
(* of its charges, and so what the refinement of SpendPolicy rests on.     *)
(*                                                                         *)
(* What is said of the stored messages rests on StoresAgree: a message     *)
(* belongs to the turn whose number it bears, and a turn past the INSERT   *)
(* of its reply finds one.  Each property then adds what it needs, and     *)
(* assumes away only the failures that break it.                           *)
(*                                                                         *)
(* The last part is about Metering, which says what ChatTurn only charges: *)
(* the price of a turn, round by round.                                    *)
(***************************************************************************)
EXTENDS ChatTurn, Metering, FiniteSetTheorems, TLAPS

(* The calls to OpenAI that are paid for when a round, or all of them, end. *)
CostOfRounds(n) == IF n = 1 THEN RoundCost ELSE MaxTurnCost
CostBefore(n)   == IF n = 1 THEN 0 ELSE RoundCost

Unpaid == {"idle"} \cup Preparing \cup Streaming

(* What holds of the locals g of a turn at label l. *)
ShapeAt(l, g) ==
    /\ g.cost <= CostOfRounds(g.round)
    /\ l \in {"idle"} \cup Preparing => g.cost = 0
    /\ l \in Unpaid \ {"stream"} => ~g.gotUsage
    /\ l \in {"open", "stream", "token"} /\ ~g.gotUsage => g.cost <= CostBefore(g.round)
    /\ l \in {"tools", "query"} => g.calls > 0
    /\ l \in Unpaid => ~g.failed /\ g.charges = 0
    /\ l \in {"save", "record"} => g.charges < MaxCharges
    /\ l \in {"save", "record"} /\ ~g.failed => g.charges = 0
    /\ l \in {"expire", "clear"} /\ ~g.failed => g.charges <= 1
    /\ l = "record" => g.cost > 0

Shape == \A t \in Turns : ShapeAt(pc[t], turn[t])

IInv == TypeOK /\ Shape

-----------------------------------------------------------------------------
USE DEF Preparing, Streaming, Finalizing, MAX_TOOL_CALL_ROUNDS

(* What the assumption on the constants says of the bounds made from them. *)
LEMMA Bounds ==
  ASSUME ChatAssumption
  PROVE  /\ RoundCost \in Nat \ {0}
         /\ \A n \in RoundCosts : n \in Nat /\ n <= RoundCost
         /\ MaxTurnCost \in Nat
         /\ MaxTurnCost = RoundCost + RoundCost
         /\ MaxCharges \in {1, 2}
         /\ "redis" \in Env => MaxCharges = 2
  BY DEF ChatAssumption, MaxTurnCost, MaxCharges

(* A slot without a request has the right type and shape. *)
LEMMA NoTurnOK ==
  ASSUME ChatAssumption
  PROVE  NoTurn \in TurnState /\ ShapeAt("idle", NoTurn)
<1>1. NoTurn \in TurnState
  BY DEF NoTurn, NewTurn, TurnState
<1>2. QED
  BY <1>1, Bounds DEF NoTurn, NewTurn, ShapeAt, CostOfRounds, CostBefore, Unpaid

(* A step of one turn keeps pc and turn well typed and every turn in shape
   when the turn's new label and locals are.                                *)
LEMMA GoKeepsShape ==
  ASSUME IInv, NEW t \in Turns, NEW l \in Labels, NEW g \in TurnState,
         ShapeAt(l, g), Go(t, l, g)
  PROVE  /\ pc' \in [Turns -> Labels]
         /\ turn' \in [Turns -> TurnState]
         /\ Shape'
<1>1. pc' \in [Turns -> Labels] /\ turn' \in [Turns -> TurnState]
  BY DEF IInv, TypeOK, Go
<1>2. ASSUME NEW u \in Turns PROVE ShapeAt(pc'[u], turn'[u])
  <2>1. pc'[u] = (IF u = t THEN l ELSE pc[u]) /\ turn'[u] = (IF u = t THEN g ELSE turn[u])
    BY DEF IInv, TypeOK, Go
  <2>2. QED
    BY <2>1 DEF IInv, Shape
<1>3. QED
  BY <1>1, <1>2 DEF Shape, ShapeAt

(* The two ways out of a handler. *)
LEMMA LeaveKeepsShape ==
  ASSUME ChatAssumption, IInv, NEW t \in Turns, Leave(t)
  PROVE  /\ pc' \in [Turns -> Labels]
         /\ turn' \in [Turns -> TurnState]
         /\ Shape'
  BY NoTurnOK, GoKeepsShape DEF Leave, Labels

LEMMA ThrowKeepsShape ==
  ASSUME ChatAssumption, IInv, NEW t \in Turns, Throw(t),
         pc[t] \in Preparing \cup Streaming \cup Finalizing,
         pc[t] \in {"record", "expire", "clear"} => "redis" \in Env
  PROVE  /\ pc' \in [Turns -> Labels]
         /\ turn' \in [Turns -> TurnState]
         /\ Shape'
<1> DEFINE g == [turn[t] EXCEPT !.failed = TRUE, !.gotUsage = FALSE, !.calls = 0]
<1>1. turn[t] \in TurnState /\ ShapeAt(pc[t], turn[t])
  BY DEF IInv, TypeOK, Shape
<1>2. CASE Leave(t)
  BY <1>2, LeaveKeepsShape
<1>3. CASE ~turn[t].failed /\ Go(t, "save", g)
  <2>1. g \in TurnState
    BY <1>1 DEF TurnState
  <2>2. /\ g.cost = turn[t].cost /\ g.round = turn[t].round
        /\ g.charges = turn[t].charges /\ g.failed
    BY <1>1 DEF TurnState
  <2>3. turn[t].charges < MaxCharges
    BY <1>1, <1>3, Bounds DEF ShapeAt, Unpaid, TurnState
  <2>4. ShapeAt("save", g)
    BY <1>1, <2>2, <2>3 DEF ShapeAt, Unpaid
  <2>5. QED
    BY <1>3, <2>1, <2>4, GoKeepsShape DEF Labels
<1>4. QED
  BY <1>2, <1>3 DEF Throw

-----------------------------------------------------------------------------
(* The steps of a turn, by its three phases. *)

LEMMA PrepareKeepsShape ==
  ASSUME ChatAssumption, IInv, NEW t \in Turns, Prepare(t)
  PROVE  pc' \in [Turns -> Labels] /\ turn' \in [Turns -> TurnState] /\ Shape'
<1>1. turn[t] \in TurnState /\ ShapeAt(pc[t], turn[t])
  BY DEF IInv, TypeOK, Shape
<1>2. CASE Leave(t)
  BY <1>2, LeaveKeepsShape
<1>3. ASSUME NEW l \in {"resolve", "ask", "open"}, pc[t] \in Preparing, Go(t, l, turn[t])
      PROVE  pc' \in [Turns -> Labels] /\ turn' \in [Turns -> TurnState] /\ Shape'
  <2>1. turn[t].cost = 0 /\ CostBefore(turn[t].round) \in Nat
    BY <1>1, <1>3, Bounds DEF ShapeAt, CostBefore
  <2>2. ShapeAt(l, turn[t])
    BY <1>1, <1>3, <2>1 DEF ShapeAt, Unpaid
  <2>3. QED
    BY <1>1, <1>3, <2>2, GoKeepsShape DEF Labels
<1>4. QED
  BY <1>2, <1>3 DEF Prepare, CheckBudget, ResolveConversation, SaveQuestion

(* What one call to OpenAI adds to the cost of a turn. *)
LEMMA RoundAdds ==
  ASSUME ChatAssumption, NEW g \in TurnState, NEW n \in RoundCosts,
         g.cost <= CostBefore(g.round)
  PROVE  g.cost + n <= CostOfRounds(g.round)
  BY Bounds DEF CostBefore, CostOfRounds, TurnState

LEMMA RoundEndsKeepsShape ==
  ASSUME ChatAssumption, IInv, NEW t \in Turns, NEW l \in {"save", "tools"},
         NEW stopped \in BOOLEAN, pc[t] = "stream",
         l = "tools" => turn[t].calls # 0 /\ ~stopped, RoundEnds(t, l, stopped)
  PROVE  pc' \in [Turns -> Labels] /\ turn' \in [Turns -> TurnState] /\ Shape'
<1>1. turn[t] \in TurnState /\ ShapeAt("stream", turn[t])
  BY DEF IInv, TypeOK, Shape
<1>2. PICK n \in RoundCosts :
        Go(t, l, [turn[t] EXCEPT !.roundContent = 0, !.gotUsage = FALSE,
                    !.calls = IF stopped THEN 0 ELSE @, !.stopped = stopped,
                    !.cost = IF turn[t].gotUsage THEN @ ELSE @ + n])
  BY DEF RoundEnds
<1> DEFINE calls == IF stopped THEN 0 ELSE turn[t].calls
           cost  == IF turn[t].gotUsage THEN turn[t].cost ELSE turn[t].cost + n
           g     == [turn[t] EXCEPT !.roundContent = 0, !.gotUsage = FALSE,
                       !.calls = calls, !.stopped = stopped, !.cost = cost]
<1>3. Go(t, l, g)
  BY <1>2
<1>4. calls \in Nat /\ cost \in Nat
  BY <1>1, Bounds DEF TurnState
<1> HIDE DEF calls, cost
<1>5. /\ g \in TurnState
      /\ g.round = turn[t].round /\ ~g.gotUsage /\ g.calls = calls /\ g.cost = cost
      /\ g.failed = turn[t].failed /\ g.charges = turn[t].charges
  BY <1>1, <1>4 DEF TurnState
<1>6. g.cost <= CostOfRounds(g.round)
  BY <1>1, <1>5, RoundAdds DEF ShapeAt, cost
<1>7. ~g.failed /\ g.charges = 0 /\ (l = "tools" => g.calls > 0)
  BY <1>1, <1>5 DEF ShapeAt, Unpaid, TurnState, calls
<1>8. ShapeAt(l, g)
  BY <1>5, <1>6, <1>7, Bounds DEF ShapeAt, Unpaid
<1>9. QED
  BY <1>3, <1>5, <1>8, GoKeepsShape DEF Labels

(* After a tool call there is another one, another round, or the reply. *)
LEMMA CallDoneKeepsShape ==
  ASSUME ChatAssumption, IInv, NEW t \in Turns, pc[t] \in {"tools", "query"},
         Go(t, CallDone(t).at, CallDone(t).locals)
  PROVE  pc' \in [Turns -> Labels] /\ turn' \in [Turns -> TurnState] /\ Shape'
<1> DEFINE g == [turn[t] EXCEPT !.calls = @ - 1]
           h == [g EXCEPT !.round = @ + 1]
<1>1. turn[t] \in TurnState /\ ShapeAt(pc[t], turn[t])
  BY DEF IInv, TypeOK, Shape
<1>2. turn[t].calls \in Nat /\ turn[t].calls > 0
  BY <1>1 DEF ShapeAt, TurnState
<1>3. /\ g \in TurnState /\ g.calls = turn[t].calls - 1
      /\ g.round = turn[t].round /\ g.cost = turn[t].cost /\ g.gotUsage = turn[t].gotUsage
      /\ g.failed = turn[t].failed /\ g.charges = turn[t].charges
  BY <1>1, <1>2 DEF TurnState
<1>4. /\ ~g.gotUsage /\ ~g.failed /\ g.charges = 0
      /\ g.cost <= CostOfRounds(g.round)
  BY <1>1, <1>3 DEF ShapeAt, Unpaid
<1> HIDE DEF g
<1>5. CASE g.calls > 0 /\ Go(t, "tools", g)
  <2>1. ShapeAt("tools", g)
    BY <1>4, <1>5 DEF ShapeAt
  <2>2. QED
    BY <1>3, <1>5, <2>1, GoKeepsShape DEF Labels
<1>6. CASE g.round < MAX_TOOL_CALL_ROUNDS /\ Go(t, "open", h)
  <2>1. /\ h \in TurnState /\ h.round = 2 /\ g.round = 1
        /\ h.cost = g.cost /\ h.gotUsage = g.gotUsage
        /\ h.failed = g.failed /\ h.charges = g.charges
    BY <1>3, <1>6 DEF TurnState
  <2>2. h.cost <= CostBefore(2) /\ h.cost <= CostOfRounds(2)
    BY <1>4, <2>1, Bounds DEF CostBefore, CostOfRounds, TurnState
  <2>3. ShapeAt("open", h)
    BY <1>4, <2>1, <2>2 DEF ShapeAt
  <2>4. QED
    BY <1>6, <2>1, <2>3, GoKeepsShape DEF Labels
<1>7. CASE Go(t, "save", g)
  <2>1. ShapeAt("save", g)
    BY <1>4, Bounds DEF ShapeAt, Unpaid
  <2>2. QED
    BY <1>3, <1>7, <2>1, GoKeepsShape DEF Labels
<1>8. QED
  <2>1. \/ CallDone(t) = [at |-> "tools", locals |-> g] /\ g.calls > 0
        \/ CallDone(t) = [at |-> "open", locals |-> h] /\ g.round < MAX_TOOL_CALL_ROUNDS
        \/ CallDone(t) = [at |-> "save", locals |-> g]
    BY DEF CallDone, g
  <2>2. QED
    BY <1>5, <1>6, <1>7, <2>1

LEMMA StreamKeepsShape ==
  ASSUME ChatAssumption, IInv, NEW t \in Turns, Stream(t)
  PROVE  pc' \in [Turns -> Labels] /\ turn' \in [Turns -> TurnState] /\ Shape'
<1>1. turn[t] \in TurnState /\ ShapeAt(pc[t], turn[t])
  BY DEF IInv, TypeOK, Shape
<1>2. CASE Leave(t)
  BY <1>2, LeaveKeepsShape
<1>3. CASE pc[t] = "open" /\ Go(t, "stream", turn[t])
  <2>1. ShapeAt("stream", turn[t])
    BY <1>1, <1>3 DEF ShapeAt, Unpaid
  <2>2. QED
    BY <1>1, <1>3, <2>1, GoKeepsShape DEF Labels
<1>4. CASE pc[t] = "stream" /\ ~turn[t].gotUsage /\ Go(t, "token", turn[t])
  <2>1. ShapeAt("token", turn[t])
    BY <1>1, <1>4 DEF ShapeAt, Unpaid
  <2>2. QED
    BY <1>1, <1>4, <2>1, GoKeepsShape DEF Labels
<1>5. CASE pc[t] = "stream" /\ Go(t, "stream", [turn[t] EXCEPT !.calls = @ + 1])
  <2> DEFINE g == [turn[t] EXCEPT !.calls = @ + 1]
  <2>1. /\ g \in TurnState /\ g.cost = turn[t].cost /\ g.round = turn[t].round
        /\ g.gotUsage = turn[t].gotUsage /\ g.failed = turn[t].failed
        /\ g.charges = turn[t].charges
    BY <1>1 DEF TurnState
  <2>2. ShapeAt("stream", g)
    BY <1>1, <1>5, <2>1 DEF ShapeAt, Unpaid
  <2>3. QED
    BY <1>5, <2>1, <2>2, GoKeepsShape DEF Labels
<1>6. ASSUME NEW n \in RoundCosts, pc[t] = "stream", ~turn[t].gotUsage,
             Go(t, "stream", [turn[t] EXCEPT !.gotUsage = TRUE, !.cost = @ + n])
      PROVE  pc' \in [Turns -> Labels] /\ turn' \in [Turns -> TurnState] /\ Shape'
  <2> DEFINE cost == turn[t].cost + n
             g    == [turn[t] EXCEPT !.gotUsage = TRUE, !.cost = cost]
  <2>0. cost \in Nat /\ Go(t, "stream", g)
    BY <1>1, <1>6, Bounds DEF TurnState
  <2> HIDE DEF cost
  <2>1. /\ g \in TurnState /\ g.cost = cost /\ g.round = turn[t].round
        /\ g.gotUsage /\ g.failed = turn[t].failed /\ g.charges = turn[t].charges
    BY <1>1, <2>0 DEF TurnState
  <2>2. g.cost <= CostOfRounds(g.round)
    BY <1>1, <1>6, <2>1, RoundAdds DEF ShapeAt, cost
  <2>3. ShapeAt("stream", g)
    BY <1>1, <1>6, <2>1, <2>2 DEF ShapeAt, Unpaid
  <2>4. QED
    BY <2>0, <2>1, <2>3, GoKeepsShape DEF Labels
<1>7. CASE /\ pc[t] = "token"
           /\ Go(t, "stream", [turn[t] EXCEPT !.roundContent = @ + 1,
                    !.over = IF turn[t].asked THEN @ + 1 ELSE @])
  <2> DEFINE over == IF turn[t].asked THEN turn[t].over + 1 ELSE turn[t].over
             sent == turn[t].roundContent + 1
             g    == [turn[t] EXCEPT !.roundContent = sent, !.over = over]
  <2>1. over \in Nat /\ sent \in Nat /\ Go(t, "stream", g)
    BY <1>1, <1>7 DEF TurnState
  <2> HIDE DEF over, sent
  <2>2. /\ g \in TurnState /\ g.cost = turn[t].cost /\ g.round = turn[t].round
        /\ g.gotUsage = turn[t].gotUsage /\ g.failed = turn[t].failed
        /\ g.charges = turn[t].charges
    BY <1>1, <2>1 DEF TurnState
  <2>3. ShapeAt("stream", g)
    BY <1>1, <1>7, <2>2 DEF ShapeAt, Unpaid
  <2>4. QED
    BY <2>1, <2>2, <2>3, GoKeepsShape DEF Labels
<1>8. CASE pc[t] = "tools" /\ Go(t, "query", turn[t])
  <2>1. ShapeAt("query", turn[t])
    BY <1>1, <1>8 DEF ShapeAt, Unpaid
  <2>2. QED
    BY <1>1, <1>8, <2>1, GoKeepsShape DEF Labels
<1>9. CASE OpenStream(t) \/ ReceiveChunk(t) \/ SendToken(t)
  BY <1>2, <1>3, <1>4, <1>5, <1>6, <1>7, <1>9
     DEF OpenStream, ReceiveChunk, SendToken, YieldThen
<1>10. CASE ObserveStop(t) \/ StreamEnds(t)
  <2>1. CASE ObserveStop(t)
    BY <2>1, RoundEndsKeepsShape DEF ObserveStop
  <2>2. CASE StreamEnds(t)
    BY <2>2, RoundEndsKeepsShape DEF StreamEnds
  <2>3. QED
    BY <1>10, <2>1, <2>2
<1>11. CASE AnnounceQuery(t) \/ SkipCall(t) \/ SendRows(t)
  BY <1>2, <1>8, <1>11, CallDoneKeepsShape
     DEF AnnounceQuery, SkipCall, SendRows, YieldThen
<1>12. QED
  BY <1>9, <1>10, <1>11 DEF Stream

(* One more charge, after an INCRBY. *)
LEMMA ChargeKeepsShape ==
  ASSUME ChatAssumption, IInv, NEW t \in Turns, NEW l \in {"expire", "clear"},
         pc[t] = "record", Go(t, l, [turn[t] EXCEPT !.charges = @ + 1])
  PROVE  pc' \in [Turns -> Labels] /\ turn' \in [Turns -> TurnState] /\ Shape'
<1> DEFINE g == [turn[t] EXCEPT !.charges = @ + 1]
<1>1. turn[t] \in TurnState /\ ShapeAt(pc[t], turn[t])
  BY DEF IInv, TypeOK, Shape
<1>2. /\ g \in TurnState /\ g.cost = turn[t].cost /\ g.round = turn[t].round
      /\ g.charges = turn[t].charges + 1 /\ g.failed = turn[t].failed
  BY <1>1 DEF TurnState
<1>3. ShapeAt(l, g)
  BY <1>1, <1>2 DEF ShapeAt, Unpaid, TurnState
<1>4. QED
  BY <1>2, <1>3, GoKeepsShape DEF Labels

LEMMA FinalizeKeepsShape ==
  ASSUME ChatAssumption, IInv, NEW t \in Turns, Finalize(t)
  PROVE  pc' \in [Turns -> Labels] /\ turn' \in [Turns -> TurnState] /\ Shape'
<1>1. turn[t] \in TurnState /\ ShapeAt(pc[t], turn[t])
  BY DEF IInv, TypeOK, Shape
<1>2. CASE SaveReply(t)
  <2>1. CASE Throw(t)
    BY <1>2, <2>1, ThrowKeepsShape DEF SaveReply
  <2>2. CASE Go(t, IF turn[t].cost > 0 THEN "record" ELSE "clear", turn[t])
    <3>1. turn[t].cost > 0 => ShapeAt("record", turn[t])
      BY <1>1, <1>2 DEF SaveReply, ShapeAt, Unpaid
    <3>2. ShapeAt("clear", turn[t])
      BY <1>1, <1>2 DEF SaveReply, ShapeAt, Unpaid
    <3>3. QED
      BY <1>1, <2>2, <3>1, <3>2, GoKeepsShape DEF Labels
  <2>3. QED
    BY <1>2, <2>1, <2>2 DEF SaveReply
<1>3. CASE RecordCost(t)
  BY <1>3, ChargeKeepsShape DEF RecordCost
<1>4. CASE SetExpiry(t)
  <2>1. ShapeAt("clear", turn[t])
    BY <1>1, <1>4 DEF SetExpiry, ShapeAt, Unpaid
  <2>2. QED
    BY <1>1, <1>4, <2>1, GoKeepsShape DEF SetExpiry, Labels
<1>5. CASE ClearStop(t)
  <2>1. ShapeAt("done", turn[t])
    BY <1>1, <1>5 DEF ClearStop, ShapeAt, Unpaid
  <2>2. QED
    BY <1>1, <1>5, <2>1, GoKeepsShape DEF ClearStop, Labels
<1>6. CASE SendLastEvent(t)
  BY <1>6, LeaveKeepsShape DEF SendLastEvent
<1>7. QED
  BY <1>2, <1>3, <1>4, <1>5, <1>6 DEF Finalize

LEMMA FailureKeepsShape ==
  ASSUME ChatAssumption, IInv, NEW t \in Turns, Failure(t)
  PROVE  pc' \in [Turns -> Labels] /\ turn' \in [Turns -> TurnState] /\ Shape'
<1>1. turn[t] \in TurnState /\ ShapeAt(pc[t], turn[t])
  BY DEF IInv, TypeOK, Shape
<1>2. CASE Fail(t)
  <2>1. PICK kind \in DOMAIN FailureAt : pc[t] \in FailureAt[kind] /\ kind \in Env
    BY <1>2 DEF Fail, Happens
  <2>2. kind \in {"redis", "db", "refused", "broken"}
    BY DEF FailureAt
  <2>3. /\ pc[t] \in Preparing \cup Streaming \cup Finalizing
        /\ pc[t] \in {"record", "expire", "clear"} => "redis" \in Env
    BY <2>1, <2>2 DEF FailureAt
  <2>4. QED
    BY <1>2, <2>3, ThrowKeepsShape DEF Fail
<1>3. CASE SaveReplyUnheard(t)
  BY <1>3, ThrowKeepsShape DEF SaveReplyUnheard
<1>4. CASE RecordCostUnheard(t)
  <2>1. CASE Leave(t)
    BY <2>1, LeaveKeepsShape
  <2> DEFINE charges == turn[t].charges + 1
             g       == [turn[t] EXCEPT !.failed = TRUE, !.charges = charges]
  <2>2. CASE ~turn[t].failed /\ Go(t, "save", g)
    <3>0. charges \in Nat
      BY <1>1 DEF TurnState
    <3> HIDE DEF charges
    <3>1. /\ g \in TurnState /\ g.cost = turn[t].cost /\ g.round = turn[t].round
          /\ g.charges = charges /\ g.failed
      BY <1>1, <3>0 DEF TurnState
    <3>2. turn[t].charges = 0 /\ 1 < MaxCharges
      BY <1>1, <1>4, <2>2, Bounds DEF RecordCostUnheard, Happens, ShapeAt
    <3>3. ShapeAt("save", g)
      BY <1>1, <3>1, <3>2 DEF ShapeAt, Unpaid, charges
    <3>4. QED
      BY <2>2, <3>1, <3>3, GoKeepsShape DEF Labels
  <2>3. QED
    BY <1>4, <2>1, <2>2 DEF RecordCostUnheard
<1>5. QED
  BY <1>2, <1>3, <1>4 DEF Failure

-----------------------------------------------------------------------------
(* The environment never touches the locals that Shape is about. *)
LEMMA OutsideKeepsShape ==
  ASSUME ChatAssumption, IInv, UNCHANGED pc,
         turn' = [u \in Turns |-> turn'[u]],
         \A u \in Turns : \E meant \in BOOLEAN, open \in BOOLEAN, over \in Nat :
             turn'[u] = [turn[u] EXCEPT !.asked = meant, !.over = over, !.open = open]
  PROVE  pc' \in [Turns -> Labels] /\ turn' \in [Turns -> TurnState] /\ Shape'
<1>1. ASSUME NEW u \in Turns
      PROVE  turn'[u] \in TurnState /\ ShapeAt(pc'[u], turn'[u])
  <2>1. turn[u] \in TurnState /\ ShapeAt(pc[u], turn[u])
    BY DEF IInv, TypeOK, Shape
  <2>2. PICK meant \in BOOLEAN, open \in BOOLEAN, over \in Nat :
          turn'[u] = [turn[u] EXCEPT !.asked = meant, !.over = over, !.open = open]
    OBVIOUS
  <2> DEFINE g == [turn[u] EXCEPT !.asked = meant, !.over = over, !.open = open]
  <2>3. /\ g \in TurnState /\ g.cost = turn[u].cost /\ g.round = turn[u].round
        /\ g.gotUsage = turn[u].gotUsage /\ g.calls = turn[u].calls
        /\ g.failed = turn[u].failed /\ g.charges = turn[u].charges
    BY <2>1 DEF TurnState
  <2> HIDE DEF g
  <2>4. ShapeAt(pc[u], g)
    BY <2>1, <2>3 DEF ShapeAt
  <2>5. QED
    BY <2>2, <2>3, <2>4 DEF g
<1>2. QED
  BY <1>1 DEF IInv, TypeOK, Shape, ShapeAt

LEMMA RaiseFlagKeepsShape ==
  ASSUME ChatAssumption, IInv, UNCHANGED pc, NEW c, NEW hit, NEW closed,
         RaiseFlag(c, hit, closed)
  PROVE  pc' \in [Turns -> Labels] /\ turn' \in [Turns -> TurnState] /\ Shape'
<1>1. ASSUME NEW u \in Turns
      PROVE  \E meant \in BOOLEAN, open \in BOOLEAN, over \in Nat :
               turn'[u] = [turn[u] EXCEPT !.asked = meant, !.over = over, !.open = open]
  <2>1. turn[u] \in TurnState
    BY DEF IInv, TypeOK
  <2> DEFINE meant == turn[u].asked \/ u \in hit
             open  == turn[u].open /\ u \notin closed
             over  == IF u \in hit \cap missed THEN 0 ELSE turn[u].over
  <2>2. turn'[u] = [turn[u] EXCEPT !.asked = meant, !.over = over, !.open = open]
    BY DEF RaiseFlag
  <2>3. meant \in BOOLEAN /\ open \in BOOLEAN /\ over \in Nat
    BY <2>1 DEF TurnState
  <2> HIDE DEF meant, open, over
  <2>4. QED
    BY <2>2, <2>3
<1>2. turn' = [u \in Turns |-> turn'[u]]
  BY DEF RaiseFlag
<1>3. QED
  BY <1>1, <1>2, OutsideKeepsShape

LEMMA DisconnectKeepsShape ==
  ASSUME ChatAssumption, IInv, NEW t \in Turns, Disconnect(t)
  PROVE  pc' \in [Turns -> Labels] /\ turn' \in [Turns -> TurnState] /\ Shape'
<1>1. UNCHANGED pc
  BY DEF Disconnect
<1>2. CASE RaiseFlag(turn[t].conv, {t}, {t})
  BY <1>1, <1>2, RaiseFlagKeepsShape
<1>3. CASE turn' = [turn EXCEPT ![t].open = FALSE]
  <2>1. ASSUME NEW u \in Turns
        PROVE  \E meant \in BOOLEAN, open \in BOOLEAN, over \in Nat :
                 turn'[u] = [turn[u] EXCEPT !.asked = meant, !.over = over, !.open = open]
    <3>1. turn[u] \in TurnState
      BY DEF IInv, TypeOK
    <3> DEFINE open == IF u = t THEN FALSE ELSE turn[u].open
    <3>2. /\ turn'[u] = [turn[u] EXCEPT !.asked = turn[u].asked,
                                        !.over = turn[u].over, !.open = open]
      BY <1>3, <3>1 DEF IInv, TypeOK, TurnState
    <3>3. turn[u].asked \in BOOLEAN /\ open \in BOOLEAN /\ turn[u].over \in Nat
      BY <3>1 DEF TurnState
    <3> HIDE DEF open
    <3>4. QED
      BY <3>2, <3>3
  <2>2. turn' = [u \in Turns |-> turn'[u]]
    BY <1>3 DEF IInv, TypeOK
  <2>3. QED
    BY <1>1, <2>1, <2>2, OutsideKeepsShape
<1>4. QED
  BY <1>2, <1>3 DEF Disconnect

(* A new request starts in shape. *)
LEMMA RequestKeepsShape ==
  ASSUME ChatAssumption, IInv, NEW t \in Turns, NEW c \in Conversations, Request(t, c)
  PROVE  pc' \in [Turns -> Labels] /\ turn' \in [Turns -> TurnState] /\ Shape'
<1> DEFINE g == NewTurn(c, questions + 1)
<1>1. g \in TurnState
  BY DEF NewTurn, TurnState, IInv, TypeOK
<1>2. ShapeAt("budget", g)
  BY Bounds DEF NewTurn, ShapeAt, CostOfRounds, CostBefore, Unpaid
<1>3. Go(t, "budget", g)
  BY DEF Request
<1>4. QED
  BY <1>1, <1>2, <1>3, GoKeepsShape DEF Labels

LEMMA NextKeepsShape ==
  ASSUME ChatAssumption, IInv, [Next]_vars
  PROVE  pc' \in [Turns -> Labels] /\ turn' \in [Turns -> TurnState] /\ Shape'
<1>1. ASSUME NEW t \in Turns, NEW c \in Conversations, Request(t, c)
      PROVE  pc' \in [Turns -> Labels] /\ turn' \in [Turns -> TurnState] /\ Shape'
  BY <1>1, RequestKeepsShape
<1>2. ASSUME NEW t \in Turns, Serve(t)
      PROVE  pc' \in [Turns -> Labels] /\ turn' \in [Turns -> TurnState] /\ Shape'
  BY <1>2, PrepareKeepsShape, StreamKeepsShape, FinalizeKeepsShape DEF Serve
<1>3. ASSUME NEW t \in Turns, Failure(t)
      PROVE  pc' \in [Turns -> Labels] /\ turn' \in [Turns -> TurnState] /\ Shape'
  BY <1>3, FailureKeepsShape
<1>4. ASSUME NEW t \in Turns, Disconnect(t)
      PROVE  pc' \in [Turns -> Labels] /\ turn' \in [Turns -> TurnState] /\ Shape'
  BY <1>4, DisconnectKeepsShape
<1>5. ASSUME NEW c \in Conversations, StopChat(c)
      PROVE  pc' \in [Turns -> Labels] /\ turn' \in [Turns -> TurnState] /\ Shape'
  BY <1>5, RaiseFlagKeepsShape DEF StopChat
<1>6. CASE Crash
  BY <1>6, NoTurnOK DEF Crash, Shape, ShapeAt, Labels
<1>7. ASSUME UNCHANGED <<pc, turn>>
      PROVE  pc' \in [Turns -> Labels] /\ turn' \in [Turns -> TurnState] /\ Shape'
  BY <1>7 DEF IInv, TypeOK, Shape, ShapeAt
<1>8. ASSUME NEW c \in Conversations, DeleteConversation(c) \/ FlagExpires(c)
      PROVE  UNCHANGED <<pc, turn>>
  BY <1>8 DEF DeleteConversation, FlagExpires
<1>9. UsageExpires \/ UNCHANGED vars => UNCHANGED <<pc, turn>>
  BY DEF UsageExpires, vars
<1>10. QED
  BY <1>1, <1>2, <1>3, <1>4, <1>5, <1>6, <1>7, <1>8, <1>9 DEF Next

-----------------------------------------------------------------------------
(* The stores. *)
StoresOK ==
    /\ convs \in [Conversations -> {"absent", "live", "deleted"}]
    /\ log \in [Conversations -> Seq(MessageRow)]
    /\ flag \in [Conversations -> BOOLEAN]
    /\ spend \in Nat
    /\ ttl \in BOOLEAN
    /\ missed \subseteq Turns
    /\ questions \in Nat
    /\ events \in Nat

LEMMA MessageStored ==
  ASSUME IInv, NEW t \in Turns, NEW role \in {"user", "assistant"}, NEW c,
         log' = [log EXCEPT ![c] = Append(@, Message(role, t))]
  PROVE  log' \in [Conversations -> Seq(MessageRow)]
<1>1. turn[t] \in TurnState
  BY DEF IInv, TypeOK
<1>2. Message(role, t) \in MessageRow
  BY <1>1 DEF Message, MessageRow, TurnState
<1>3. log \in [Conversations -> Seq(MessageRow)]
  BY DEF IInv, TypeOK
<1>4. ASSUME NEW m \in MessageRow, NEW s \in Seq(MessageRow)
      PROVE  Append(s, m) \in Seq(MessageRow)
  OBVIOUS
<1>5. ASSUME NEW d \in Conversations PROVE log'[d] \in Seq(MessageRow)
  <2>1. log'[d] \in {log[d], Append(log[d], Message(role, t))}
    BY <1>3
  <2>2. QED
    BY <1>2, <1>3, <1>4, <2>1
<1>6. log' = [d \in Conversations |-> log'[d]]
  BY <1>3
<1>7. QED
  BY <1>5, <1>6

LEMMA NextKeepsStores ==
  ASSUME ChatAssumption, IInv, [Next]_vars
  PROVE  StoresOK'
<1> USE DEF dbRest, redisRest, stops, counters
<1>1. StoresOK
  BY DEF IInv, TypeOK, StoresOK
<1>2. ASSUME NEW t \in Turns PROVE turn[t] \in TurnState
  BY DEF IInv, TypeOK
<1>3. ASSUME NEW t \in Turns, NEW c \in Conversations, Request(t, c) PROVE StoresOK'
  BY <1>1, <1>3 DEF Request, StoresOK
<1>4. ASSUME NEW t \in Turns, Prepare(t) PROVE StoresOK'
  <2>1. CASE CheckBudget(t)
    BY <1>1, <2>1 DEF CheckBudget, StoresOK
  <2>2. CASE ResolveConversation(t)
    BY <1>1, <2>2 DEF ResolveConversation, StoresOK
  <2>3. CASE SaveQuestion(t)
    <3>1. log' \in [Conversations -> Seq(MessageRow)]
      BY <1>1, <2>3, MessageStored DEF SaveQuestion, StoresOK
    <3>2. QED
      BY <1>1, <2>3, <3>1 DEF SaveQuestion, StoresOK
  <2>4. QED
    BY <1>4, <2>1, <2>2, <2>3 DEF Prepare
<1>5. ASSUME NEW t \in Turns, Stream(t) PROVE StoresOK'
  BY <1>1, <1>5 DEF Stream, OpenStream, ReceiveChunk, SendToken, ObserveStop,
       StreamEnds, AnnounceQuery, SkipCall, SendRows, StoresOK
<1>6. ASSUME NEW t \in Turns, Finalize(t) PROVE StoresOK'
  <2>1. CASE SaveReply(t)
    <3>1. log' \in [Conversations -> Seq(MessageRow)]
      BY <1>1, <2>1, MessageStored DEF SaveReply, StoresOK
    <3>2. QED
      BY <1>1, <2>1, <3>1 DEF SaveReply, StoresOK
  <2>2. CASE RecordCost(t)
    <3>1. spend' = spend + turn[t].cost
      BY <2>2 DEF RecordCost, IncrBy
    <3>2. spend \in Nat /\ turn[t].cost \in Nat
      BY <1>1, <1>2 DEF StoresOK, TurnState
    <3>3. spend' \in Nat
      BY <3>1, <3>2
    <3>4. QED
      BY <1>1, <2>2, <3>3 DEF RecordCost, StoresOK
  <2>3. CASE SetExpiry(t)
    BY <1>1, <2>3 DEF SetExpiry, StoresOK
  <2>4. CASE ClearStop(t)
    BY <1>1, <2>4 DEF ClearStop, DropFlag, LiveIn, StoresOK
  <2>5. CASE SendLastEvent(t)
    BY <1>1, <2>5 DEF SendLastEvent, StoresOK
  <2>6. QED
    BY <1>6, <2>1, <2>2, <2>3, <2>4, <2>5 DEF Finalize
<1>7. ASSUME NEW t \in Turns, Failure(t) PROVE StoresOK'
  <2>1. CASE Fail(t)
    BY <1>1, <2>1 DEF Fail, Happens, StoresOK
  <2>2. CASE SaveReplyUnheard(t)
    <3>1. log' \in [Conversations -> Seq(MessageRow)]
      BY <2>2, MessageStored DEF SaveReplyUnheard
    <3>2. QED
      BY <1>1, <2>2, <3>1 DEF SaveReplyUnheard, Happens, StoresOK
  <2>3. CASE RecordCostUnheard(t)
    <3>1. /\ spend' = spend + turn[t].cost
          /\ events' = events + 1
          /\ UNCHANGED <<dbRest, flag, missed, ttl, questions>>
      BY <2>3 DEF RecordCostUnheard, IncrBy, Happens
    <3>2. turn[t].cost \in Nat
      BY <1>2 DEF TurnState
    <3>3. QED
      BY <1>1, <3>1, <3>2 DEF StoresOK
  <2>4. QED
    BY <1>7, <2>1, <2>2, <2>3 DEF Failure
<1>8. ASSUME NEW t \in Turns, Disconnect(t) PROVE StoresOK'
  <2>1. RaiseFlag(turn[t].conv, {t}, {t}) \/ UNCHANGED <<flag, missed>>
    BY <1>8 DEF Disconnect
  <2>2. /\ flag' = flag \/ flag' = [flag EXCEPT ![turn[t].conv] = TRUE]
        /\ missed' \subseteq missed
    BY <2>1 DEF RaiseFlag
  <2>3. events' = events + 1 /\ UNCHANGED <<dbRest, spend, ttl, questions>>
    BY <1>8 DEF Disconnect, Happens
  <2>4. flag' \in [Conversations -> BOOLEAN] /\ missed' \subseteq Turns
    BY <1>1, <2>2 DEF StoresOK
  <2>5. QED
    BY <1>1, <2>3, <2>4 DEF StoresOK
<1>9. ASSUME NEW c \in Conversations, StopChat(c) PROVE StoresOK'
  <2>1. /\ flag' = [flag EXCEPT ![c] = TRUE]
        /\ missed' \subseteq missed
        /\ events' = events + 1
        /\ UNCHANGED <<dbRest, spend, ttl, questions>>
    BY <1>9 DEF StopChat, RaiseFlag, Happens
  <2>2. QED
    BY <1>1, <2>1 DEF StoresOK
<1>10. ASSUME NEW c \in Conversations, DeleteConversation(c) PROVE StoresOK'
  <2>1. <<>> \in Seq(MessageRow)
    OBVIOUS
  <2>2. log' \in [Conversations -> Seq(MessageRow)]
    BY <1>1, <1>10, <2>1 DEF DeleteConversation, StoresOK
  <2>3. QED
    BY <1>1, <1>10, <2>2 DEF DeleteConversation, Happens, StoresOK
<1>11. ASSUME NEW c \in Conversations, FlagExpires(c) PROVE StoresOK'
  BY <1>1, <1>11 DEF FlagExpires, DropFlag, LiveIn, StoresOK
<1>12. CASE UsageExpires
  BY <1>1, <1>12 DEF UsageExpires, StoresOK
<1>13. CASE Crash
  <2>1. events' = events + 1 /\ UNCHANGED <<dbRest, redisRest, questions>>
    BY <1>13 DEF Crash, Happens
  <2>2. QED
    BY <1>1, <2>1 DEF StoresOK
<1>14. CASE UNCHANGED vars
  BY <1>1, <1>14 DEF vars, StoresOK
<1>15. QED
  BY <1>3, <1>4, <1>5, <1>6, <1>7, <1>8, <1>9, <1>10, <1>11, <1>12, <1>13, <1>14
     DEF Next, Serve

(* The inductive invariant. *)
LEMMA Invariance ==
  ASSUME ChatAssumption
  PROVE  Spec => []IInv
<1>1. Init => IInv
  <2>1. SUFFICES ASSUME Init PROVE IInv
    OBVIOUS
  <2>2. \A t \in Turns : pc[t] = "idle" /\ turn[t] = NoTurn
    BY <2>1 DEF Init
  <2>3. Shape
    BY <2>2, NoTurnOK DEF Shape
  <2>4. [c \in Conversations |-> <<>>] \in [Conversations -> Seq(MessageRow)]
    OBVIOUS
  <2>5. TypeOK
    BY <2>1, <2>4, NoTurnOK DEF Init, TypeOK, Labels
  <2>6. QED
    BY <2>3, <2>5 DEF IInv
<1>2. IInv /\ [Next]_vars => IInv'
  <2>1. SUFFICES ASSUME IInv, [Next]_vars PROVE IInv'
    OBVIOUS
  <2>2. TypeOK'
    BY <2>1, NextKeepsShape, NextKeepsStores DEF TypeOK, StoresOK
  <2>3. Shape'
    BY <2>1, NextKeepsShape
  <2>4. QED
    BY <2>2, <2>3 DEF IInv
<1>3. QED
  BY <1>1, <1>2, PTL DEF Spec

(* Every variable keeps its type, whatever happens to a turn: above all the
   tool calls are never counted below zero, nor the rounds past their
   number.                                                                  *)
THEOREM TypeCorrect == ASSUME ChatAssumption PROVE Spec => []TypeOK
<1>1. IInv => TypeOK
  BY DEF IInv
<1>2. QED
  BY <1>1, Invariance, PTL

-----------------------------------------------------------------------------
(* The refinement of SpendPolicy. *)

HasTickets == Labels \ {"idle", "budget"}

(* What a step of turn t does to the tickets. *)
LEMMA GoTickets ==
  ASSUME IInv, NEW t \in Turns, NEW l, NEW g, Go(t, l, g),
         NEW u \in Turns, NEW k \in 1 .. MaxCharges
  PROVE  /\ <<u, k>> \in Tickets <=> pc[u] \notin {"idle", "budget"} /\ turn[u].charges < k
         /\ u # t => (<<u, k>> \in Tickets' <=> <<u, k>> \in Tickets)
         /\ u = t => (<<u, k>> \in Tickets' <=> l \notin {"idle", "budget"} /\ g.charges < k)
  BY DEF IInv, TypeOK, Tickets, Go, MaxCharges

(* A step that moves a turn on, or ends it, forfeits tickets at most. *)
LEMMA GoForfeits ==
  ASSUME IInv, NEW t \in Turns, NEW l, NEW g, Go(t, l, g), UNCHANGED spend,
         \/ l \in {"idle", "budget"}
         \/ pc[t] \notin {"idle", "budget"} /\ g.charges = turn[t].charges
  PROVE  Policy!Next
<1>1. ASSUME NEW u \in Turns, NEW k \in 1 .. MaxCharges, <<u, k>> \in Tickets'
      PROVE  <<u, k>> \in Tickets
  BY <1>1, GoTickets
<1>2. Tickets' \subseteq Tickets
  BY <1>1 DEF Tickets, MaxCharges
<1>3. QED
  BY <1>2 DEF Policy!Next, Policy!Forfeit

LEMMA ThrowForfeits ==
  ASSUME IInv, NEW t \in Turns, Throw(t), pc[t] # "idle", UNCHANGED spend
  PROVE  Policy!Next
<1> DEFINE g == [turn[t] EXCEPT !.failed = TRUE, !.gotUsage = FALSE, !.calls = 0]
<1>1. CASE Leave(t)
  BY <1>1, GoForfeits DEF Leave
<1>2. CASE pc[t] \notin Preparing /\ Go(t, "save", g)
  <2>1. g.charges = turn[t].charges
    BY DEF IInv, TypeOK, TurnState
  <2>2. QED
    BY <1>2, <2>1, GoForfeits
<1>3. QED
  BY <1>1, <1>2 DEF Throw

(* An INCRBY is a charge, for a ticket the turn still has. *)
LEMMA ChargeRefines ==
  ASSUME ChatAssumption, IInv, NEW t \in Turns, pc[t] = "record", IncrBy(t),
         NEW l, NEW g, Go(t, l, g),
         l \in {"idle", "budget"} \/ g.charges = turn[t].charges + 1
  PROVE  Policy!Next
<1>1. turn[t] \in TurnState /\ ShapeAt("record", turn[t])
  BY DEF IInv, TypeOK, Shape
<1> DEFINE ticket == <<t, turn[t].charges + 1>>
<1>2. turn[t].charges + 1 \in 1 .. MaxCharges /\ turn[t].charges \in Nat
  BY <1>1, Bounds DEF ShapeAt, TurnState
<1>3. ticket \in Tickets
  BY <1>2, GoTickets
<1>4. Tickets' \subseteq Tickets \ {ticket}
  <2>1. ASSUME NEW u \in Turns, NEW k \in 1 .. MaxCharges, <<u, k>> \in Tickets'
        PROVE  <<u, k>> \in Tickets /\ <<u, k>> # ticket
    <3>1. CASE u # t
      BY <2>1, <3>1, GoTickets
    <3>2. CASE u = t
      <4>1. turn[t].charges + 1 < k
        BY <2>1, <3>2, GoTickets
      <4>2. QED
        BY <1>2, <3>2, <4>1, GoTickets, Bounds
    <3>3. QED
      BY <3>1, <3>2
  <2>2. QED
    BY <2>1 DEF Tickets, MaxCharges
<1>5. turn[t].cost \in 1 .. MaxTurnCost
  BY <1>1, Bounds DEF ShapeAt, TurnState, CostOfRounds
<1>6. Policy!Charge(ticket, turn[t].cost)
  BY <1>3, <1>4 DEF Policy!Charge, IncrBy
<1>7. QED
  BY <1>3, <1>5, <1>6 DEF Policy!Next

(* An admission hands out all of a turn's tickets. *)
LEMMA AdmitRefines ==
  ASSUME ChatAssumption, IInv, NEW t \in Turns, pc[t] = "budget", spend < Limit,
         Go(t, "resolve", turn[t]), UNCHANGED spend
  PROVE  Policy!Next
<1>1. turn[t].charges = 0
  BY DEF IInv, Shape, ShapeAt, Unpaid
<1>2. ASSUME NEW u \in Turns, NEW k \in 1 .. MaxCharges
      PROVE  <<u, k>> \in Tickets' <=> <<u, k>> \in Tickets \/ u = t
  <2>1. 0 < k
    BY Bounds
  <2>2. QED
    BY <1>1, <2>1, GoTickets
<1>3. Tickets' = Tickets \cup ({t} \X (1 .. MaxCharges))
  BY <1>2 DEF Tickets, MaxCharges
<1>4. QED
  BY <1>3 DEF Policy!Next, Policy!Admit

(* Steps that leave the counters and the charges alone. *)
LEMMA QuietRefines ==
  ASSUME IInv, UNCHANGED <<pc, spend>>,
         \A u \in Turns : turn'[u].charges = turn[u].charges
  PROVE  Policy!Next
<1>1. Tickets' = Tickets
  BY DEF Tickets, MaxCharges
<1>2. QED
  BY <1>1 DEF Policy!Next, Policy!Forfeit

LEMMA PrepareRefines ==
  ASSUME ChatAssumption, IInv, NEW t \in Turns, Prepare(t)
  PROVE  Policy!Next
<1> USE DEF redisRest, stops
<1>1. CASE CheckBudget(t)
  <2>1. CASE spend < Limit
    BY <1>1, <2>1, AdmitRefines DEF CheckBudget
  <2>2. CASE Leave(t)
    BY <1>1, <2>2, GoForfeits DEF CheckBudget, Leave
  <2>3. QED
    BY <1>1, <2>1, <2>2 DEF CheckBudget
<1>2. CASE ResolveConversation(t)
  BY <1>2, GoForfeits DEF ResolveConversation, Leave
<1>3. CASE SaveQuestion(t)
  BY <1>3, GoForfeits DEF SaveQuestion, Leave
<1>4. QED
  BY <1>1, <1>2, <1>3 DEF Prepare

(* None of the steps between admission and the reply changes the charges. *)
LEMMA StreamRefines ==
  ASSUME ChatAssumption, IInv, NEW t \in Turns, Stream(t)
  PROVE  Policy!Next
<1>1. turn[t] \in TurnState
  BY DEF IInv, TypeOK
<1>2. pc[t] \notin {"idle", "budget"} /\ UNCHANGED spend
  BY DEF Stream, OpenStream, ReceiveChunk, SendToken, ObserveStop, StreamEnds,
         AnnounceQuery, SkipCall, SendRows, redisRest
<1>3. ASSUME NEW l, NEW g, Go(t, l, g), g.charges = turn[t].charges
      PROVE  Policy!Next
  BY <1>2, <1>3, GoForfeits
<1>4. CASE Leave(t)
  BY <1>2, <1>4, GoForfeits DEF Leave
<1>5. ASSUME NEW l, NEW stopped, RoundEnds(t, l, stopped)
      PROVE  Policy!Next
  <2>1. PICK n \in RoundCosts :
          Go(t, l, [turn[t] EXCEPT !.roundContent = 0, !.gotUsage = FALSE,
                      !.calls = IF stopped THEN 0 ELSE @, !.stopped = stopped,
                      !.cost = IF turn[t].gotUsage THEN @ ELSE @ + n])
    BY <1>5 DEF RoundEnds
  <2> DEFINE calls == IF stopped THEN 0 ELSE turn[t].calls
             cost  == IF turn[t].gotUsage THEN turn[t].cost ELSE turn[t].cost + n
             g     == [turn[t] EXCEPT !.roundContent = 0, !.gotUsage = FALSE,
                         !.calls = calls, !.stopped = stopped, !.cost = cost]
  <2>2. Go(t, l, g)
    BY <2>1
  <2> HIDE DEF calls, cost
  <2>3. g.charges = turn[t].charges
    BY <1>1 DEF TurnState
  <2>4. QED
    BY <1>3, <2>2, <2>3
<1>6. CASE OpenStream(t)
  BY <1>3, <1>6 DEF OpenStream
<1>7. CASE ReceiveChunk(t)
  <2>1. CASE Go(t, "token", turn[t])
    BY <1>3, <2>1
  <2>2. CASE Go(t, "stream", [turn[t] EXCEPT !.calls = @ + 1])
    <3> DEFINE calls == turn[t].calls + 1
    <3>1. Go(t, "stream", [turn[t] EXCEPT !.calls = calls])
      BY <2>2
    <3> HIDE DEF calls
    <3>2. [turn[t] EXCEPT !.calls = calls].charges = turn[t].charges
      BY <1>1 DEF TurnState
    <3>3. QED
      BY <1>3, <3>1, <3>2
  <2>3. ASSUME NEW n \in RoundCosts,
               Go(t, "stream", [turn[t] EXCEPT !.gotUsage = TRUE, !.cost = @ + n])
        PROVE  Policy!Next
    <3> DEFINE cost == turn[t].cost + n
    <3>1. Go(t, "stream", [turn[t] EXCEPT !.gotUsage = TRUE, !.cost = cost])
      BY <2>3
    <3> HIDE DEF cost
    <3>2. [turn[t] EXCEPT !.gotUsage = TRUE, !.cost = cost].charges = turn[t].charges
      BY <1>1 DEF TurnState
    <3>3. QED
      BY <1>3, <3>1, <3>2
  <2>4. QED
    BY <1>7, <2>1, <2>2, <2>3 DEF ReceiveChunk
<1>8. CASE SendToken(t)
  <2> DEFINE sent == turn[t].roundContent + 1
             over == IF turn[t].asked THEN turn[t].over + 1 ELSE turn[t].over
             g    == [turn[t] EXCEPT !.roundContent = sent, !.over = over]
  <2>1. Leave(t) \/ Go(t, "stream", g)
    BY <1>8 DEF SendToken, YieldThen
  <2> HIDE DEF sent, over
  <2>2. g.charges = turn[t].charges
    BY <1>1 DEF TurnState
  <2>3. QED
    BY <1>3, <1>4, <2>1, <2>2
<1>9. CASE ObserveStop(t) \/ StreamEnds(t)
  BY <1>5, <1>9 DEF ObserveStop, StreamEnds
<1>10. CASE AnnounceQuery(t) \/ SkipCall(t) \/ SendRows(t)
  <2>1. CallDone(t).locals.charges = turn[t].charges
    <3> DEFINE calls == turn[t].calls - 1
               g     == [turn[t] EXCEPT !.calls = calls]
               round == g.round + 1
               h     == [g EXCEPT !.round = round]
    <3>1. CallDone(t).locals = g \/ CallDone(t).locals = h
      BY DEF CallDone
    <3> HIDE DEF calls, round
    <3>2. g.charges = turn[t].charges /\ h.charges = turn[t].charges
      BY <1>1 DEF TurnState
    <3>3. QED
      BY <3>1, <3>2
  <2>2. \/ Leave(t)
        \/ Go(t, "query", turn[t])
        \/ Go(t, CallDone(t).at, CallDone(t).locals)
    BY <1>10 DEF AnnounceQuery, SkipCall, SendRows, YieldThen
  <2>3. QED
    BY <1>3, <1>4, <2>1, <2>2
<1>11. QED
  BY <1>6, <1>7, <1>8, <1>9, <1>10 DEF Stream

LEMMA FinalizeRefines ==
  ASSUME ChatAssumption, IInv, NEW t \in Turns, Finalize(t)
  PROVE  Policy!Next
<1> USE DEF redisRest, stops
<1>1. CASE SaveReply(t)
  <2>1. CASE Throw(t)
    BY <1>1, <2>1, ThrowForfeits DEF SaveReply
  <2>2. CASE Go(t, IF turn[t].cost > 0 THEN "record" ELSE "clear", turn[t])
    BY <1>1, <2>2, GoForfeits DEF SaveReply
  <2>3. QED
    BY <1>1, <2>1, <2>2 DEF SaveReply
<1>2. CASE RecordCost(t)
  <2> DEFINE g == [turn[t] EXCEPT !.charges = @ + 1]
             l == IF spend' = turn[t].cost THEN "expire" ELSE "clear"
  <2>1. g.charges = turn[t].charges + 1
    BY DEF IInv, TypeOK, TurnState
  <2>2. pc[t] = "record" /\ IncrBy(t) /\ Go(t, l, g)
    BY <1>2 DEF RecordCost
  <2> HIDE DEF g, l
  <2>3. QED
    BY <2>1, <2>2, ChargeRefines
<1>3. CASE SetExpiry(t)
  BY <1>3, GoForfeits DEF SetExpiry
<1>4. CASE ClearStop(t)
  BY <1>4, GoForfeits DEF ClearStop
<1>5. CASE SendLastEvent(t)
  BY <1>5, GoForfeits DEF SendLastEvent, Leave
<1>6. QED
  BY <1>1, <1>2, <1>3, <1>4, <1>5 DEF Finalize

LEMMA FailureRefines ==
  ASSUME ChatAssumption, IInv, NEW t \in Turns, Failure(t)
  PROVE  Policy!Next
<1> USE DEF redisRest, stops
<1>1. CASE Fail(t)
  <2>1. pc[t] # "idle"
    BY <1>1 DEF Fail, FailureAt
  <2>2. QED
    BY <1>1, <2>1, ThrowForfeits DEF Fail
<1>2. CASE SaveReplyUnheard(t)
  BY <1>2, ThrowForfeits DEF SaveReplyUnheard
<1>3. CASE RecordCostUnheard(t)
  <2> DEFINE charges == turn[t].charges + 1
             g       == [turn[t] EXCEPT !.failed = TRUE, !.charges = charges]
  <2>1. pc[t] = "record" /\ IncrBy(t) /\ (Leave(t) \/ Go(t, "save", g))
    BY <1>3 DEF RecordCostUnheard
  <2>2. CASE Leave(t)
    BY <2>1, <2>2, ChargeRefines DEF Leave
  <2>3. CASE Go(t, "save", g)
    <3>1. turn[t] \in TurnState
      BY DEF IInv, TypeOK
    <3> HIDE DEF charges
    <3>2. g.charges = charges
      BY <3>1 DEF TurnState
    <3>3. g.charges = turn[t].charges + 1
      BY <3>2 DEF charges
    <3> HIDE DEF g
    <3>4. QED
      BY <2>1, <2>3, <3>3, ChargeRefines
  <2>4. QED
    BY <2>1, <2>2, <2>3
<1>4. QED
  BY <1>1, <1>2, <1>3 DEF Failure

LEMMA RaiseFlagRefines ==
  ASSUME IInv, NEW c, NEW hit, NEW closed, RaiseFlag(c, hit, closed),
         UNCHANGED <<pc, spend>>
  PROVE  Policy!Next
<1>1. ASSUME NEW u \in Turns PROVE turn'[u].charges = turn[u].charges
  <2>1. turn[u] \in TurnState
    BY DEF IInv, TypeOK
  <2> DEFINE meant == turn[u].asked \/ u \in hit
             open  == turn[u].open /\ u \notin closed
             over  == IF u \in hit \cap missed THEN 0 ELSE turn[u].over
  <2>2. turn'[u] = [turn[u] EXCEPT !.asked = meant, !.over = over, !.open = open]
    BY DEF RaiseFlag
  <2> HIDE DEF meant, open, over
  <2>3. QED
    BY <2>1, <2>2 DEF TurnState
<1>2. QED
  BY <1>1, QuietRefines

LEMMA DisconnectRefines ==
  ASSUME IInv, NEW t \in Turns, Disconnect(t)
  PROVE  Policy!Next
<1>1. UNCHANGED <<pc, spend>>
  BY DEF Disconnect
<1>2. CASE RaiseFlag(turn[t].conv, {t}, {t})
  BY <1>1, <1>2, RaiseFlagRefines
<1>3. CASE turn' = [turn EXCEPT ![t].open = FALSE]
  <2>1. ASSUME NEW u \in Turns PROVE turn'[u].charges = turn[u].charges
    BY <1>3 DEF IInv, TypeOK, TurnState
  <2>2. QED
    BY <1>1, <2>1, QuietRefines
<1>4. QED
  BY <1>2, <1>3 DEF Disconnect

(* Every step of the pipeline is a step of the policy, or none. *)
LEMMA NextRefines ==
  ASSUME ChatAssumption, IInv, [Next]_vars
  PROVE  [Policy!Next]_(Policy!vars)
<1> USE DEF redisRest, stops
<1>1. ASSUME NEW t \in Turns, NEW c \in Conversations, Request(t, c)
      PROVE  Policy!Next
  BY <1>1, GoForfeits DEF Request
<1>2. ASSUME NEW t \in Turns, Serve(t)
      PROVE  Policy!Next
  BY <1>2, PrepareRefines, StreamRefines, FinalizeRefines DEF Serve
<1>3. ASSUME NEW t \in Turns, Failure(t)
      PROVE  Policy!Next
  BY <1>3, FailureRefines
<1>4. ASSUME NEW t \in Turns, Disconnect(t)
      PROVE  Policy!Next
  BY <1>4, DisconnectRefines
<1>5. ASSUME NEW c \in Conversations, StopChat(c)
      PROVE  Policy!Next
  BY <1>5, RaiseFlagRefines DEF StopChat
<1>6. CASE Crash
  <2>1. Tickets' = {}
    BY <1>6 DEF Crash, Tickets, MaxCharges
  <2>2. QED
    BY <1>6, <2>1 DEF Crash, Policy!Next, Policy!Forfeit
<1>7. ASSUME NEW c \in Conversations, DeleteConversation(c) \/ FlagExpires(c)
      PROVE  Policy!Next
  BY <1>7, QuietRefines DEF DeleteConversation, FlagExpires
<1>8. CASE UsageExpires
  <2>1. Tickets' = Tickets /\ spend' = 0
    BY <1>8 DEF UsageExpires, Tickets, MaxCharges
  <2>2. QED
    BY <2>1 DEF Policy!Next, Policy!Reset
<1>9. CASE UNCHANGED vars
  BY <1>9 DEF vars, Policy!vars, Tickets, MaxCharges
<1>10. QED
  BY <1>1, <1>2, <1>3, <1>4, <1>5, <1>6, <1>7, <1>8, <1>9 DEF Next

(* The pipeline implements the spending policy: a turn is admitted only
   below the limit, and charged at most MaxCharges times for no more than
   its rounds can cost, through every failure, stop and restart.            *)
THEOREM RefinesSpendPolicy == ASSUME ChatAssumption PROVE Spec => PolicySpec
<1>1. Init => Policy!Init
  BY DEF Init, Policy!Init, Tickets
<1>2. IInv /\ [Next]_vars => [Policy!Next]_(Policy!vars)
  BY NextRefines
<1>3. QED
  BY <1>1, <1>2, Invariance, PTL DEF Spec, PolicySpec, Policy!Spec

Bound == INSTANCE SpendPolicyProofs WITH tickets <- Tickets, MaxCost <- MaxTurnCost

(* What an account spends in a window exceeds its limit by no more than what
   the requests in flight when the limit was reached can still cost.        *)
THEOREM SpendIsBounded == ASSUME ChatAssumption PROVE Spec => []Policy!SpendBounded
<1>1. Bound!PolicyAssumption
  BY Bounds DEF ChatAssumption, Bound!PolicyAssumption, IsFiniteSet, Bound!IsFiniteSet
<1>2. Bound!Spec => [](Bound!TypeOK /\ Bound!Exposure /\ Bound!SpendBounded)
  BY <1>1, Bound!OvershootBounded
<1>3. Policy!Init => Bound!Init
  BY DEF Policy!Init, Bound!Init
<1>4. [Policy!Next]_(Policy!vars) => [Bound!Next]_(Bound!vars)
  BY DEF Policy!Next, Policy!vars, Policy!Admit, Policy!Charge, Policy!Forfeit, Policy!Reset,
         Bound!Next, Bound!vars, Bound!Admit, Bound!Charge, Bound!Forfeit, Bound!Reset
<1>5. Bound!SpendBounded => Policy!SpendBounded
  BY DEF Bound!SpendBounded, Policy!SpendBounded, Bound!MaxOvershoot, Policy!MaxOvershoot,
         Bound!Cardinality, Policy!Cardinality
<1>6. QED
  BY <1>2, <1>3, <1>4, <1>5, RefinesSpendPolicy, PTL
     DEF PolicySpec, Policy!Spec, Bound!Spec

-----------------------------------------------------------------------------
(* The spending window always has an end. *)

(* Only the turn that is to set the expiry leaves label "expire". *)
LEMMA ExpiryPending ==
  ASSUME ChatAssumption, IInv, [Next]_vars, "redis" \notin Env, "crash" \notin Env,
         NEW u \in Turns, pc[u] = "expire", pc'[u] # "expire"
  PROVE  SetExpiry(u)
<1> USE DEF Labels
<1>1. ASSUME NEW t \in Turns, NEW l, NEW g, Go(t, l, g)
      PROVE  t = u
  BY <1>1 DEF Go, IInv, TypeOK
<1>2. ~(UNCHANGED pc)
  OBVIOUS
<1>3. ASSUME NEW t \in Turns, NEW c \in Conversations, Request(t, c)
      PROVE  FALSE
  BY <1>1, <1>3 DEF Request
<1>4. ASSUME NEW t \in Turns, Throw(t)
      PROVE  t = u
  BY <1>1, <1>4 DEF Throw, Leave
<1>5. ASSUME NEW t \in Turns, Prepare(t)
      PROVE  FALSE
  BY <1>1, <1>5 DEF Prepare, CheckBudget, ResolveConversation, SaveQuestion, Leave
<1>6. ASSUME NEW t \in Turns, Stream(t)
      PROVE  FALSE
  <2>1. pc[t] \in Streaming
    BY <1>6 DEF Stream, OpenStream, ReceiveChunk, SendToken, ObserveStop, StreamEnds,
                AnnounceQuery, SkipCall, SendRows
  <2>2. t = u
    BY <1>1, <1>6 DEF Stream, OpenStream, ReceiveChunk, SendToken, ObserveStop,
                StreamEnds, AnnounceQuery, SkipCall, SendRows, YieldThen, Leave, RoundEnds
  <2>3. QED
    BY <2>1, <2>2
<1>7. ASSUME NEW t \in Turns, Finalize(t)
      PROVE  SetExpiry(u)
  <2>1. t = u
    BY <1>1, <1>4, <1>7
       DEF Finalize, SaveReply, RecordCost, SetExpiry, ClearStop, SendLastEvent, Leave
  <2>2. QED
    BY <1>7, <2>1 DEF Finalize, SaveReply, RecordCost, SetExpiry, ClearStop, SendLastEvent
<1>8. ASSUME NEW t \in Turns, Failure(t)
      PROVE  FALSE
  <2>1. CASE Fail(t)
    <3>1. pc[t] # "expire"
      BY <2>1 DEF Fail, FailureAt, Happens
    <3>2. QED
      BY <1>4, <2>1, <3>1 DEF Fail
  <2>2. CASE SaveReplyUnheard(t)
    BY <1>4, <2>2 DEF SaveReplyUnheard
  <2>3. CASE RecordCostUnheard(t)
    BY <2>3 DEF RecordCostUnheard, Happens
  <2>4. QED
    BY <1>8, <2>1, <2>2, <2>3 DEF Failure
<1>9. ~Crash
  BY DEF Crash, Happens
<1>10. QED
  BY <1>2, <1>3, <1>5, <1>6, <1>7, <1>8, <1>9
     DEF Next, Serve, Disconnect, StopChat, DeleteConversation, FlagExpires,
         UsageExpires, vars

(* Nothing but the three steps that are about it changes spend or ttl. *)
LEMMA WindowChanges ==
  ASSUME [Next]_vars, "redis" \notin Env
  PROVE  \/ UNCHANGED <<spend, ttl>>
         \/ UsageExpires
         \/ \E t \in Turns : RecordCost(t) \/ SetExpiry(t)
<1> USE DEF redisRest, stops
<1>1. ASSUME NEW t \in Turns, Prepare(t) \/ Stream(t) \/ Disconnect(t)
      PROVE  UNCHANGED <<spend, ttl>>
  BY <1>1 DEF Prepare, CheckBudget, ResolveConversation, SaveQuestion, Stream,
       OpenStream, ReceiveChunk, SendToken, ObserveStop, StreamEnds, AnnounceQuery,
       SkipCall, SendRows, Disconnect
<1>2. ASSUME NEW t \in Turns, Finalize(t)
      PROVE  UNCHANGED <<spend, ttl>> \/ RecordCost(t) \/ SetExpiry(t)
  BY <1>2 DEF Finalize, SaveReply, ClearStop, SendLastEvent
<1>3. ASSUME NEW t \in Turns, Failure(t)
      PROVE  UNCHANGED <<spend, ttl>>
  BY <1>3 DEF Failure, Fail, SaveReplyUnheard, RecordCostUnheard, Happens
<1>4. ASSUME NEW t \in Turns, NEW c \in Conversations, Request(t, c)
      PROVE  UNCHANGED <<spend, ttl>>
  BY <1>4 DEF Request
<1>5. ASSUME NEW c \in Conversations, StopChat(c) \/ DeleteConversation(c) \/ FlagExpires(c)
      PROVE  UNCHANGED <<spend, ttl>>
  BY <1>5 DEF StopChat, DeleteConversation, FlagExpires
<1>6. CASE Crash \/ UNCHANGED vars
  BY <1>6 DEF Crash, vars
<1>7. QED
  BY <1>1, <1>2, <1>3, <1>4, <1>5, <1>6 DEF Next, Serve

(* As long as no Redis command fails and the process does not die, a spend
   without an expiry is about to get one: the turn whose INCRBY created the
   key has EXPIRE as its next statement.                                    *)
THEOREM WindowIsArmed ==
  ASSUME ChatAssumption, "redis" \notin Env, "crash" \notin Env
  PROVE  Spec => []WindowArmed
<1>1. Init => WindowArmed
  BY DEF Init, WindowArmed
<1>2. IInv /\ WindowArmed /\ [Next]_vars => WindowArmed'
  <2>1. SUFFICES ASSUME IInv, WindowArmed, [Next]_vars, spend' > 0, ~ttl'
                 PROVE  \E t \in Turns : pc'[t] = "expire"
    BY DEF WindowArmed
  <2>2. CASE \E u \in Turns : pc[u] = "expire"
    <3>1. PICK u \in Turns : pc[u] = "expire"
      BY <2>2
    <3>2. CASE pc'[u] = "expire"
      BY <3>2
    <3>3. CASE SetExpiry(u)
      BY <2>1, <3>3 DEF SetExpiry
    <3>4. QED
      BY <2>1, <3>1, <3>2, <3>3, ExpiryPending
  <2>3. CASE UNCHANGED <<spend, ttl>>
    <3>1. \E u \in Turns : pc[u] = "expire"
      BY <2>1, <2>3 DEF WindowArmed
    <3>2. QED
      BY <2>2, <3>1
  <2>4. CASE UsageExpires
    BY <2>1, <2>4 DEF UsageExpires
  <2>5. ASSUME NEW t \in Turns, SetExpiry(t) PROVE FALSE
    BY <2>1, <2>5 DEF SetExpiry
  <2>6. ASSUME NEW t \in Turns, RecordCost(t), \A u \in Turns : pc[u] # "expire"
        PROVE  \E u \in Turns : pc'[u] = "expire"
    <3>1. spend' = spend + turn[t].cost /\ UNCHANGED ttl
      BY <2>6 DEF RecordCost, IncrBy
    <3>2. spend \in Nat /\ turn[t].cost \in Nat
      BY <2>1 DEF IInv, TypeOK, TurnState
    <3>3. spend = 0
      BY <2>1, <2>6, <3>1, <3>2 DEF WindowArmed
    <3>4. spend' = turn[t].cost
      BY <3>1, <3>2, <3>3
    <3>5. pc'[t] = "expire"
      BY <2>1, <2>6, <3>4 DEF RecordCost, Go, IInv, TypeOK
    <3>6. QED
      BY <3>5
  <2>7. QED
    BY <2>1, <2>2, <2>3, <2>4, <2>5, <2>6, WindowChanges
<1>3. QED
  BY <1>1, <1>2, Invariance, PTL DEF Spec

-----------------------------------------------------------------------------
(* The conversations.  From here on a step is told by its kind: what it does
   to the messages, the flag and the turn that takes it.  Before a turn's reply
   is stored it is Answering, afterwards it has Answered.                   *)
Answering == Streaming \cup {"save"}
Answered  == {"record", "expire", "clear", "done"}

Alone(t) == \A u \in Turns \ {t} : pc'[u] = pc[u] /\ turn'[u] = turn[u]

Keeps(t) ==
    /\ turn'[t].conv = turn[t].conv
    /\ turn'[t].question = turn[t].question
    /\ turn'[t].open = turn[t].open
    /\ turn'[t].asked = turn[t].asked

kept == <<convs, log, flag, missed, questions>>

(* A turn goes on without touching the conversation or its flag. *)
Streams(t) ==
    /\ pc[t] \in Answering /\ pc'[t] \in Answering
    /\ pc[t] = "save" => pc'[t] = "save"
    /\ pc'[t] = "token" => ~flag[turn[t].conv]
    /\ ~turn[t].failed /\ turn'[t].charges = turn[t].charges
    /\ turn'[t].over = IF pc[t] = "token" /\ turn[t].asked
                       THEN turn[t].over + 1 ELSE turn[t].over

Settles(t) ==
    /\ turn'[t].over = turn[t].over
    /\ turn'[t].cost = turn[t].cost
    /\ \/ pc[t] = "record" /\ pc'[t] \in {"expire", "clear"}
          /\ turn'[t].charges = turn[t].charges + 1
          /\ turn'[t].failed = turn[t].failed
       \/ pc[t] = "expire" /\ pc'[t] = "clear" /\ turn'[t].charges = turn[t].charges
          /\ turn'[t].failed = turn[t].failed
       \/ pc[t] \in Answered /\ pc'[t] = "save" /\ "redis" \in Env
          /\ ~turn[t].failed /\ turn'[t].failed
          /\ \/ turn'[t].charges = turn[t].charges
             \/ pc[t] = "record" /\ turn'[t].charges = turn[t].charges + 1

Works(t) ==
    /\ Alone(t) /\ Keeps(t) /\ UNCHANGED kept
    /\ \/ pc[t] = "budget" /\ pc'[t] = "resolve" /\ turn'[t] = turn[t]
       \/ Streams(t)
       \/ Settles(t)

(* A turn ends.  One that has not stored its reply does so when its client
   is gone, its conversation is, or Postgres fails it twice.                *)
Quits(t) ==
    /\ Leave(t) /\ UNCHANGED kept
    /\ Live(t)
    /\ pc[t] \in Answering =>
         ~turn[t].open \/ convs[turn[t].conv] # "live" \/ "db" \in Env

Resolves(t) ==
    /\ pc[t] = "resolve"
    /\ Go(t, "ask", turn[t])
    /\ convs[turn[t].conv] # "deleted"
    /\ convs' = IF convs[turn[t].conv] = "absent"
                THEN [convs EXCEPT ![turn[t].conv] = "live"] ELSE convs
    /\ UNCHANGED <<log, flag, missed, questions>>

Adds(c, role, t) == log' = [log EXCEPT ![c] = Append(@, Message(role, t))]

Asks(t) ==
    /\ pc[t] = "ask"
    /\ convs[turn[t].conv] = "live"
    /\ Go(t, "open", turn[t])
    /\ Adds(turn[t].conv, "user", t)
    /\ UNCHANGED <<convs, flag, missed, questions>>

(* A reply is stored, and the turn hears of it, or not. *)
Replied(t) ==
    /\ pc[t] = "save"
    /\ convs[turn[t].conv] = "live"
    /\ Adds(turn[t].conv, "assistant", t)
    /\ UNCHANGED <<convs, flag, missed, questions>>
    /\ \/ Go(t, IF turn[t].cost > 0 THEN "record" ELSE "clear", turn[t])
       \/ Throw(t) /\ "db" \in Env

Clears(t) ==
    /\ pc[t] = "clear"
    /\ DropFlag(turn[t].conv, LiveIn(turn[t].conv) \ {t})
    /\ Go(t, "done", turn[t])
    /\ UNCHANGED <<convs, log, questions>>

(* Steps that are no turn's own. *)
Raises(c, hit, closed) ==
    /\ RaiseFlag(c, hit, closed)
    /\ hit \subseteq LiveIn(c)
    /\ closed = {} \/ "disconnect" \in Env
    /\ UNCHANGED <<pc, convs, log, questions>>

HangsUp(t) ==
    /\ "disconnect" \in Env
    /\ turn' = [turn EXCEPT ![t].open = FALSE]
    /\ UNCHANGED <<pc, kept>>

OwnStep(t) ==
    \/ Works(t) \/ Quits(t) \/ Resolves(t) \/ Asks(t) \/ Replied(t) \/ Clears(t)

(* A step of a turn leaves the other turns alone. *)
LEMMA GoAlone ==
  ASSUME IInv, NEW t \in Turns, NEW l, NEW g, Go(t, l, g)
  PROVE  Alone(t) /\ pc'[t] = l /\ turn'[t] = g
  BY DEF IInv, TypeOK, Go, Alone

(* What a throw does: the catch block is entered, or the handler is left. *)
LEMMA ThrowKinds ==
  ASSUME ChatAssumption, IInv, NEW t \in Turns, Throw(t), UNCHANGED kept, Live(t),
         pc[t] \in Answered => "redis" \in Env,
         pc[t] # "token",
         pc[t] = "save" => convs[turn[t].conv] # "live" \/ "db" \in Env
  PROVE  Works(t) \/ Quits(t)
<1>1. turn[t] \in TurnState /\ ShapeAt(pc[t], turn[t]) /\ pc[t] \in Labels
  BY DEF IInv, TypeOK, Shape
<1>2. CASE pc[t] \in Preparing \/ turn[t].failed
  BY <1>1, <1>2 DEF Throw, Quits, Answering, ShapeAt, Unpaid
<1>3. CASE ~(pc[t] \in Preparing \/ turn[t].failed)
  <2> DEFINE g == [turn[t] EXCEPT !.failed = TRUE, !.gotUsage = FALSE, !.calls = 0]
  <2>1. Go(t, "save", g)
    BY <1>3 DEF Throw
  <2>2. /\ g.conv = turn[t].conv /\ g.question = turn[t].question
        /\ g.open = turn[t].open /\ g.asked = turn[t].asked
        /\ g.over = turn[t].over /\ g.cost = turn[t].cost
        /\ g.charges = turn[t].charges /\ g.failed
    BY <1>1 DEF TurnState
  <2> HIDE DEF g
  <2>3. Alone(t) /\ pc'[t] = "save" /\ turn'[t] = g
    BY <2>1, GoAlone
  <2>4. pc[t] \in Answering \cup Answered
    BY <1>1, <1>3 DEF Live, Labels, Answering, Answered
  <2>5. CASE pc[t] \in Answering
    BY <1>3, <2>2, <2>3, <2>5 DEF Works, Keeps, Streams, Answering
  <2>6. CASE pc[t] \in Answered
    BY <1>3, <2>2, <2>3, <2>6 DEF Works, Keeps, Settles
  <2>7. QED
    BY <2>4, <2>5, <2>6
<1>4. QED
  BY <1>2, <1>3

LEMMA PrepareKinds ==
  ASSUME ChatAssumption, IInv, NEW t \in Turns, Prepare(t)
  PROVE  OwnStep(t)
<1> USE DEF dbRest, redisRest, stops, counters, kept
<1>1. CASE CheckBudget(t)
  <2>1. CASE Go(t, "resolve", turn[t])
    BY <1>1, <2>1, GoAlone DEF CheckBudget, OwnStep, Works, Keeps
  <2>2. CASE Leave(t)
    BY <1>1, <2>2 DEF CheckBudget, OwnStep, Quits, Live, Answering
  <2>3. QED
    BY <1>1, <2>1, <2>2 DEF CheckBudget
<1>2. CASE ResolveConversation(t)
  <2>1. CASE convs[turn[t].conv] = "deleted"
    BY <1>2, <2>1 DEF ResolveConversation, OwnStep, Quits, Live, Answering
  <2>2. CASE convs[turn[t].conv] # "deleted"
    BY <1>2, <2>2 DEF ResolveConversation, OwnStep, Resolves
  <2>3. QED
    BY <2>1, <2>2
<1>3. CASE SaveQuestion(t)
  <2>1. CASE convs[turn[t].conv] = "live"
    BY <1>3, <2>1 DEF SaveQuestion, OwnStep, Asks, Adds
  <2>2. CASE convs[turn[t].conv] # "live"
    BY <1>3, <2>2 DEF SaveQuestion, OwnStep, Quits, Live, Answering
  <2>3. QED
    BY <2>1, <2>2
<1>4. QED
  BY <1>1, <1>2, <1>3 DEF Prepare

(* A step within the rounds, with new locals g. *)
LEMMA StreamingKind ==
  ASSUME IInv, NEW t \in Turns, pc[t] \in Streaming,
         NEW l \in Streaming \cup {"save"}, NEW g, Go(t, l, g), UNCHANGED kept,
         g.conv = turn[t].conv, g.question = turn[t].question,
         g.open = turn[t].open, g.asked = turn[t].asked, g.charges = turn[t].charges,
         l = "token" => ~flag[turn[t].conv],
         g.over = IF pc[t] = "token" /\ turn[t].asked
                  THEN turn[t].over + 1 ELSE turn[t].over
  PROVE  Works(t)
<1>1. ~turn[t].failed
  BY DEF IInv, Shape, ShapeAt, Unpaid
<1>2. QED
  BY <1>1, GoAlone DEF Works, Keeps, Streams, Answering

LEMMA RoundEndsKind ==
  ASSUME IInv, NEW t \in Turns, NEW l \in {"save", "tools"}, NEW stopped \in BOOLEAN,
         pc[t] = "stream", RoundEnds(t, l, stopped), UNCHANGED kept
  PROVE  Works(t)
<1>1. turn[t] \in TurnState
  BY DEF IInv, TypeOK
<1>2. PICK n \in RoundCosts :
        Go(t, l, [turn[t] EXCEPT !.roundContent = 0, !.gotUsage = FALSE,
                    !.calls = IF stopped THEN 0 ELSE @, !.stopped = stopped,
                    !.cost = IF turn[t].gotUsage THEN @ ELSE @ + n])
  BY DEF RoundEnds
<1> DEFINE calls == IF stopped THEN 0 ELSE turn[t].calls
           cost  == IF turn[t].gotUsage THEN turn[t].cost ELSE turn[t].cost + n
           g     == [turn[t] EXCEPT !.roundContent = 0, !.gotUsage = FALSE,
                       !.calls = calls, !.stopped = stopped, !.cost = cost]
<1>3. Go(t, l, g)
  BY <1>2
<1> HIDE DEF calls, cost
<1>4. /\ g.conv = turn[t].conv /\ g.question = turn[t].question /\ g.open = turn[t].open
      /\ g.asked = turn[t].asked /\ g.over = turn[t].over /\ g.charges = turn[t].charges
  BY <1>1 DEF TurnState
<1>5. QED
  BY <1>3, <1>4, StreamingKind

LEMMA CallDoneKind ==
  ASSUME IInv, NEW t \in Turns, pc[t] \in {"tools", "query"},
         Go(t, CallDone(t).at, CallDone(t).locals), UNCHANGED kept
  PROVE  Works(t)
<1> DEFINE g == [turn[t] EXCEPT !.calls = @ - 1]
           h == [g EXCEPT !.round = @ + 1]
<1>1. turn[t] \in TurnState
  BY DEF IInv, TypeOK
<1>2. /\ g.conv = turn[t].conv /\ g.question = turn[t].question /\ g.open = turn[t].open
      /\ g.asked = turn[t].asked /\ g.over = turn[t].over /\ g.charges = turn[t].charges
      /\ h.conv = turn[t].conv /\ h.question = turn[t].question /\ h.open = turn[t].open
      /\ h.asked = turn[t].asked /\ h.over = turn[t].over /\ h.charges = turn[t].charges
  BY <1>1 DEF TurnState
<1>3. \/ CallDone(t) = [at |-> "tools", locals |-> g]
      \/ CallDone(t) = [at |-> "open", locals |-> h]
      \/ CallDone(t) = [at |-> "save", locals |-> g]
  BY DEF CallDone
<1> HIDE DEF g, h
<1>4. Go(t, "tools", g) \/ Go(t, "open", h) \/ Go(t, "save", g)
  BY <1>3
<1>5. QED
  BY <1>2, <1>4, StreamingKind

LEMMA StreamKinds ==
  ASSUME ChatAssumption, IInv, NEW t \in Turns, Stream(t)
  PROVE  OwnStep(t)
<1> USE DEF dbRest, redisRest, stops, counters, kept
<1>1. turn[t] \in TurnState
  BY DEF IInv, TypeOK
<1>2. CASE OpenStream(t)
  BY <1>2, StreamingKind DEF OpenStream, OwnStep
<1>3. CASE ReceiveChunk(t)
  <2>1. CASE Go(t, "token", turn[t])
    BY <1>3, <2>1, StreamingKind DEF ReceiveChunk, StopRequested, OwnStep
  <2>2. CASE Go(t, "stream", [turn[t] EXCEPT !.calls = @ + 1])
    <3> DEFINE g == [turn[t] EXCEPT !.calls = @ + 1]
    <3>1. /\ g.conv = turn[t].conv /\ g.question = turn[t].question /\ g.open = turn[t].open
          /\ g.asked = turn[t].asked /\ g.over = turn[t].over /\ g.charges = turn[t].charges
      BY <1>1 DEF TurnState
    <3> HIDE DEF g
    <3>2. QED
      BY <1>3, <2>2, <3>1, StreamingKind DEF ReceiveChunk, OwnStep, g
  <2>3. ASSUME NEW n \in RoundCosts,
               Go(t, "stream", [turn[t] EXCEPT !.gotUsage = TRUE, !.cost = @ + n])
        PROVE  OwnStep(t)
    <3> DEFINE g == [turn[t] EXCEPT !.gotUsage = TRUE, !.cost = @ + n]
    <3>1. /\ g.conv = turn[t].conv /\ g.question = turn[t].question /\ g.open = turn[t].open
          /\ g.asked = turn[t].asked /\ g.over = turn[t].over /\ g.charges = turn[t].charges
      BY <1>1 DEF TurnState
    <3>2. Go(t, "stream", g)
      BY <2>3
    <3> HIDE DEF g
    <3>3. QED
      BY <1>3, <3>1, <3>2, StreamingKind DEF ReceiveChunk, OwnStep
  <2>4. QED
    BY <1>3, <2>1, <2>2, <2>3 DEF ReceiveChunk
<1>4. ASSUME YieldThen(t, CallDone(t).at, CallDone(t).locals) \/ YieldThen(t, "query", turn[t]),
             pc[t] \in {"tools", "query"}, UNCHANGED kept
      PROVE  OwnStep(t)
  <2>1. CASE ~turn[t].open
    BY <1>4, <2>1 DEF YieldThen, OwnStep, Quits, Live
  <2>2. CASE turn[t].open /\ Go(t, CallDone(t).at, CallDone(t).locals)
    BY <1>4, <2>2, CallDoneKind DEF OwnStep
  <2>3. CASE turn[t].open /\ Go(t, "query", turn[t])
    BY <1>4, <2>3, StreamingKind DEF OwnStep
  <2>4. QED
    BY <1>4, <2>1, <2>2, <2>3 DEF YieldThen
<1>5. CASE SendToken(t)
  <2> DEFINE over == IF turn[t].asked THEN turn[t].over + 1 ELSE turn[t].over
             sent == turn[t].roundContent + 1
             g    == [turn[t] EXCEPT !.roundContent = sent, !.over = over]
  <2>1. CASE ~turn[t].open
    BY <1>5, <2>1 DEF SendToken, YieldThen, OwnStep, Quits, Live
  <2>2. CASE turn[t].open
    <3>1. Go(t, "stream", g)
      BY <1>5, <2>2 DEF SendToken, YieldThen
    <3> HIDE DEF over, sent
    <3>2. /\ g.conv = turn[t].conv /\ g.question = turn[t].question /\ g.open = turn[t].open
          /\ g.asked = turn[t].asked /\ g.over = over /\ g.charges = turn[t].charges
      BY <1>1 DEF TurnState
    <3>3. pc[t] = "token" /\ UNCHANGED kept
      BY <1>5 DEF SendToken
    <3>4. over = IF pc[t] = "token" /\ turn[t].asked
                 THEN turn[t].over + 1 ELSE turn[t].over
      BY <3>3 DEF over
    <3> HIDE DEF g
    <3>5. Works(t)
      BY <3>1, <3>2, <3>3, <3>4, StreamingKind
    <3>6. QED
      BY <3>5 DEF OwnStep
  <2>3. QED
    BY <2>1, <2>2
<1>6. CASE ObserveStop(t) \/ StreamEnds(t)
  BY <1>6, RoundEndsKind DEF ObserveStop, StreamEnds, OwnStep
<1>7. CASE AnnounceQuery(t) \/ SendRows(t)
  BY <1>4, <1>7 DEF AnnounceQuery, SendRows
<1>8. CASE SkipCall(t)
  BY <1>8, CallDoneKind DEF SkipCall, OwnStep
<1>9. QED
  BY <1>2, <1>3, <1>5, <1>6, <1>7, <1>8 DEF Stream

LEMMA ChargeKind ==
  ASSUME IInv, NEW t \in Turns, NEW l \in {"expire", "clear"}, pc[t] = "record",
         Go(t, l, [turn[t] EXCEPT !.charges = @ + 1]), UNCHANGED kept
  PROVE  Works(t)
<1> DEFINE g == [turn[t] EXCEPT !.charges = @ + 1]
<1>1. turn[t] \in TurnState
  BY DEF IInv, TypeOK
<1>2. /\ g.conv = turn[t].conv /\ g.question = turn[t].question /\ g.open = turn[t].open
      /\ g.asked = turn[t].asked /\ g.over = turn[t].over /\ g.cost = turn[t].cost
      /\ g.charges = turn[t].charges + 1 /\ g.failed = turn[t].failed
  BY <1>1 DEF TurnState
<1> HIDE DEF g
<1>3. Alone(t) /\ pc'[t] = l /\ turn'[t] = g
  BY GoAlone DEF g
<1>4. QED
  BY <1>2, <1>3 DEF Works, Keeps, Settles

LEMMA FinalizeKinds ==
  ASSUME ChatAssumption, IInv, NEW t \in Turns, Finalize(t)
  PROVE  OwnStep(t)
<1> USE DEF dbRest, redisRest, stops, counters, kept
<1>1. CASE SaveReply(t)
  <2>1. CASE convs[turn[t].conv] = "live"
    BY <1>1, <2>1 DEF SaveReply, OwnStep, Replied, Adds
  <2>2. CASE convs[turn[t].conv] # "live"
    BY <1>1, <2>2, ThrowKinds DEF SaveReply, OwnStep, Live, Answered
  <2>3. QED
    BY <2>1, <2>2
<1>2. CASE RecordCost(t)
  BY <1>2, ChargeKind DEF RecordCost, OwnStep
<1>3. CASE SetExpiry(t)
  BY <1>3, GoAlone DEF SetExpiry, OwnStep, Works, Keeps, Settles
<1>4. CASE ClearStop(t)
  BY <1>4 DEF ClearStop, OwnStep, Clears
<1>5. CASE SendLastEvent(t)
  BY <1>5 DEF SendLastEvent, OwnStep, Quits, Live, Answering
<1>6. QED
  BY <1>1, <1>2, <1>3, <1>4, <1>5 DEF Finalize

LEMMA FailureKinds ==
  ASSUME ChatAssumption, IInv, NEW t \in Turns, Failure(t)
  PROVE  OwnStep(t)
<1> USE DEF dbRest, redisRest, stops, kept
<1>1. CASE Fail(t)
  <2>1. PICK kind \in DOMAIN FailureAt : pc[t] \in FailureAt[kind] /\ kind \in Env
    BY <1>1 DEF Fail, Happens
  <2>2. kind \in {"redis", "db", "refused", "broken"}
    BY DEF FailureAt
  <2>3. /\ pc[t] # "token" /\ Live(t)
        /\ pc[t] \in Answered => "redis" \in Env
        /\ pc[t] = "save" => "db" \in Env
    BY <2>1, <2>2 DEF FailureAt, Answered, Live
  <2>4. QED
    BY <1>1, <2>3, ThrowKinds DEF Fail, OwnStep
<1>2. CASE SaveReplyUnheard(t)
  BY <1>2 DEF SaveReplyUnheard, Happens, OwnStep, Replied, Adds
<1>3. CASE RecordCostUnheard(t)
  <2>1. turn[t] \in TurnState
    BY DEF IInv, TypeOK
  <2>2. CASE Leave(t)
    BY <1>3, <2>2 DEF RecordCostUnheard, OwnStep, Quits, Live, Answering
  <2>3. CASE Go(t, "save", [turn[t] EXCEPT !.failed = TRUE, !.charges = @ + 1])
    <3> DEFINE g == [turn[t] EXCEPT !.failed = TRUE, !.charges = @ + 1]
    <3>1. /\ g.conv = turn[t].conv /\ g.question = turn[t].question
          /\ g.open = turn[t].open /\ g.asked = turn[t].asked
          /\ g.over = turn[t].over /\ g.cost = turn[t].cost
          /\ g.failed /\ g.charges = turn[t].charges + 1
      BY <2>1 DEF TurnState
    <3> HIDE DEF g
    <3>2. Alone(t) /\ pc'[t] = "save" /\ turn'[t] = g
      BY <2>3, GoAlone DEF g
    <3>3. CASE turn[t].failed
      BY <1>3, <3>3 DEF RecordCostUnheard, OwnStep, Quits, Live, Answering
    <3>4. CASE ~turn[t].failed
      BY <1>3, <3>1, <3>2, <3>4
         DEF RecordCostUnheard, Happens, OwnStep, Works, Keeps, Settles, Answered
    <3>5. QED
      BY <3>3, <3>4
  <2>4. QED
    BY <1>3, <2>2, <2>3 DEF RecordCostUnheard
<1>4. QED
  BY <1>1, <1>2, <1>3 DEF Failure

(* Every step is of one of the kinds. *)
LEMMA StepKinds ==
  ASSUME ChatAssumption, IInv, [Next]_vars
  PROVE  \/ \E t \in Turns, c \in Conversations : Request(t, c)
         \/ \E t \in Turns : OwnStep(t)
         \/ \E c, hit, closed : Raises(c, hit, closed)
         \/ \E t \in Turns : HangsUp(t)
         \/ \E c \in Conversations : DeleteConversation(c)
         \/ \E c \in Conversations : FlagExpires(c)
         \/ Crash
         \/ UNCHANGED <<pc, turn, kept>>
<1> USE DEF dbRest, redisRest, stops, kept
<1>1. ASSUME NEW t \in Turns, Serve(t) \/ Failure(t)
      PROVE  OwnStep(t)
  BY <1>1, PrepareKinds, StreamKinds, FinalizeKinds, FailureKinds DEF Serve
<1>2. ASSUME NEW t \in Turns, Disconnect(t)
      PROVE  \/ Raises(turn[t].conv, {t}, {t})
             \/ HangsUp(t)
  BY <1>2 DEF Disconnect, Happens, Raises, HangsUp, LiveIn
<1>3. ASSUME NEW c \in Conversations, StopChat(c)
      PROVE  Raises(c, LiveIn(c), {})
  BY <1>3 DEF StopChat, Raises
<1>4. UsageExpires \/ UNCHANGED vars => UNCHANGED <<pc, turn, kept>>
  BY DEF UsageExpires, counters, vars
<1>5. QED
  BY <1>1, <1>2, <1>3, <1>4 DEF Next

-----------------------------------------------------------------------------
(* What the conversations and the turns know of each other.  It holds
   whatever the environment does.                                           *)
Resolved == {"ask"} \cup Answering \cup Answered

GoneIsEmpty == \A c \in Conversations : convs[c] # "live" => log[c] = <<>>

Numbered ==
    /\ \A c \in Conversations : \A i \in DOMAIN log[c] : log[c][i].question <= questions
    /\ \A t \in Turns : Live(t) =>
          turn[t].conv \in Conversations /\ turn[t].question <= questions

Distinct ==
    \A t, u \in Turns :
        Live(t) /\ Live(u) /\ turn[t].question = turn[u].question => t = u

(* A message with the number of a turn in flight is that turn's. *)
OwnMessages ==
    \A t \in Turns : \A c \in Conversations : \A i \in DOMAIN log[c] :
        Live(t) /\ log[c][i].question = turn[t].question =>
            c = turn[t].conv /\ pc[t] \notin Preparing

Found == \A t \in Turns : pc[t] \in Resolved => convs[turn[t].conv] # "absent"

RepliesIn(messages, q) ==
    {i \in DOMAIN messages : messages[i].role = "assistant" /\ messages[i].question = q}

Filed ==
    \A t \in Turns : pc[t] \in Answered /\ convs[turn[t].conv] = "live" =>
        RepliesIn(log[turn[t].conv], turn[t].question) # {}

StoresAgree == GoneIsEmpty /\ Numbered /\ Distinct /\ OwnMessages /\ Found /\ Filed

(* A message is added to a conversation, and nothing else. *)
LEMMA Appended ==
  ASSUME IInv, NEW t \in Turns, NEW role, NEW c \in Conversations, Adds(c, role, t)
  PROVE  /\ DOMAIN log'[c] = DOMAIN log[c] \cup {Len(log[c]) + 1}
         /\ Len(log[c]) + 1 \notin DOMAIN log[c]
         /\ log'[c][Len(log[c]) + 1] = Message(role, t)
         /\ \A i \in DOMAIN log[c] : log'[c][i] = log[c][i] /\ i < Len(log[c]) + 1
         /\ \A d \in Conversations \ {c} : log'[d] = log[d]
<1>1. log[c] \in Seq(MessageRow) /\ log'[c] = Append(log[c], Message(role, t))
  BY DEF IInv, TypeOK, Adds
<1>2. \A d \in Conversations \ {c} : log'[d] = log[d]
  BY DEF IInv, TypeOK, Adds
<1>3. QED
  BY <1>1, <1>2

(* Only a reply to a question changes the replies to it. *)
LEMMA RepliesSame ==
  ASSUME IInv, NEW t \in Turns, NEW role, NEW c \in Conversations, Adds(c, role, t),
         NEW d \in Conversations, NEW q,
         d # c \/ role # "assistant" \/ q # turn[t].question
  PROVE  RepliesIn(log'[d], q) = RepliesIn(log[d], q)
<1>1. PICK n : /\ DOMAIN log'[c] = DOMAIN log[c] \cup {n}
               /\ n \notin DOMAIN log[c]
               /\ log'[c][n] = Message(role, t)
               /\ \A i \in DOMAIN log[c] : log'[c][i] = log[c][i]
               /\ \A e \in Conversations \ {c} : log'[e] = log[e]
  BY Appended
<1>2. /\ Message(role, t).role = role
      /\ Message(role, t).question = turn[t].question
  BY DEF Message
<1>3. CASE d # c
  BY <1>1, <1>3
<1>4. CASE d = c
  <2>1. ASSUME NEW i
        PROVE  i \in RepliesIn(log'[c], q) <=> i \in RepliesIn(log[c], q)
    <3>1. CASE i \in DOMAIN log[c]
      BY <1>1, <3>1 DEF RepliesIn
    <3>2. CASE i = n
      BY <1>1, <1>2, <1>4, <3>2 DEF RepliesIn
    <3>3. QED
      BY <1>1, <3>1, <3>2 DEF RepliesIn
  <2>2. RepliesIn(log'[c], q) = RepliesIn(log[c], q)
    BY <2>1
  <2>3. QED
    BY <1>4, <2>2
<1>5. QED
  BY <1>3, <1>4

(* A step that leaves the conversations alone, seen from a turn. *)
Quiet(u) ==
    Live(u)' =>
        /\ Live(u)
        /\ turn'[u].conv = turn[u].conv /\ turn'[u].question = turn[u].question
        /\ pc'[u] \in Preparing => pc[u] \in Preparing
        /\ pc'[u] \in Resolved => pc[u] \in Resolved
        /\ pc'[u] \in Answered => pc[u] \in Answered

(* Most steps are quiet to every turn. *)
LEMMA QuietKinds ==
  ASSUME ChatAssumption, IInv, NEW u \in Turns,
         \/ \E t \in Turns : Works(t) \/ Quits(t) \/ Clears(t)
         \/ \E c, hit, closed : Raises(c, hit, closed)
         \/ \E t \in Turns : HangsUp(t)
         \/ \E c \in Conversations : FlagExpires(c)
         \/ Crash
         \/ UNCHANGED <<pc, turn, kept>>
  PROVE  Quiet(u) /\ UNCHANGED <<convs, log, questions>>
<1> USE DEF kept
<1>1. ASSUME NEW t \in Turns, Works(t)
      PROVE  Quiet(u)
  BY <1>1 DEF Works, Alone, Keeps, Streams, Settles, Quiet, Live, Resolved,
              Answering, Answered
<1>2. ASSUME NEW t \in Turns, Quits(t) \/ Clears(t)
      PROVE  Quiet(u)
  <2>1. CASE u # t
    BY <1>2, <2>1, GoAlone DEF Quits, Clears, Leave, Alone, Quiet, Live
  <2>2. CASE u = t /\ Quits(t)
    BY <1>2, <2>2, GoAlone DEF Quits, Leave, Quiet, Live
  <2>3. CASE u = t /\ Clears(t)
    BY <1>2, <2>3, GoAlone DEF Clears, Quiet, Live, Resolved, Answered
  <2>4. QED
    BY <1>2, <2>1, <2>2, <2>3
<1>3. ASSUME NEW c, NEW hit, NEW closed, Raises(c, hit, closed)
      PROVE  Quiet(u)
  <2>1. turn[u] \in TurnState
    BY DEF IInv, TypeOK
  <2>2. turn'[u].conv = turn[u].conv /\ turn'[u].question = turn[u].question
    BY <1>3, <2>1 DEF Raises, RaiseFlag, TurnState
  <2>3. QED
    BY <1>3, <2>2 DEF Raises, Quiet, Live
<1>4. ASSUME NEW t \in Turns, HangsUp(t)
      PROVE  Quiet(u)
  <2>1. turn[u] \in TurnState
    BY DEF IInv, TypeOK
  <2>2. turn'[u].conv = turn[u].conv /\ turn'[u].question = turn[u].question
    BY <1>4, <2>1 DEF HangsUp, TurnState, IInv, TypeOK
  <2>3. QED
    BY <1>4, <2>2 DEF HangsUp, Quiet, Live
<1>5. ASSUME Crash
      PROVE  Quiet(u)
  BY <1>5 DEF Crash, Quiet, Live
<1>6. ASSUME UNCHANGED <<pc, turn>>
      PROVE  Quiet(u)
  BY <1>6 DEF Quiet, Live
<1>7. UNCHANGED <<convs, log, questions>>
  BY DEF Works, Quits, Clears, Raises, HangsUp, FlagExpires, Crash, dbRest, counters
<1>8. QED
  BY <1>1, <1>2, <1>3, <1>4, <1>5, <1>6, <1>7 DEF FlagExpires, counters

(* The steps, kind by kind, keep the agreement. *)
LEMMA QuietAgrees ==
  ASSUME StoresAgree, UNCHANGED <<convs, log, questions>>, \A u \in Turns : Quiet(u)
  PROVE  StoresAgree'
<1> USE DEF StoresAgree
<1>1. GoneIsEmpty'
  BY DEF GoneIsEmpty
<1>2. Numbered'
  BY DEF Numbered, Quiet
<1>3. Distinct'
  BY DEF Distinct, Quiet
<1>4. OwnMessages'
  BY DEF OwnMessages, Quiet
<1>5. Found'
  BY DEF Found, Quiet, Live, Resolved, Answering, Answered
<1>6. Filed'
  BY DEF Filed, Quiet, Live, Answered
<1>7. QED
  BY <1>1, <1>2, <1>3, <1>4, <1>5, <1>6

(* A request takes a number nobody has used. *)
LEMMA RequestAgrees ==
  ASSUME IInv, StoresAgree, NEW t \in Turns, NEW c \in Conversations, Request(t, c)
  PROVE  StoresAgree'
<1> USE DEF StoresAgree, dbRest
<1>1. /\ Alone(t) /\ pc'[t] = "budget"
      /\ turn'[t].conv = c /\ turn'[t].question = questions + 1
      /\ questions' = questions + 1 /\ UNCHANGED <<convs, log>>
  BY GoAlone DEF Request, NewTurn
<1>2. questions \in Nat /\ \A u \in Turns : turn[u].question \in Nat
  BY DEF IInv, TypeOK, TurnState
<1>3. \A d \in Conversations : \A i \in DOMAIN log[d] : log[d][i].question \in Nat
  <2>1. \A d \in Conversations : log[d] \in Seq(MessageRow)
    BY DEF IInv, TypeOK
  <2>2. \A d \in Conversations : \A i \in DOMAIN log[d] : log[d][i] \in MessageRow
    BY <2>1
  <2>3. QED
    BY <2>2 DEF MessageRow
<1>4. GoneIsEmpty'
  BY <1>1 DEF GoneIsEmpty
<1>5. Numbered'
  BY <1>1, <1>2, <1>3 DEF Numbered, Alone, Live
<1>6. Distinct'
  BY <1>1, <1>2 DEF Distinct, Numbered, Alone, Live
<1>7. OwnMessages'
  BY <1>1, <1>2, <1>3 DEF OwnMessages, Numbered, Alone, Live
<1>8. Found'
  BY <1>1 DEF Found, Alone, Resolved, Answering, Answered
<1>9. Filed'
  BY <1>1 DEF Filed, Alone, Answered
<1>10. QED
  BY <1>4, <1>5, <1>6, <1>7, <1>8, <1>9

(* A conversation is created or found. *)
LEMMA ResolvesAgrees ==
  ASSUME IInv, StoresAgree, NEW t \in Turns, Resolves(t)
  PROVE  StoresAgree'
<1> USE DEF StoresAgree
<1>1. /\ Alone(t) /\ pc[t] = "resolve" /\ pc'[t] = "ask" /\ turn'[t] = turn[t]
      /\ UNCHANGED <<log, questions>>
  BY GoAlone DEF Resolves
<1>2. turn[t].conv \in Conversations
  BY <1>1 DEF Numbered, Live
<1>3. /\ convs'[turn[t].conv] = "live"
      /\ \A d \in Conversations \ {turn[t].conv} : convs'[d] = convs[d]
  <2>1. convs \in [Conversations -> {"absent", "live", "deleted"}]
    BY DEF IInv, TypeOK
  <2>2. CASE convs[turn[t].conv] = "absent"
    BY <1>2, <2>1, <2>2 DEF Resolves
  <2>3. CASE convs[turn[t].conv] # "absent"
    BY <1>2, <2>1, <2>3 DEF Resolves
  <2>4. QED
    BY <2>2, <2>3
<1>4. \A u \in Turns : turn'[u] = turn[u] /\ (Live(u)' <=> Live(u))
  BY <1>1 DEF Alone, Live
<1>5. GoneIsEmpty'
  BY <1>1, <1>3 DEF GoneIsEmpty
<1>6. Numbered'
  BY <1>1, <1>4 DEF Numbered
<1>7. Distinct'
  BY <1>4 DEF Distinct
<1>8. OwnMessages'
  BY <1>1, <1>4 DEF OwnMessages, Alone, Live
<1>9. Found'
  BY <1>1, <1>3, <1>4 DEF Found, Numbered, Alone, Live, Resolved, Answering, Answered
<1>10. Filed'
  <2>1. SUFFICES ASSUME NEW u \in Turns, pc'[u] \in Answered, convs'[turn[u].conv] = "live"
                 PROVE  RepliesIn(log[turn[u].conv], turn[u].question) # {}
    BY <1>1, <1>4 DEF Filed
  <2>2. u # t /\ pc[u] \in Answered /\ turn[u].conv \in Conversations
    BY <1>1, <2>1 DEF Alone, Numbered, Live, Answered
  <2>3. convs[turn[u].conv] = "live"
    BY <1>3, <2>1, <2>2 DEF Found, Resolved, IInv, TypeOK, Resolves
  <2>4. QED
    BY <2>2, <2>3 DEF Filed
<1>11. QED
  BY <1>5, <1>6, <1>7, <1>8, <1>9, <1>10

(* A message of turn t's own is added; t goes on, or leaves. *)
LEMMA AddsAgrees ==
  ASSUME IInv, StoresAgree, NEW t \in Turns, NEW role \in {"user", "assistant"},
         Adds(turn[t].conv, role, t), UNCHANGED <<convs, questions>>,
         pc[t] \in {"ask", "save"}, convs[turn[t].conv] = "live",
         Alone(t), Live(t)' => turn'[t].conv = turn[t].conv /\ turn'[t].question = turn[t].question,
         pc'[t] \notin Preparing, pc'[t] \in Answered => role = "assistant"
  PROVE  StoresAgree'
<1> USE DEF StoresAgree
<1> DEFINE c == turn[t].conv
<1>1. c \in Conversations /\ turn[t].question <= questions
  BY DEF Numbered, Live
<1>2. PICK n : /\ DOMAIN log'[c] = DOMAIN log[c] \cup {n}
               /\ log'[c][n] = Message(role, t)
               /\ \A i \in DOMAIN log[c] : log'[c][i] = log[c][i]
               /\ \A d \in Conversations \ {c} : log'[d] = log[d]
  BY <1>1, Appended
<1>3. Message(role, t).role = role /\ Message(role, t).question = turn[t].question
  BY DEF Message
<1>4. \A d \in Conversations : \A i \in DOMAIN log'[d] :
         \/ i \in DOMAIN log[d] /\ log'[d][i] = log[d][i]
         \/ d = c /\ log'[d][i].question = turn[t].question
  BY <1>2, <1>3
<1>5. \A u \in Turns : Live(u)' =>
         /\ Live(u) /\ turn'[u].conv = turn[u].conv /\ turn'[u].question = turn[u].question
         /\ u # t => pc'[u] = pc[u]
  BY DEF Alone, Live
<1> HIDE DEF c
<1>6. GoneIsEmpty'
  BY <1>2 DEF GoneIsEmpty, c
<1>7. Numbered'
  BY <1>1, <1>4, <1>5 DEF Numbered
<1>8. Distinct'
  BY <1>5 DEF Distinct
<1>9. OwnMessages'
  <2>1. SUFFICES ASSUME NEW u \in Turns, NEW d \in Conversations, NEW i \in DOMAIN log'[d],
                        Live(u)', log'[d][i].question = turn[u].question
                 PROVE  d = turn[u].conv /\ pc'[u] \notin Preparing
    BY <1>5 DEF OwnMessages
  <2>2. CASE i \in DOMAIN log[d] /\ log'[d][i] = log[d][i]
    BY <1>5, <2>1, <2>2 DEF OwnMessages
  <2>3. CASE d = c /\ log'[d][i].question = turn[t].question
    <3>1. u = t
      BY <1>5, <2>1, <2>3 DEF Distinct, Live
    <3>2. QED
      BY <2>3, <3>1 DEF c
  <2>4. QED
    BY <1>4, <2>1, <2>2, <2>3
<1>10. Found'
  BY <1>5 DEF Found, Live, Resolved, Answering, Answered, Alone
<1>11. Filed'
  <2>1. SUFFICES ASSUME NEW u \in Turns, pc'[u] \in Answered, convs[turn[u].conv] = "live"
                 PROVE  RepliesIn(log'[turn[u].conv], turn[u].question) # {}
    BY <1>5 DEF Filed, Live, Answered
  <2>2. turn[u].conv \in Conversations
    BY <1>5, <2>1 DEF Numbered, Live, Answered
  <2>3. CASE u = t
    <3>1. role = "assistant"
      BY <2>1, <2>3
    <3>2. n \in RepliesIn(log'[c], turn[t].question)
      BY <1>2, <1>3, <3>1 DEF RepliesIn
    <3>3. QED
      BY <2>3, <3>2 DEF c
  <2>4. CASE u # t
    <3>1. RepliesIn(log[turn[u].conv], turn[u].question) # {}
      BY <1>5, <2>1, <2>4 DEF Filed, Live, Answered
    <3>2. RepliesIn(log[turn[u].conv], turn[u].question)
             \subseteq RepliesIn(log'[turn[u].conv], turn[u].question)
      BY <1>2, <2>2 DEF RepliesIn
    <3>3. QED
      BY <3>1, <3>2
  <2>5. QED
    BY <2>3, <2>4
<1>12. QED
  BY <1>6, <1>7, <1>8, <1>9, <1>10, <1>11

(* A conversation goes with its messages. *)
LEMMA DeletionAgrees ==
  ASSUME IInv, StoresAgree, NEW c \in Conversations, DeleteConversation(c)
  PROVE  StoresAgree'
<1> USE DEF StoresAgree
<1>1. /\ UNCHANGED <<pc, turn, questions>>
      /\ convs'[c] = "deleted" /\ log'[c] = <<>>
      /\ \A d \in Conversations \ {c} : convs'[d] = convs[d] /\ log'[d] = log[d]
  BY DEF DeleteConversation, IInv, TypeOK
<1>2. \A d \in Conversations : \A i \in DOMAIN log'[d] :
         i \in DOMAIN log[d] /\ log'[d][i] = log[d][i]
  BY <1>1
<1>3. GoneIsEmpty'
  BY <1>1 DEF GoneIsEmpty
<1>4. Numbered'
  BY <1>1, <1>2 DEF Numbered, Live
<1>5. Distinct'
  BY <1>1 DEF Distinct, Live
<1>6. OwnMessages'
  BY <1>1, <1>2 DEF OwnMessages, Live
<1>7. Found'
  BY <1>1 DEF Found, Numbered, Live, Resolved, Answering, Answered
<1>8. Filed'
  BY <1>1 DEF Filed, Numbered, Live, Answered
<1>9. QED
  BY <1>3, <1>4, <1>5, <1>6, <1>7, <1>8
(* The catch block works for the same request. *)
LEMMA ThrowKeeps ==
  ASSUME IInv, NEW t \in Turns, Throw(t)
  PROVE  /\ Alone(t) /\ pc'[t] \in {"idle", "save"}
         /\ Live(t)' \/ turn'[t] = NoTurn
         /\ Live(t)' => /\ pc[t] \notin Preparing
                        /\ turn'[t].conv = turn[t].conv
                        /\ turn'[t].question = turn[t].question
                        /\ turn'[t].over = turn[t].over
                        /\ turn'[t].asked = turn[t].asked
                        /\ turn'[t].cost = turn[t].cost
                        /\ turn'[t].charges = turn[t].charges
                        /\ ~turn[t].failed /\ turn'[t].failed
<1> DEFINE g == [turn[t] EXCEPT !.failed = TRUE, !.gotUsage = FALSE, !.calls = 0]
<1>1. turn[t] \in TurnState
  BY DEF IInv, TypeOK
<1>2. /\ g.conv = turn[t].conv /\ g.question = turn[t].question
      /\ g.over = turn[t].over /\ g.asked = turn[t].asked
      /\ g.cost = turn[t].cost /\ g.charges = turn[t].charges /\ g.failed
  BY <1>1 DEF TurnState
<1>3. CASE pc[t] \in Preparing \/ turn[t].failed
  BY <1>3, GoAlone DEF Throw, Leave, Live
<1>4. CASE ~(pc[t] \in Preparing \/ turn[t].failed)
  <2>1. Go(t, "save", g)
    BY <1>4 DEF Throw
  <2> HIDE DEF g
  <2>2. QED
    BY <1>2, <1>4, <2>1, GoAlone DEF Live
<1>5. QED
  BY <1>3, <1>4

LEMMA AgreementKept ==
  ASSUME ChatAssumption, IInv, StoresAgree, [Next]_vars
  PROVE  StoresAgree'
<1>1. ASSUME \/ \E t \in Turns : Works(t) \/ Quits(t) \/ Clears(t)
             \/ \E c, hit, closed : Raises(c, hit, closed)
             \/ \E t \in Turns : HangsUp(t)
             \/ \E c \in Conversations : FlagExpires(c)
             \/ Crash
             \/ UNCHANGED <<pc, turn, kept>>
      PROVE  StoresAgree'
  <2>1. ASSUME NEW u \in Turns PROVE Quiet(u) /\ UNCHANGED <<convs, log, questions>>
    BY <1>1, QuietKinds
  <2>2. UNCHANGED <<convs, log, questions>>
    BY <1>1 DEF Works, Quits, Clears, Raises, HangsUp, FlagExpires, Crash, dbRest,
                counters, kept
  <2>3. QED
    BY <2>1, <2>2, QuietAgrees
<1>2. ASSUME NEW t \in Turns, NEW c \in Conversations, Request(t, c)
      PROVE  StoresAgree'
  BY <1>2, RequestAgrees
<1>3. ASSUME NEW t \in Turns, Resolves(t)
      PROVE  StoresAgree'
  BY <1>3, ResolvesAgrees
<1>4. ASSUME NEW t \in Turns, Asks(t)
      PROVE  StoresAgree'
  <2>1. Alone(t) /\ pc'[t] = "open" /\ turn'[t] = turn[t]
    BY <1>4, GoAlone DEF Asks
  <2>2. QED
    BY <1>4, <2>1, AddsAgrees DEF Asks, Answered
<1>5. ASSUME NEW t \in Turns, Replied(t)
      PROVE  StoresAgree'
  <2>1. CASE Go(t, IF turn[t].cost > 0 THEN "record" ELSE "clear", turn[t])
    <3>1. Alone(t) /\ pc'[t] \in Answered /\ turn'[t] = turn[t]
      BY <2>1, GoAlone DEF Answered
    <3>2. QED
      BY <1>5, <3>1, AddsAgrees DEF Replied, Answered
  <2>2. CASE Throw(t)
    BY <1>5, <2>2, ThrowKeeps, AddsAgrees DEF Replied, Answered
  <2>3. QED
    BY <1>5, <2>1, <2>2 DEF Replied
<1>6. ASSUME NEW c \in Conversations, DeleteConversation(c)
      PROVE  StoresAgree'
  BY <1>6, DeletionAgrees
<1>7. QED
  BY <1>1, <1>2, <1>3, <1>4, <1>5, <1>6, StepKinds DEF OwnStep

(* The inductive invariant of the stores. *)
LEMMA Agreement == ASSUME ChatAssumption PROVE Spec => [](IInv /\ StoresAgree)
<1>1. Init => StoresAgree
  <2>1. ASSUME Init PROVE \A c \in Conversations : log[c] = <<>>
    BY <2>1 DEF Init
  <2>2. ASSUME Init PROVE \A t \in Turns : pc[t] = "idle"
    BY <2>2 DEF Init
  <2>3. QED
    BY <2>1, <2>2 DEF StoresAgree, GoneIsEmpty, Numbered, Distinct, OwnMessages, Found,
       Filed, Live, Resolved, Answering, Answered
<1>2. IInv /\ StoresAgree /\ [Next]_vars => StoresAgree'
  BY AgreementKept
<1>3. QED
  BY <1>1, <1>2, Invariance, PTL DEF Spec
(* What the steps that are no turn's own do to a turn. *)
LEMMA OutsideFields ==
  ASSUME IInv, NEW u \in Turns,
         \/ \E c, hit, closed : Raises(c, hit, closed)
         \/ \E t \in Turns : HangsUp(t)
         \/ UNCHANGED <<pc, turn, kept>>
  PROVE  /\ UNCHANGED <<pc, convs, log, questions>>
         /\ turn'[u].conv = turn[u].conv /\ turn'[u].question = turn[u].question
         /\ turn'[u].cost = turn[u].cost /\ turn'[u].charges = turn[u].charges
         /\ turn'[u].failed = turn[u].failed
         /\ turn'[u].open = turn[u].open \/ "disconnect" \in Env
<1>1. turn[u] \in TurnState
  BY DEF IInv, TypeOK
<1>2. ASSUME NEW c, NEW hit, NEW closed, Raises(c, hit, closed)
      PROVE  /\ turn'[u].conv = turn[u].conv /\ turn'[u].question = turn[u].question
             /\ turn'[u].cost = turn[u].cost /\ turn'[u].charges = turn[u].charges
             /\ turn'[u].failed = turn[u].failed
             /\ turn'[u].open = turn[u].open \/ "disconnect" \in Env
  BY <1>1, <1>2 DEF Raises, RaiseFlag, TurnState
<1>3. ASSUME NEW t \in Turns, HangsUp(t)
      PROVE  /\ turn'[u].conv = turn[u].conv /\ turn'[u].question = turn[u].question
             /\ turn'[u].cost = turn[u].cost /\ turn'[u].charges = turn[u].charges
             /\ turn'[u].failed = turn[u].failed
             /\ turn'[u].open = turn[u].open \/ "disconnect" \in Env
  BY <1>1, <1>3 DEF HangsUp, TurnState, IInv, TypeOK
<1>4. UNCHANGED <<pc, convs, log, questions>>
  BY DEF Raises, HangsUp, kept
<1>5. QED
  BY <1>2, <1>3, <1>4

-----------------------------------------------------------------------------
(* Questions are answered. *)
AllOpen == \A t \in Turns : Live(t) => turn[t].open

Tended(c, q) ==
    \/ \E t \in Turns : Live(t) /\ turn[t].question = q
    \/ RepliesIn(log[c], q) # {}

Tends(c, q) ==
    \/ \E t \in Turns : pc'[t] # "idle" /\ turn'[t].question = q
    \/ RepliesIn(log'[c], q) # {}

QuestionsTended ==
    \A c \in Conversations : \A i \in DOMAIN log[c] : Tended(c, log[c][i].question)

LEMMA OpenKept ==
  ASSUME ChatAssumption, IInv, AllOpen, [Next]_vars,
         "disconnect" \notin Env, "crash" \notin Env
  PROVE  AllOpen'
<1>1. ASSUME NEW t \in Turns, Alone(t), Live(t)' => turn'[t].open
      PROVE  AllOpen'
  BY <1>1 DEF AllOpen, Alone, Live
<1>2. ASSUME NEW t \in Turns, NEW c \in Conversations, Request(t, c)
      PROVE  AllOpen'
  BY <1>1, <1>2, GoAlone DEF Request, NewTurn
<1>3. ASSUME NEW t \in Turns, OwnStep(t)
      PROVE  AllOpen'
  <2>1. Live(t)
    BY <1>3 DEF OwnStep, Works, Quits, Resolves, Asks, Replied, Clears, Streams, Settles,
                Live, Answering, Answered
  <2>2. CASE Works(t)
    BY <1>1, <2>1, <2>2 DEF Works, Keeps, AllOpen
  <2>3. CASE Leave(t)
    BY <1>1, <2>3, GoAlone DEF Leave, Live
  <2>4. ASSUME NEW l, Go(t, l, turn[t])
        PROVE  AllOpen'
    BY <1>1, <2>1, <2>4, GoAlone DEF AllOpen
  <2>5. CASE Throw(t)
    <3> DEFINE g == [turn[t] EXCEPT !.failed = TRUE, !.gotUsage = FALSE, !.calls = 0]
    <3>1. turn[t] \in TurnState
      BY DEF IInv, TypeOK
    <3>2. g.open = turn[t].open
      BY <3>1 DEF TurnState
    <3>3. CASE Go(t, "save", g)
      <4> HIDE DEF g
      <4>1. QED
        BY <1>1, <2>1, <3>2, <3>3, GoAlone DEF AllOpen
    <3>4. QED
      BY <2>3, <2>5, <3>3 DEF Throw
  <2>6. QED
    BY <1>3, <2>2, <2>3, <2>4, <2>5 DEF OwnStep, Quits, Resolves, Asks, Replied, Clears
<1>4. ASSUME \/ \E c, hit, closed : Raises(c, hit, closed)
             \/ \E t \in Turns : HangsUp(t)
             \/ UNCHANGED <<pc, turn, kept>>
      PROVE  AllOpen'
  BY <1>4, OutsideFields DEF AllOpen, Live
<1>5. ASSUME UNCHANGED <<pc, turn>>
      PROVE  AllOpen'
  BY <1>5 DEF AllOpen, Live
<1>6. ~Crash
  BY DEF Crash, Happens
<1>7. QED
  BY <1>2, <1>3, <1>4, <1>5, <1>6, StepKinds DEF DeleteConversation, FlagExpires

(* A turn that leaves has no question open. *)
LEMMA QuitsTended ==
  ASSUME ChatAssumption, IInv, StoresAgree, AllOpen, "db" \notin Env,
         NEW t \in Turns, Quits(t),
         NEW c \in Conversations, NEW i \in DOMAIN log[c],
         log[c][i].question = turn[t].question
  PROVE  RepliesIn(log[c], turn[t].question) # {}
<1> USE DEF StoresAgree
<1>1. Live(t) /\ c = turn[t].conv /\ pc[t] \notin Preparing
  BY DEF Quits, OwnMessages
<1>2. convs[c] = "live"
  BY DEF GoneIsEmpty
<1>3. pc[t] \in Answered
  BY <1>1, <1>2 DEF Quits, AllOpen, Live, IInv, TypeOK, Labels, Answering, Answered
<1>4. QED
  BY <1>1, <1>2, <1>3 DEF Filed
LEMMA TendedNext ==
  ASSUME \A c \in Conversations : \A i \in DOMAIN log'[c] : Tends(c, log'[c][i].question)
  PROVE  QuestionsTended'
  BY DEF QuestionsTended, Tended, Tends, Live

(* Messages that were there stay tended when every turn stays. *)
LEMMA StayTended ==
  ASSUME \A u \in Turns : Live(u) => pc'[u] # "idle" /\ turn'[u].question = turn[u].question,
         NEW c, NEW q, Tended(c, q),
         RepliesIn(log[c], q) \subseteq RepliesIn(log'[c], q)
  PROVE  Tends(c, q)
<1>1. CASE RepliesIn(log[c], q) # {}
  BY <1>1 DEF Tends
<1>2. CASE \E t \in Turns : Live(t) /\ turn[t].question = q
  BY <1>2 DEF Tends
<1>3. QED
  BY <1>1, <1>2 DEF Tended

LEMMA AddsTended ==
  ASSUME IInv, StoresAgree, QuestionsTended, NEW t \in Turns, NEW role,
         Live(t), Adds(turn[t].conv, role, t),
         Alone(t), Live(t)', turn'[t].question = turn[t].question
  PROVE  QuestionsTended'
<1> DEFINE d == turn[t].conv
<1>1. d \in Conversations
  BY DEF StoresAgree, Numbered
<1>2. PICK n : /\ DOMAIN log'[d] = DOMAIN log[d] \cup {n}
               /\ log'[d][n] = Message(role, t)
               /\ \A i \in DOMAIN log[d] : log'[d][i] = log[d][i]
               /\ \A e \in Conversations \ {d} : log'[e] = log[e]
  BY <1>1, Appended
<1>3. \A u \in Turns : Live(u) => pc'[u] # "idle" /\ turn'[u].question = turn[u].question
  BY DEF Alone, Live
<1>4. SUFFICES ASSUME NEW c \in Conversations, NEW i \in DOMAIN log'[c]
               PROVE  Tends(c, log'[c][i].question)
  BY TendedNext
<1>5. CASE i \in DOMAIN log[c] /\ log'[c][i] = log[c][i]
  <2>1. RepliesIn(log[c], log[c][i].question) \subseteq RepliesIn(log'[c], log[c][i].question)
    BY <1>2 DEF RepliesIn
  <2>2. Tended(c, log[c][i].question)
    BY <1>5 DEF QuestionsTended
  <2>3. QED
    BY <1>3, <1>5, <2>1, <2>2, StayTended
<1>6. CASE log'[c][i] = Message(role, t)
  BY <1>6 DEF Tends, Message, Live
<1>7. QED
  BY <1>2, <1>5, <1>6

LEMMA TendedKept ==
  ASSUME ChatAssumption, IInv, StoresAgree, AllOpen, QuestionsTended, [Next]_vars,
         "disconnect" \notin Env, "crash" \notin Env, "db" \notin Env
  PROVE  QuestionsTended'
<1>1. ASSUME UNCHANGED log,
             \A u \in Turns : Live(u) => pc'[u] # "idle" /\ turn'[u].question = turn[u].question
      PROVE  QuestionsTended'
  BY <1>1, StayTended, TendedNext DEF QuestionsTended
<1>2. ASSUME NEW t \in Turns, NEW c \in Conversations, Request(t, c)
      PROVE  QuestionsTended'
  <2>1. Alone(t) /\ ~Live(t) /\ UNCHANGED log
    BY <1>2, GoAlone DEF Request, Live, dbRest
  <2>2. QED
    BY <1>1, <2>1 DEF Alone, Live
<1>3. ASSUME NEW t \in Turns, Works(t) \/ Resolves(t) \/ Clears(t)
      PROVE  QuestionsTended'
  <2>1. Alone(t) /\ Live(t)' /\ turn'[t].question = turn[t].question
    BY <1>3, GoAlone DEF Works, Resolves, Clears, Keeps, Streams, Settles, Live, Answering,
                         Answered
  <2>2. QED
    BY <1>1, <1>3, <2>1 DEF Works, Resolves, Clears, kept, Alone, Live
<1>4. ASSUME NEW t \in Turns, Quits(t)
      PROVE  QuestionsTended'
  <2>1. Alone(t) /\ UNCHANGED log
    BY <1>4, GoAlone DEF Quits, Leave, kept
  <2>2. SUFFICES ASSUME NEW c \in Conversations, NEW i \in DOMAIN log[c]
                 PROVE  Tends(c, log[c][i].question)
    BY <2>1, TendedNext
  <2>3. CASE log[c][i].question = turn[t].question
    BY <1>4, <2>1, <2>3, QuitsTended DEF Tends
  <2>4. CASE log[c][i].question # turn[t].question
    BY <2>1, <2>4 DEF QuestionsTended, Tended, Tends, Alone, Live
  <2>5. QED
    BY <2>3, <2>4
<1>5. ASSUME NEW t \in Turns, Asks(t) \/ Replied(t)
      PROVE  QuestionsTended'
  <2>1. PICK l \in {"open", "record", "clear"} : Go(t, l, turn[t])
    BY <1>5 DEF Asks, Replied
  <2>2. Alone(t) /\ Live(t)' /\ turn'[t] = turn[t]
    BY <2>1, GoAlone DEF Live
  <2>3. QED
    BY <1>5, <2>2, AddsTended DEF Asks, Replied, Live
<1>6. ASSUME NEW d \in Conversations, DeleteConversation(d)
      PROVE  QuestionsTended'
  <2>1. /\ UNCHANGED <<pc, turn>> /\ log'[d] = <<>>
        /\ \A c \in Conversations \ {d} : log'[c] = log[c]
    BY <1>6 DEF DeleteConversation, IInv, TypeOK
  <2>2. SUFFICES ASSUME NEW c \in Conversations, NEW i \in DOMAIN log'[c]
                 PROVE  Tends(c, log'[c][i].question)
    BY TendedNext
  <2>3. log'[c] = log[c] /\ i \in DOMAIN log[c]
    BY <2>1
  <2>4. Tended(c, log[c][i].question)
    BY <2>3 DEF QuestionsTended
  <2>5. QED
    BY <2>1, <2>3, <2>4, StayTended DEF Live
<1>7. ASSUME \/ \E c, hit, closed : Raises(c, hit, closed)
             \/ \E t \in Turns : HangsUp(t)
             \/ UNCHANGED <<pc, turn, kept>>
      PROVE  QuestionsTended'
  <2>1. UNCHANGED <<pc, log>>
    BY <1>7 DEF Raises, HangsUp, kept
  <2>2. ASSUME NEW u \in Turns PROVE turn'[u].question = turn[u].question
    BY <1>7, OutsideFields
  <2>3. QED
    BY <1>1, <2>1, <2>2 DEF Live
<1>8. ASSUME NEW c \in Conversations, FlagExpires(c)
      PROVE  QuestionsTended'
  BY <1>1, <1>8 DEF FlagExpires, dbRest, Live
<1>9. ~Crash
  BY DEF Crash, Happens
<1>10. QED
  BY <1>2, <1>3, <1>4, <1>5, <1>6, <1>7, <1>8, <1>9, StepKinds DEF OwnStep

(* While Postgres answers, the process stays up and clients stay, every
   question in a conversation is worked on or has its reply, whatever
   OpenAI, Redis, a stop or a deletion does to streamAssistantReply.        *)
THEOREM NoQuestionDangles ==
  ASSUME ChatAssumption, "disconnect" \notin Env, "crash" \notin Env, "db" \notin Env
  PROVE  Spec => []NoDanglingQuestion
<1>1. Init => AllOpen /\ QuestionsTended
  BY DEF Init, AllOpen, QuestionsTended, Live
<1>2. /\ IInv /\ StoresAgree /\ AllOpen /\ QuestionsTended /\ [Next]_vars
      => AllOpen' /\ QuestionsTended'
  BY OpenKept, TendedKept
<1>3. QuestionsTended => NoDanglingQuestion
  BY DEF QuestionsTended, Tended, NoDanglingQuestion, Replies, RepliesIn
<1>4. QED
  BY <1>1, <1>2, <1>3, Agreement, PTL DEF Spec
-----------------------------------------------------------------------------
(* Questions are answered once, and the books balance. *)
Repeatable == Env \cap {"redis", "db"} # {}

(* What follows an answer is the catch block's repetition of it. *)
Follows(first, second) ==
    /\ Repeatable
    /\ second.role = "assistant"
    /\ ~first.error /\ second.error
    /\ first.cost = second.cost

Noted ==
    \A c \in Conversations : \A i, j \in DOMAIN log[c] :
        i < j /\ log[c][i].question = log[c][j].question /\ log[c][i].role = "assistant"
        => Follows(log[c][i], log[c][j])

(* What a turn at label l, with locals g, finds of its replies. *)
Finds(l, g, messages) ==
    /\ l \in Answering /\ ~g.failed => RepliesIn(messages, g.question) = {}
    /\ l = "save" /\ g.failed /\ ~Repeatable => RepliesIn(messages, g.question) = {}
    /\ \A i \in RepliesIn(messages, g.question) :
          /\ l \in {"save"} \cup Answered => messages[i].cost = g.cost
          /\ l = "save" \/ (l \in Answered /\ ~g.failed) => ~messages[i].error

Accounted == \A t \in Turns : Finds(pc[t], turn[t], log[turn[t].conv])

(* An INCRBY issued, or about to be, has a reply of its own. *)
Paid ==
    \A t \in Turns : Live(t) /\ convs[turn[t].conv] = "live" =>
        turn[t].charges + (IF pc[t] = "record" THEN 1 ELSE 0)
            <= Cardinality(RepliesIn(log[turn[t].conv], turn[t].question))

ChargedOnce ==
    \A t \in Turns : pc[t] \in {"expire", "clear", "done"} =>
        turn[t].charges = (IF turn[t].cost > 0 THEN 1 ELSE 0)

AnsweredOnce == Noted /\ Accounted

(* Steps that add no message. *)
LEMMA SilentAnswers ==
  ASSUME AnsweredOnce, UNCHANGED log, NEW t \in Turns, Alone(t),
         Finds(pc'[t], turn'[t], log[turn'[t].conv])
  PROVE  AnsweredOnce'
<1>1. Noted'
  BY DEF AnsweredOnce, Noted, Follows, Repeatable
<1>2. ASSUME NEW u \in Turns PROVE Finds(pc'[u], turn'[u], log'[turn'[u].conv])
  BY DEF AnsweredOnce, Accounted, Alone
<1>3. QED
  BY <1>1, <1>2 DEF AnsweredOnce, Accounted, Finds, RepliesIn, Repeatable

(* The replies to other questions stay what they are. *)
LEMMA FindsSame ==
  ASSUME IInv, Numbered, Accounted, NEW t \in Turns, NEW role, NEW c \in Conversations,
         Adds(c, role, t), NEW u \in Turns, Live(u),
         role # "assistant" \/ turn[u].question # turn[t].question
  PROVE  Finds(pc[u], turn[u], log'[turn[u].conv])
<1> DEFINE d == turn[u].conv
           q == turn[u].question
<1>1. d \in Conversations
  BY DEF Numbered
<1>2. RepliesIn(log'[d], q) = RepliesIn(log[d], q)
  BY <1>1, RepliesSame
<1>3. \A i \in RepliesIn(log[d], q) : log'[d][i] = log[d][i]
  BY <1>1, Appended DEF RepliesIn
<1>4. Finds(pc[u], turn[u], log[d])
  BY DEF Accounted
<1>5. QED
  BY <1>2, <1>3, <1>4 DEF Finds

LEMMA AnsweredOnceKept ==
  ASSUME ChatAssumption, IInv, StoresAgree, AnsweredOnce, [Next]_vars
  PROVE  AnsweredOnce'
<1> USE DEF StoresAgree
<1>1. \A u \in Turns : Finds(pc[u], turn[u], log[turn[u].conv])
  BY DEF AnsweredOnce, Accounted
<1>2. ASSUME NEW t \in Turns, NEW c \in Conversations, Request(t, c)
      PROVE  AnsweredOnce'
  <2>1. Alone(t) /\ pc'[t] = "budget" /\ UNCHANGED log
    BY <1>2, GoAlone DEF Request, dbRest
  <2>2. QED
    BY <2>1, SilentAnswers DEF Finds, Answering, Answered
<1>3. ASSUME NEW t \in Turns, Works(t)
      PROVE  AnsweredOnce'
  <2>1. /\ Alone(t) /\ UNCHANGED log
        /\ turn'[t].conv = turn[t].conv /\ turn'[t].question = turn[t].question
    BY <1>3 DEF Works, Keeps, kept
  <2>2. CASE pc'[t] = "resolve"
    BY <2>1, <2>2, SilentAnswers DEF Finds, Answering, Answered
  <2>3. CASE Streams(t)
    <3>1. RepliesIn(log[turn[t].conv], turn[t].question) = {}
      BY <1>1, <2>3 DEF Streams, Finds
    <3>2. Finds(pc'[t], turn'[t], log[turn'[t].conv])
      BY <2>1, <3>1 DEF Finds
    <3>3. QED
      BY <2>1, <3>2, SilentAnswers
  <2>4. CASE Settles(t)
    <3>1. /\ turn'[t].cost = turn[t].cost /\ pc[t] \in Answered
          /\ \/ pc'[t] \in Answered /\ turn'[t].failed = turn[t].failed
             \/ pc'[t] = "save" /\ ~turn[t].failed /\ turn'[t].failed /\ Repeatable
      BY <2>4 DEF Settles, Answered, Repeatable
    <3>2. Finds(pc'[t], turn'[t], log[turn'[t].conv])
      BY <1>1, <2>1, <3>1 DEF Finds, Answering, Answered
    <3>3. QED
      BY <2>1, <3>2, SilentAnswers
  <2>5. QED
    BY <1>3, <2>2, <2>3, <2>4 DEF Works
<1>4. ASSUME NEW t \in Turns, Quits(t) \/ Resolves(t)
      PROVE  AnsweredOnce'
  <2>1. Alone(t) /\ pc'[t] \in {"idle", "ask"} /\ UNCHANGED log
    BY <1>4, GoAlone DEF Quits, Resolves, Leave, kept
  <2>2. QED
    BY <2>1, SilentAnswers DEF Finds, Answering, Answered
<1>5. ASSUME NEW t \in Turns, Clears(t)
      PROVE  AnsweredOnce'
  <2>1. /\ Alone(t) /\ pc[t] = "clear" /\ pc'[t] = "done" /\ turn'[t] = turn[t]
        /\ UNCHANGED log
    BY <1>5, GoAlone DEF Clears
  <2>2. Finds(pc'[t], turn'[t], log[turn'[t].conv])
    BY <1>1, <2>1 DEF Finds, Answering, Answered
  <2>3. QED
    BY <2>1, <2>2, SilentAnswers
<1>6. ASSUME NEW t \in Turns, Asks(t)
      PROVE  AnsweredOnce'
  <2>1. /\ Alone(t) /\ pc[t] = "ask" /\ pc'[t] = "open" /\ turn'[t] = turn[t]
        /\ Adds(turn[t].conv, "user", t) /\ turn[t].conv \in Conversations
    BY <1>6, GoAlone DEF Asks, Numbered, Live
  <2> DEFINE d == turn[t].conv
             q == turn[t].question
             n == Len(log[d]) + 1
  <2>2. /\ DOMAIN log'[d] = DOMAIN log[d] \cup {n}
        /\ log'[d][n] = Message("user", t)
        /\ \A i \in DOMAIN log[d] : log'[d][i] = log[d][i] /\ i < n
        /\ \A e \in Conversations \ {d} : log'[e] = log[e]
    BY <2>1, Appended
  <2>3. Message("user", t).role = "user" /\ Message("user", t).question = q
    BY DEF Message
  <2>4. \A i \in DOMAIN log[d] : log[d][i].question # q
    BY <2>1 DEF OwnMessages, Live
  <2> HIDE DEF n
  <2>5. \A i \in DOMAIN log[d] : ~(n < i)
    <3>1. n \in Nat /\ DOMAIN log[d] \subseteq Nat
      BY <2>1 DEF n, IInv, TypeOK
    <3>2. QED
      BY <2>2, <3>1
  <2>6. Noted'
    <3>1. SUFFICES ASSUME NEW c \in Conversations, NEW i \in DOMAIN log'[c],
                          NEW j \in DOMAIN log'[c], i < j,
                          log'[c][i].question = log'[c][j].question,
                          log'[c][i].role = "assistant"
                   PROVE  Follows(log'[c][i], log'[c][j])
      BY DEF Noted, Follows, Repeatable
    <3>2. CASE i \in DOMAIN log[c] /\ j \in DOMAIN log[c]
      <4>1. log'[c][i] = log[c][i] /\ log'[c][j] = log[c][j]
        BY <2>2, <3>2
      <4>2. QED
        BY <3>1, <3>2, <4>1 DEF AnsweredOnce, Noted
    <3>3. CASE c = d /\ i = n
      BY <2>2, <2>3, <3>1, <3>3
    <3>4. CASE c = d /\ j = n /\ i \in DOMAIN log[c]
      BY <2>2, <2>3, <2>4, <3>1, <3>4
    <3>5. QED
      BY <2>2, <3>1, <3>2, <3>3, <3>4
  <2>7. Accounted'
    <3>1. SUFFICES ASSUME NEW u \in Turns PROVE Finds(pc'[u], turn'[u], log'[turn'[u].conv])
      BY DEF Accounted, Finds, RepliesIn, Repeatable
    <3>2. CASE u = t
      <4>1. RepliesIn(log'[d], q) = {}
        BY <2>2, <2>3, <2>4 DEF RepliesIn
      <4>2. QED
        BY <2>1, <3>2, <4>1 DEF Finds
    <3>3. CASE u # t
      <4>1. pc'[u] = pc[u] /\ turn'[u] = turn[u]
        BY <2>1, <3>3 DEF Alone
      <4>2. CASE ~Live(u)
        BY <4>1, <4>2 DEF Finds, Live, Answering, Answered
      <4>3. CASE Live(u)
        <5>1. "user" # "assistant"
          OBVIOUS
        <5>2. QED
          BY <2>1, <4>1, <4>3, <5>1, FindsSame DEF AnsweredOnce
      <4>4. QED
        BY <4>2, <4>3
    <3>4. QED
      BY <3>2, <3>3
  <2>8. QED
    BY <2>6, <2>7 DEF AnsweredOnce
<1>7. ASSUME NEW t \in Turns, Replied(t)
      PROVE  AnsweredOnce'
  <2>1. /\ Alone(t) /\ pc[t] = "save" /\ Adds(turn[t].conv, "assistant", t)
        /\ turn[t].conv \in Conversations
        /\ \/ pc'[t] \in {"record", "clear"} /\ turn'[t] = turn[t]
           \/ pc'[t] = "idle"
           \/ /\ pc'[t] = "save" /\ ~turn[t].failed /\ turn'[t].failed /\ Repeatable
              /\ turn'[t].conv = turn[t].conv /\ turn'[t].question = turn[t].question
              /\ turn'[t].cost = turn[t].cost
    <3>1. /\ pc[t] = "save" /\ Adds(turn[t].conv, "assistant", t)
          /\ turn[t].conv \in Conversations
      BY <1>7 DEF Replied, Numbered, Live
    <3>2. CASE Go(t, IF turn[t].cost > 0 THEN "record" ELSE "clear", turn[t])
      <4>1. Alone(t) /\ turn'[t] = turn[t] /\ pc'[t] \in {"record", "clear"}
        BY <3>2, GoAlone
      <4>2. QED
        BY <3>1, <4>1
    <3>3. CASE Throw(t) /\ "db" \in Env
      BY <3>1, <3>3, ThrowKeeps DEF Live, Repeatable
    <3>4. QED
      BY <1>7, <3>2, <3>3 DEF Replied
  <2> DEFINE d == turn[t].conv
             q == turn[t].question
             n == Len(log[d]) + 1
             m == Message("assistant", t)
  <2>2. /\ DOMAIN log'[d] = DOMAIN log[d] \cup {n}
        /\ log'[d][n] = m
        /\ \A i \in DOMAIN log[d] : log'[d][i] = log[d][i] /\ i < n
        /\ \A e \in Conversations \ {d} : log'[e] = log[e]
    BY <2>1, Appended
  <2>3. /\ m.role = "assistant" /\ m.question = q /\ m.cost = turn[t].cost
        /\ m.error = turn[t].failed
    BY DEF Message
  <2> HIDE DEF n, m
  <2>4. ~(n < n) /\ \A i \in DOMAIN log[d] : ~(n < i)
    <3>1. n \in Nat /\ DOMAIN log[d] \subseteq Nat
      BY <2>1 DEF n, IInv, TypeOK
    <3>2. QED
      BY <2>2, <3>1
  <2>5. Finds("save", turn[t], log[d])
    BY <1>1, <2>1
  <2>6. turn[t].failed \in BOOLEAN
    BY DEF IInv, TypeOK, TurnState
  <2>7. \A i \in RepliesIn(log[d], q) :
           turn[t].failed /\ Repeatable /\ ~log[d][i].error /\ log[d][i].cost = turn[t].cost
    BY <2>5, <2>6 DEF Finds, Answering
  <2>8. Noted'
    <3>1. SUFFICES ASSUME NEW c \in Conversations, NEW i \in DOMAIN log'[c],
                          NEW j \in DOMAIN log'[c], i < j,
                          log'[c][i].question = log'[c][j].question,
                          log'[c][i].role = "assistant"
                   PROVE  Follows(log'[c][i], log'[c][j])
      BY DEF Noted, Follows, Repeatable
    <3>2. CASE i \in DOMAIN log[c] /\ j \in DOMAIN log[c]
      <4>1. log'[c][i] = log[c][i] /\ log'[c][j] = log[c][j]
        BY <2>2, <3>2
      <4>2. QED
        BY <3>1, <3>2, <4>1 DEF AnsweredOnce, Noted
    <3>3. CASE c = d /\ j = n /\ i \in DOMAIN log[c]
      <4>1. log'[c][i] = log[c][i] /\ log'[c][j] = m
        BY <2>2, <3>3
      <4>2. i \in RepliesIn(log[d], q)
        BY <2>3, <3>1, <3>3, <4>1 DEF RepliesIn
      <4>3. QED
        BY <2>3, <2>7, <4>1, <4>2, <3>3 DEF Follows
    <3>4. ~(c = d /\ i = n)
      <4>1. SUFFICES ASSUME c = d, i = n PROVE FALSE
        OBVIOUS
      <4>2. j \in DOMAIN log[d] \/ j = n
        BY <2>2, <3>1, <4>1
      <4>3. QED
        BY <2>4, <3>1, <4>1, <4>2
    <3>5. QED
      BY <2>2, <3>1, <3>2, <3>3, <3>4
  <2>9. RepliesIn(log'[d], q) = RepliesIn(log[d], q) \cup {n}
    <3>1. ASSUME NEW i
          PROVE  i \in RepliesIn(log'[d], q) <=> i \in RepliesIn(log[d], q) \cup {n}
      <4>1. CASE i \in DOMAIN log[d]
        BY <2>2, <2>3, <4>1 DEF RepliesIn
      <4>2. CASE i = n
        BY <2>2, <2>3, <4>2 DEF RepliesIn
      <4>3. QED
        BY <2>2, <4>1, <4>2 DEF RepliesIn
    <3>2. QED
      BY <3>1
  <2>10. \A i \in RepliesIn(log'[d], q) :
            /\ log'[d][i].cost = turn[t].cost
            /\ ~turn[t].failed => ~log'[d][i].error
    <3>1. ASSUME NEW i \in RepliesIn(log[d], q)
          PROVE  log'[d][i].cost = turn[t].cost /\ turn[t].failed
      BY <2>2, <2>7 DEF RepliesIn
    <3>2. log'[d][n].cost = turn[t].cost /\ log'[d][n].error = turn[t].failed
      BY <2>2, <2>3
    <3>3. QED
      BY <2>9, <3>1, <3>2
  <2>11. Accounted'
    <3>1. SUFFICES ASSUME NEW u \in Turns PROVE Finds(pc'[u], turn'[u], log'[turn'[u].conv])
      BY DEF Accounted, Finds, RepliesIn, Repeatable
    <3>2. CASE u = t
      <4>1. CASE pc'[t] \in {"record", "clear"} /\ turn'[t] = turn[t]
        BY <2>10, <3>2, <4>1 DEF Finds, Answering, Answered
      <4>2. CASE pc'[t] = "idle"
        BY <3>2, <4>2 DEF Finds, Answering, Answered
      <4>3. CASE /\ pc'[t] = "save" /\ ~turn[t].failed /\ turn'[t].failed /\ Repeatable
                 /\ turn'[t].conv = turn[t].conv /\ turn'[t].question = turn[t].question
                 /\ turn'[t].cost = turn[t].cost
        BY <2>10, <3>2, <4>3 DEF Finds, Answering, Answered
      <4>4. QED
        BY <2>1, <4>1, <4>2, <4>3
    <3>3. CASE u # t
      <4>1. pc'[u] = pc[u] /\ turn'[u] = turn[u]
        BY <2>1, <3>3 DEF Alone
      <4>2. CASE ~Live(u)
        BY <4>1, <4>2 DEF Finds, Live, Answering, Answered
      <4>3. CASE Live(u)
        <5>1. turn[u].question # q
          BY <2>1, <3>3, <4>3 DEF Distinct, Live
        <5>2. QED
          BY <2>1, <4>1, <4>3, <5>1, FindsSame DEF AnsweredOnce
      <4>4. QED
        BY <4>2, <4>3
    <3>4. QED
      BY <3>2, <3>3
  <2>12. QED
    BY <2>8, <2>11 DEF AnsweredOnce
<1>8. ASSUME NEW c \in Conversations, DeleteConversation(c)
      PROVE  AnsweredOnce'
  <2>1. /\ UNCHANGED <<pc, turn>> /\ log'[c] = <<>>
        /\ \A d \in Conversations \ {c} : log'[d] = log[d]
    BY <1>8 DEF DeleteConversation, IInv, TypeOK
  <2>2. Noted'
    BY <2>1 DEF AnsweredOnce, Noted, Follows, Repeatable
  <2>3. \A q : RepliesIn(log'[c], q) = {}
    BY <2>1 DEF RepliesIn
  <2>4. Accounted'
    <3>1. SUFFICES ASSUME NEW u \in Turns PROVE Finds(pc[u], turn[u], log'[turn[u].conv])
      BY <2>1 DEF Accounted, Finds, RepliesIn, Repeatable
    <3>2. CASE ~Live(u)
      BY <3>2 DEF Finds, Live, Answering, Answered
    <3>3. CASE turn[u].conv = c
      BY <2>3, <3>3 DEF Finds
    <3>4. CASE Live(u) /\ turn[u].conv # c
      BY <1>1, <2>1, <3>4 DEF Numbered
    <3>5. QED
      BY <3>2, <3>3, <3>4
  <2>5. QED
    BY <2>2, <2>4 DEF AnsweredOnce
<1>9. ASSUME \/ \E c, hit, closed : Raises(c, hit, closed)
             \/ \E t \in Turns : HangsUp(t)
             \/ UNCHANGED <<pc, turn, kept>>
      PROVE  AnsweredOnce'
  <2>1. UNCHANGED <<pc, log>>
    BY <1>9 DEF Raises, HangsUp, kept
  <2>2. \A u \in Turns : /\ turn'[u].conv = turn[u].conv
                         /\ turn'[u].question = turn[u].question
                         /\ turn'[u].cost = turn[u].cost
                         /\ turn'[u].failed = turn[u].failed
    BY <1>9, OutsideFields
  <2>3. Noted'
    BY <2>1 DEF AnsweredOnce, Noted, Follows, Repeatable
  <2>4. ASSUME NEW u \in Turns PROVE Finds(pc'[u], turn'[u], log'[turn'[u].conv])
    BY <1>1, <2>1, <2>2 DEF Finds
  <2>5. QED
    BY <2>3, <2>4 DEF AnsweredOnce, Accounted, Finds, RepliesIn, Repeatable
<1>10. ASSUME NEW c \in Conversations, FlagExpires(c)
       PROVE  AnsweredOnce'
  BY <1>10 DEF FlagExpires, dbRest, AnsweredOnce, Noted, Follows, Accounted, Finds, RepliesIn,
               Repeatable
<1>11. ASSUME Crash
       PROVE  AnsweredOnce'
  <2>1. /\ UNCHANGED log
        /\ \A u \in Turns : pc'[u] = "idle"
    BY <1>11 DEF Crash, dbRest
  <2>2. QED
    BY <2>1 DEF AnsweredOnce, Noted, Follows, Accounted, Finds, RepliesIn, Repeatable,
                Answering, Answered
<1>12. QED
  BY <1>2, <1>3, <1>4, <1>5, <1>6, <1>7, <1>8, <1>9, <1>10, <1>11, StepKinds DEF OwnStep

(* The replies to a question can be counted. *)
LEMMA RepliesCounted ==
  ASSUME IInv, NEW c \in Conversations, NEW q
  PROVE  IsFiniteSet(RepliesIn(log[c], q)) /\ Cardinality(RepliesIn(log[c], q)) \in Nat
<1>1. log[c] \in Seq(MessageRow)
  BY DEF IInv, TypeOK
<1>2. Len(log[c]) \in Nat /\ RepliesIn(log[c], q) \subseteq 1 .. Len(log[c])
  BY <1>1 DEF RepliesIn
<1>3. IsFiniteSet(1 .. Len(log[c]))
  BY <1>2, FS_Interval
<1>4. QED
  BY <1>2, <1>3, FS_Subset, FS_CardinalityType

LEMMA PaidKept ==
  ASSUME ChatAssumption, IInv, StoresAgree, Paid, [Next]_vars
  PROVE  Paid'
<1> USE DEF StoresAgree
<1> DEFINE due(l, g)  == g.charges + (IF l = "record" THEN 1 ELSE 0)
           count(u)   == Cardinality(RepliesIn(log[turn[u].conv], turn[u].question))
           counted(u) == Cardinality(RepliesIn(log'[turn'[u].conv], turn'[u].question))
           Kept(u)    == Live(u)' /\ convs'[turn'[u].conv] = "live"
                           => due(pc'[u], turn'[u]) <= counted(u)
<1>1. (\A u \in Turns : Kept(u)) => Paid'
  BY DEF Paid, RepliesIn
<1>2. ASSUME NEW u \in Turns
      PROVE  /\ turn[u].charges \in Nat
             /\ Live(u) => turn[u].conv \in Conversations
             /\ Live(u) => count(u) \in Nat
             /\ Live(u) /\ convs[turn[u].conv] = "live" => due(pc[u], turn[u]) <= count(u)
             /\ pc[u] \in Unpaid => turn[u].charges = 0
             /\ pc[u] = "save" /\ ~turn[u].failed => turn[u].charges = 0
  <2>1. turn[u].charges \in Nat
    BY DEF IInv, TypeOK, TurnState
  <2>2. Live(u) => turn[u].conv \in Conversations
    BY DEF Numbered
  <2>3. QED
    BY <2>1, <2>2, RepliesCounted DEF IInv, Shape, ShapeAt, Paid
(* A turn that took no step, nor got a message, if the conversations did not
   come to life.                                                            *)
<1>3. ASSUME NEW u \in Turns, pc'[u] = pc[u], turn'[u].conv = turn[u].conv,
             turn'[u].question = turn[u].question, turn'[u].charges = turn[u].charges,
             Live(u) /\ convs'[turn[u].conv] = "live" => convs[turn[u].conv] = "live",
             Live(u) /\ convs'[turn[u].conv] = "live" =>
                 RepliesIn(log'[turn[u].conv], turn[u].question)
                     = RepliesIn(log[turn[u].conv], turn[u].question)
      PROVE  Kept(u)
  BY <1>2, <1>3 DEF Live
<1>4. ASSUME NEW t \in Turns, Alone(t), UNCHANGED <<convs, log>>, Kept(t)
      PROVE  Paid'
  BY <1>1, <1>3, <1>4 DEF Alone
<1>5. ASSUME NEW t \in Turns, NEW c \in Conversations, Request(t, c)
      PROVE  Paid'
  <2>1. /\ Alone(t) /\ pc'[t] = "budget" /\ turn'[t] = NewTurn(c, questions + 1)
        /\ UNCHANGED <<convs, log>>
    BY <1>5, GoAlone DEF Request, dbRest
  <2>2. turn'[t].charges = 0 /\ turn'[t].conv = c
    BY <2>1 DEF NewTurn
  <2>3. counted(t) \in Nat
    BY <2>1, <2>2, RepliesCounted
  <2>4. QED
    BY <1>4, <2>1, <2>2, <2>3
<1>6. ASSUME NEW t \in Turns, Works(t)
      PROVE  Paid'
  <2>1. /\ Alone(t) /\ UNCHANGED <<convs, log>> /\ Live(t)
        /\ turn'[t].conv = turn[t].conv /\ turn'[t].question = turn[t].question
    BY <1>6 DEF Works, Keeps, Streams, Settles, Answering, Answered, kept, Live
  <2>2. counted(t) = count(t)
    BY <2>1
  <2>3. CASE pc[t] = "budget" /\ pc'[t] = "resolve" /\ turn'[t] = turn[t]
    BY <1>2, <1>4, <2>1, <2>2, <2>3
  <2>4. CASE Streams(t)
    <3>1. turn'[t].charges = 0 /\ pc'[t] # "record"
      BY <1>2, <2>4 DEF Streams, Answering, Unpaid
    <3>2. QED
      BY <1>2, <1>4, <2>1, <2>2, <3>1
  <2>5. CASE Settles(t)
    <3>1. pc'[t] # "record" /\ turn'[t].charges <= due(pc[t], turn[t])
      BY <1>2, <2>5 DEF Settles
    <3>2. turn'[t].charges \in Nat
      BY <1>2, <2>5 DEF Settles
    <3>3. QED
      BY <1>2, <1>4, <2>1, <2>2, <3>1, <3>2
  <2>6. QED
    BY <1>6, <2>3, <2>4, <2>5 DEF Works
<1>7. ASSUME NEW t \in Turns, Quits(t)
      PROVE  Paid'
  <2>1. Alone(t) /\ pc'[t] = "idle" /\ UNCHANGED <<convs, log>>
    BY <1>7, GoAlone DEF Quits, Leave, kept
  <2>2. QED
    BY <1>4, <2>1 DEF Live
<1>8. ASSUME NEW t \in Turns, Clears(t)
      PROVE  Paid'
  <2>1. /\ Alone(t) /\ pc[t] = "clear" /\ pc'[t] = "done" /\ turn'[t] = turn[t]
        /\ UNCHANGED <<convs, log>>
    BY <1>8, GoAlone DEF Clears
  <2>2. QED
    BY <1>2, <1>4, <2>1 DEF Live
<1>9. ASSUME NEW t \in Turns, Resolves(t)
      PROVE  Paid'
  <2>1. /\ Alone(t) /\ pc[t] = "resolve" /\ pc'[t] = "ask" /\ turn'[t] = turn[t]
        /\ UNCHANGED log
    BY <1>9, GoAlone DEF Resolves
  <2>2. ASSUME NEW u \in Turns PROVE Kept(u)
    <3>1. turn'[u] = turn[u] /\ (Live(u)' <=> Live(u))
      BY <2>1 DEF Alone, Live
    <3>2. CASE ~Live(u)
      BY <3>1, <3>2
    <3>3. CASE Live(u) /\ pc[u] \notin Resolved
      <4>1. pc[u] \in Unpaid
        BY <3>3 DEF IInv, TypeOK, Labels, Live, Resolved, Answering, Answered, Unpaid
      <4>2. turn[u].charges = 0 /\ pc'[u] # "record" /\ counted(u) \in Nat
        BY <1>2, <2>1, <3>1, <3>3, <4>1 DEF Alone, Resolved, Answered
      <4>3. QED
        BY <3>1, <4>2
    <3>4. CASE pc[u] \in Resolved
      <4>1. u # t /\ Live(u) /\ convs[turn[u].conv] # "absent"
        BY <2>1, <3>4 DEF Found, Resolved, Answering, Answered, Live
      <4>2. turn[u].conv \in Conversations
        BY <1>2, <4>1
      <4>3. convs'[turn[u].conv] = "live" => convs[turn[u].conv] = "live"
        BY <1>9, <4>1, <4>2 DEF Resolves, IInv, TypeOK
      <4>4. QED
        BY <1>3, <2>1, <4>1, <4>3 DEF Alone
    <3>5. QED
      BY <3>2, <3>3, <3>4
  <2>3. QED
    BY <1>1, <2>2
<1>10. ASSUME NEW t \in Turns, Asks(t)
       PROVE  Paid'
  <2>1. /\ Alone(t) /\ pc[t] = "ask" /\ pc'[t] = "open" /\ turn'[t] = turn[t]
        /\ Adds(turn[t].conv, "user", t) /\ UNCHANGED convs
    BY <1>10, GoAlone DEF Asks
  <2>2. ASSUME NEW u \in Turns PROVE Kept(u)
    <3>1. turn'[u] = turn[u] /\ (Live(u)' <=> Live(u))
      BY <2>1 DEF Alone, Live
    <3>2. Live(u) => counted(u) = count(u)
      <4>1. SUFFICES ASSUME Live(u) PROVE counted(u) = count(u)
        OBVIOUS
      <4>2. turn[u].conv \in Conversations /\ turn[t].conv \in Conversations
        BY <1>2, <2>1, <4>1 DEF Live
      <4>3. "user" # "assistant"
        OBVIOUS
      <4>4. RepliesIn(log'[turn[u].conv], turn[u].question)
                = RepliesIn(log[turn[u].conv], turn[u].question)
        BY <2>1, <4>2, <4>3, RepliesSame
      <4>5. QED
        BY <3>1, <4>4
    <3>3. pc'[u] = "record" <=> pc[u] = "record"
      BY <2>1 DEF Alone
    <3>4. QED
      BY <1>2, <2>1, <3>1, <3>2, <3>3
  <2>3. QED
    BY <1>1, <2>2
<1>11. ASSUME NEW t \in Turns, Replied(t)
       PROVE  Paid'
  <2>1. /\ pc[t] = "save" /\ Adds(turn[t].conv, "assistant", t) /\ UNCHANGED convs
        /\ Live(t) /\ turn[t].conv \in Conversations /\ convs[turn[t].conv] = "live"
    BY <1>11 DEF Replied, Numbered, Live
  <2>2. /\ Alone(t)
        /\ Live(t)' => /\ turn'[t].conv = turn[t].conv /\ turn'[t].question = turn[t].question
                       /\ turn'[t].charges = turn[t].charges
    <3>1. CASE Go(t, IF turn[t].cost > 0 THEN "record" ELSE "clear", turn[t])
      <4>1. Alone(t) /\ turn'[t] = turn[t]
        BY <3>1, GoAlone
      <4>2. QED
        BY <4>1
    <3>2. CASE Throw(t)
      BY <3>2, ThrowKeeps
    <3>3. QED
      BY <1>11, <3>1, <3>2 DEF Replied
  <2> DEFINE d == turn[t].conv
             q == turn[t].question
             n == Len(log[d]) + 1
  <2>3. /\ DOMAIN log'[d] = DOMAIN log[d] \cup {n}
        /\ n \notin DOMAIN log[d]
        /\ log'[d][n] = Message("assistant", t)
        /\ \A i \in DOMAIN log[d] : log'[d][i] = log[d][i]
    BY <2>1, Appended
  <2> HIDE DEF n
  <2>4. RepliesIn(log'[d], q) = RepliesIn(log[d], q) \cup {n} /\ n \notin RepliesIn(log[d], q)
    <3>1. Message("assistant", t).role = "assistant" /\ Message("assistant", t).question = q
      BY DEF Message
    <3>2. ASSUME NEW i
          PROVE  i \in RepliesIn(log'[d], q) <=> i \in RepliesIn(log[d], q) \cup {n}
      <4>1. CASE i \in DOMAIN log[d]
        BY <2>3, <4>1 DEF RepliesIn
      <4>2. CASE i = n
        BY <2>3, <3>1, <4>2 DEF RepliesIn
      <4>3. QED
        BY <2>3, <4>1, <4>2 DEF RepliesIn
    <3>3. QED
      BY <2>3, <3>2 DEF RepliesIn
  <2>5. Cardinality(RepliesIn(log'[d], q)) = count(t) + 1
    BY <2>1, <2>4, RepliesCounted, FS_AddElement
  <2>6. Kept(t)
    <3>1. turn[t].charges <= count(t) /\ count(t) \in Nat /\ turn[t].charges \in Nat
      BY <1>2, <2>1
    <3>2. SUFFICES ASSUME Live(t)' PROVE due(pc'[t], turn'[t]) <= counted(t)
      OBVIOUS
    <3>3. counted(t) = count(t) + 1 /\ turn'[t].charges = turn[t].charges
      BY <2>2, <2>5, <3>2
    <3>4. QED
      BY <3>1, <3>3
  <2>7. ASSUME NEW u \in Turns \ {t} PROVE Kept(u)
    <3>1. pc'[u] = pc[u] /\ turn'[u] = turn[u]
      BY <2>2 DEF Alone
    <3>2. Live(u) => turn[u].conv \in Conversations /\ turn[u].question # q
      BY <2>1 DEF Numbered, Distinct, Live
    <3>3. Live(u) => RepliesIn(log'[turn[u].conv], turn[u].question)
                         = RepliesIn(log[turn[u].conv], turn[u].question)
      BY <2>1, <3>2, RepliesSame
    <3>4. QED
      BY <1>3, <2>1, <3>1, <3>3
  <2>8. QED
    BY <1>1, <2>6, <2>7
<1>12. ASSUME NEW c \in Conversations, DeleteConversation(c)
       PROVE  Paid'
  <2>1. /\ UNCHANGED <<pc, turn>> /\ convs'[c] = "deleted"
        /\ \A d \in Conversations \ {c} : log'[d] = log[d] /\ convs'[d] = convs[d]
    BY <1>12 DEF DeleteConversation, IInv, TypeOK
  <2>2. ASSUME NEW u \in Turns PROVE Kept(u)
    BY <1>2, <1>3, <2>1
  <2>3. QED
    BY <1>1, <2>2
<1>13. ASSUME \/ \E c, hit, closed : Raises(c, hit, closed)
              \/ \E t \in Turns : HangsUp(t)
              \/ UNCHANGED <<pc, turn, kept>>
       PROVE  Paid'
  <2>1. UNCHANGED <<pc, convs, log>>
    BY <1>13 DEF Raises, HangsUp, kept
  <2>2. ASSUME NEW u \in Turns PROVE Kept(u)
    BY <1>3, <1>13, <2>1, OutsideFields
  <2>3. QED
    BY <1>1, <2>2
<1>14. ASSUME NEW c \in Conversations, FlagExpires(c)
       PROVE  Paid'
  BY <1>14 DEF FlagExpires, dbRest, Paid, RepliesIn, Live
<1>15. ASSUME Crash
       PROVE  Paid'
  BY <1>15 DEF Crash, Paid, Live
<1>16. QED
  BY <1>5, <1>6, <1>7, <1>8, <1>9, <1>10, <1>11, <1>12, <1>13, <1>14, <1>15, StepKinds
     DEF OwnStep

LEMMA ChargedOnceKept ==
  ASSUME ChatAssumption, IInv, ChargedOnce, [Next]_vars, "redis" \notin Env, "db" \notin Env
  PROVE  ChargedOnce'
<1>1. ASSUME NEW t \in Turns, Alone(t),
             pc'[t] \in {"expire", "clear", "done"} =>
                 turn'[t].charges = (IF turn'[t].cost > 0 THEN 1 ELSE 0)
      PROVE  ChargedOnce'
  BY <1>1 DEF ChargedOnce, Alone
<1>2. \A t \in Turns : /\ turn[t] \in TurnState
                       /\ pc[t] \in {"save", "record"} => turn[t].charges = 0
                       /\ pc[t] = "record" => turn[t].cost > 0
  <2>1. MaxCharges = 1
    BY DEF MaxCharges
  <2>2. QED
    BY <2>1 DEF IInv, TypeOK, Shape, ShapeAt, TurnState
<1>3. ASSUME NEW t \in Turns, NEW c \in Conversations, Request(t, c)
      PROVE  ChargedOnce'
  BY <1>1, <1>3, GoAlone DEF Request
<1>4. ASSUME NEW t \in Turns, Works(t)
      PROVE  ChargedOnce'
  <2>1. CASE Settles(t)
    BY <1>1, <1>2, <1>4, <2>1 DEF Works, Settles, ChargedOnce
  <2>2. CASE ~Settles(t)
    BY <1>1, <1>4, <2>2 DEF Works, Streams, Answering
  <2>3. QED
    BY <2>1, <2>2
<1>5. ASSUME NEW t \in Turns, Quits(t) \/ Resolves(t) \/ Asks(t)
      PROVE  ChargedOnce'
  BY <1>1, <1>5, GoAlone DEF Quits, Leave, Resolves, Asks
<1>6. ASSUME NEW t \in Turns, Clears(t)
      PROVE  ChargedOnce'
  BY <1>1, <1>6, GoAlone DEF Clears, ChargedOnce
<1>7. ASSUME NEW t \in Turns, Replied(t)
      PROVE  ChargedOnce'
  BY <1>1, <1>2, <1>7, GoAlone DEF Replied
<1>8. ASSUME \/ \E c, hit, closed : Raises(c, hit, closed)
             \/ \E t \in Turns : HangsUp(t)
             \/ UNCHANGED <<pc, turn, kept>>
      PROVE  ChargedOnce'
  <2>1. \A u \in Turns : /\ pc'[u] = pc[u] /\ turn'[u].cost = turn[u].cost
                         /\ turn'[u].charges = turn[u].charges
    BY <1>8, OutsideFields
  <2>2. QED
    BY <2>1 DEF ChargedOnce
<1>9. ASSUME UNCHANGED <<pc, turn>>
      PROVE  ChargedOnce'
  BY <1>9 DEF ChargedOnce
<1>10. ASSUME Crash
       PROVE  ChargedOnce'
  BY <1>10 DEF Crash, ChargedOnce
<1>11. QED
  BY <1>3, <1>4, <1>5, <1>6, <1>7, <1>8, <1>9, <1>10, StepKinds
     DEF OwnStep, DeleteConversation, FlagExpires

LEMMA AnswersKept ==
  ASSUME ChatAssumption
  PROVE  Spec => [](IInv /\ StoresAgree /\ AnsweredOnce /\ Paid)
<1>1. Init => AnsweredOnce /\ Paid
  <2>1. ASSUME Init
        PROVE  /\ \A c \in Conversations : log[c] = <<>>
               /\ \A t \in Turns : pc[t] = "idle"
    BY <2>1 DEF Init
  <2>2. QED
    BY <2>1 DEF AnsweredOnce, Noted, Accounted, Finds, Paid, Live, Answering, Answered
<1>2. /\ IInv /\ StoresAgree /\ AnsweredOnce /\ Paid /\ [Next]_vars
      => AnsweredOnce' /\ Paid'
  BY AnsweredOnceKept, PaidKept
<1>3. QED
  BY <1>1, <1>2, Agreement, PTL DEF Spec

(* Whatever fails, a question that is answered is answered a second time only
   by the catch block, after a store failed behind the INSERT of the first
   reply; the second reply is the last, bears the error note and the same
   cost, and no charge is made that has no reply of its own.                *)
THEOREM QuestionsAnsweredOnce == ASSUME ChatAssumption PROVE Spec => []OneReply
<1>1. IInv /\ StoresAgree /\ AnsweredOnce /\ Paid => OneReply
  <2>1. SUFFICES ASSUME IInv, StoresAgree, AnsweredOnce, Paid PROVE OneReply
    OBVIOUS
  <2>2. ASSUME NEW c \in Conversations, NEW i \in DOMAIN log[c], NEW j \in DOMAIN log[c],
               i < j, log[c][i].question = log[c][j].question,
               log[c][i].role = "assistant"
        PROVE  /\ Env \cap {"redis", "db"} # {}
               /\ log[c][j].role = "assistant"
               /\ ~log[c][i].error /\ log[c][j].error
               /\ log[c][i].cost = log[c][j].cost
    BY <2>1, <2>2 DEF AnsweredOnce, Noted, Follows, Repeatable
  <2>3. ASSUME NEW t \in Turns, Live(t), convs[turn[t].conv] = "live"
        PROVE  turn[t].charges <= Cardinality(Replies(turn[t].conv, turn[t].question))
    <3>1. Replies(turn[t].conv, turn[t].question)
              = RepliesIn(log[turn[t].conv], turn[t].question)
      BY DEF Replies, RepliesIn
    <3>2. /\ turn[t].charges \in Nat
          /\ Cardinality(RepliesIn(log[turn[t].conv], turn[t].question)) \in Nat
      BY <2>1, <2>3, RepliesCounted DEF IInv, TypeOK, TurnState, StoresAgree, Numbered
    <3>3. QED
      BY <2>1, <2>3, <3>1, <3>2 DEF Paid
  <2>4. QED
    BY <2>2, <2>3 DEF OneReply
<1>2. QED
  BY <1>1, AnswersKept, PTL

(* As long as Redis and Postgres answer, a finished turn was charged once,
   the amount that is stored with its reply, or not at all if it was free.  *)
THEOREM AccountsBalance ==
  ASSUME ChatAssumption, "redis" \notin Env, "db" \notin Env
  PROVE  Spec => []BooksBalance
<1>1. AnsweredOnce /\ ChargedOnce => BooksBalance
  BY DEF AnsweredOnce, Accounted, Finds, ChargedOnce, BooksBalance, Replies, RepliesIn,
         Answered
<1>2. Init => ChargedOnce
  BY DEF Init, ChargedOnce
<1>3. IInv /\ ChargedOnce /\ [Next]_vars => ChargedOnce'
  BY ChargedOnceKept
<1>4. QED
  BY <1>1, <1>2, <1>3, AnswersKept, PTL DEF Spec

-----------------------------------------------------------------------------
(* The last event. *)

(* Past RecordCost a cost has been charged. *)
Charged ==
    \A t \in Turns :
        /\ pc[t] = "expire" => turn[t].charges > 0
        /\ pc[t] \in {"clear", "done"} /\ turn[t].cost > 0 => turn[t].charges > 0

LEMMA ChargedKept ==
  ASSUME ChatAssumption, IInv, Charged, [Next]_vars
  PROVE  Charged'
<1>1. ASSUME NEW t \in Turns, Alone(t),
             pc'[t] = "expire" => turn'[t].charges > 0,
             pc'[t] \in {"clear", "done"} /\ turn'[t].cost > 0 => turn'[t].charges > 0
      PROVE  Charged'
  BY <1>1 DEF Charged, Alone
<1>2. \A t \in Turns : turn[t].charges \in Nat /\ turn[t].cost \in Nat
  BY DEF IInv, TypeOK, TurnState
<1>3. ASSUME NEW t \in Turns, NEW c \in Conversations, Request(t, c)
      PROVE  Charged'
  BY <1>1, <1>3, GoAlone DEF Request
<1>4. ASSUME NEW t \in Turns, Works(t)
      PROVE  Charged'
  <2>1. CASE Settles(t)
    BY <1>1, <1>2, <1>4, <2>1 DEF Works, Settles, Charged
  <2>2. CASE ~Settles(t)
    BY <1>1, <1>4, <2>2 DEF Works, Streams, Answering
  <2>3. QED
    BY <2>1, <2>2
<1>5. ASSUME NEW t \in Turns, Quits(t) \/ Resolves(t) \/ Asks(t)
      PROVE  Charged'
  BY <1>1, <1>5, GoAlone DEF Quits, Leave, Resolves, Asks
<1>6. ASSUME NEW t \in Turns, Clears(t)
      PROVE  Charged'
  BY <1>1, <1>6, GoAlone DEF Clears, Charged
<1>7. ASSUME NEW t \in Turns, Replied(t)
      PROVE  Charged'
  <2>1. CASE Throw(t)
    BY <1>1, <2>1, ThrowKeeps
  <2>2. CASE Go(t, IF turn[t].cost > 0 THEN "record" ELSE "clear", turn[t])
    BY <1>1, <1>2, <2>2, GoAlone
  <2>3. QED
    BY <1>7, <2>1, <2>2 DEF Replied
<1>8. ASSUME \/ \E c, hit, closed : Raises(c, hit, closed)
             \/ \E t \in Turns : HangsUp(t)
             \/ UNCHANGED <<pc, turn, kept>>
      PROVE  Charged'
  <2>1. \A u \in Turns : /\ pc'[u] = pc[u] /\ turn'[u].cost = turn[u].cost
                         /\ turn'[u].charges = turn[u].charges
    BY <1>8, OutsideFields
  <2>2. QED
    BY <2>1 DEF Charged
<1>9. ASSUME UNCHANGED <<pc, turn>>
      PROVE  Charged'
  BY <1>9 DEF Charged
<1>10. ASSUME Crash
       PROVE  Charged'
  BY <1>10 DEF Crash, Charged
<1>11. QED
  BY <1>3, <1>4, <1>5, <1>6, <1>7, <1>8, <1>9, <1>10, StepKinds
     DEF OwnStep, DeleteConversation, FlagExpires

(* Whatever fails, 'done' or 'error' is sent only after the reply is stored,
   if the conversation still exists, and a cost is recorded.                *)
THEOREM LastEventComesLast ==
  ASSUME ChatAssumption
  PROVE  Spec => []SettledBeforeLastEvent
<1>1. Init => Charged
  BY DEF Init, Charged
<1>2. IInv /\ Charged /\ [Next]_vars => Charged'
  BY ChargedKept
<1>3. StoresAgree /\ Charged => SettledBeforeLastEvent
  BY DEF StoresAgree, Filed, Charged, SettledBeforeLastEvent, Replies, RepliesIn, Answered
<1>4. QED
  BY <1>1, <1>2, <1>3, Agreement, PTL DEF Spec
-----------------------------------------------------------------------------
(* Stops. *)

(* A turn that was asked to stop finds the flag up as long as it still reads
   chunks, unless somebody took it down; it then sends no more than the chunk
   it had in hand.                                                          *)
Heeds(told, lost, over, l, up) ==
    /\ ~told => over = 0
    /\ ~lost => over <= 1
    /\ told /\ ~lost /\ l \in Preparing \cup Streaming => up
    /\ told /\ ~lost /\ l = "token" => over = 0

Heeded ==
    \A t \in Turns :
        Heeds(turn[t].asked, t \in missed, turn[t].over, pc[t], flag[turn[t].conv])

(* Steps of one turn that leave the flags alone. *)
LEMMA HeedsAlone ==
  ASSUME Heeded, NEW t \in Turns, Alone(t), UNCHANGED <<flag, missed>>,
         Heeds(turn'[t].asked, t \in missed, turn'[t].over, pc'[t], flag[turn'[t].conv])
  PROVE  Heeded'
  BY DEF Heeded, Heeds, Alone

(* A flag that goes down. *)
LEMMA HeedsDrop ==
  ASSUME IInv, StoresAgree, Heeded, NEW c \in Conversations, NEW losers,
         losers \subseteq LiveIn(c), DropFlag(c, losers),
         \A u \in Turns : turn'[u] = turn[u],
         \A u \in losers : pc'[u] = pc[u],
         \A u \in Turns \ losers :
             \/ pc'[u] = pc[u] /\ u \notin LiveIn(c)
             \/ pc'[u] \notin Preparing \cup Streaming
  PROVE  Heeded'
<1>1. ASSUME NEW u \in Turns
      PROVE  Heeds(turn[u].asked, u \in missed', turn[u].over, pc'[u], flag'[turn[u].conv])
  <2>1. /\ turn[u].over \in Nat /\ turn[u].asked \in BOOLEAN
        /\ pc[u] \in Preparing \cup Streaming => Live(u) /\ turn[u].conv \in Conversations
    BY DEF IInv, TypeOK, TurnState, StoresAgree, Numbered, Live
  <2>2. Heeds(turn[u].asked, u \in missed, turn[u].over, pc[u], flag[turn[u].conv])
    BY DEF Heeded
  <2>3. flag \in [Conversations -> BOOLEAN] /\ flag' = [flag EXCEPT ![c] = FALSE]
    BY DEF IInv, TypeOK, DropFlag
  <2>4. CASE u \in losers
    <3>1. pc'[u] = pc[u] /\ turn[u].conv = c
      BY <2>4 DEF LiveIn
    <3>2. CASE flag[c] /\ turn[u].asked
      <4>1. u \in missed'
        BY <2>4, <3>2 DEF DropFlag
      <4>2. QED
        BY <2>2, <3>2, <4>1 DEF Heeds
    <3>3. CASE ~(flag[c] /\ turn[u].asked)
      <4>1. u \in missed' <=> u \in missed
        BY <2>4, <3>3 DEF DropFlag
      <4>2. QED
        BY <2>2, <3>1, <3>3, <4>1 DEF Heeds
    <3>4. QED
      BY <3>2, <3>3
  <2>5. CASE u \notin losers
    <3>1. u \in missed' <=> u \in missed
      BY <2>5 DEF DropFlag
    <3>2. CASE pc'[u] \notin Preparing \cup Streaming
      BY <2>2, <3>1, <3>2 DEF Heeds
    <3>3. CASE /\ pc'[u] = pc[u] /\ u \notin LiveIn(c)
               /\ pc[u] \in Preparing \cup Streaming
      <4>1. turn[u].conv # c /\ turn[u].conv \in Conversations
        BY <2>1, <3>3 DEF LiveIn
      <4>2. flag'[turn[u].conv] = flag[turn[u].conv]
        BY <2>3, <4>1
      <4>3. QED
        BY <2>2, <3>1, <3>3, <4>2
    <3>4. QED
      BY <2>5, <3>2, <3>3
  <2>6. QED
    BY <2>4, <2>5
<1>2. QED
  BY <1>1 DEF Heeded

(* A flag that goes up. *)
LEMMA HeedsRaise ==
  ASSUME IInv, StoresAgree, Heeded, NEW c, NEW hit, NEW closed, Raises(c, hit, closed)
  PROVE  Heeded'
<1>1. ASSUME NEW u \in Turns
      PROVE  Heeds(turn'[u].asked, u \in missed', turn'[u].over, pc[u], flag'[turn'[u].conv])
  <2>1. turn[u] \in TurnState
    BY DEF IInv, TypeOK
  <2>2. Heeds(turn[u].asked, u \in missed, turn[u].over, pc[u], flag[turn[u].conv])
    BY DEF Heeded
  <2> DEFINE meant == turn[u].asked \/ u \in hit
             open  == turn[u].open /\ u \notin closed
             over  == IF u \in hit \cap missed THEN 0 ELSE turn[u].over
             g     == [turn[u] EXCEPT !.asked = meant, !.over = over, !.open = open]
  <2>3. turn'[u] = g
    BY DEF Raises, RaiseFlag
  <2> HIDE DEF meant, open, over
  <2>4. g.conv = turn[u].conv /\ g.asked = meant /\ g.over = over
    BY <2>1 DEF TurnState
  <2>5. /\ u \in hit => turn[u].conv = c
        /\ u \in missed' <=> u \in missed /\ u \notin hit
    BY DEF Raises, RaiseFlag, LiveIn
  <2>6. pc[u] \in Preparing \cup Streaming =>
            flag'[turn[u].conv] = (flag[turn[u].conv] \/ turn[u].conv = c)
    <3>1. flag \in [Conversations -> BOOLEAN] /\ flag' = [flag EXCEPT ![c] = TRUE]
      BY DEF IInv, TypeOK, Raises, RaiseFlag
    <3>2. pc[u] \in Preparing \cup Streaming => turn[u].conv \in Conversations
      BY DEF StoresAgree, Numbered, Live
    <3>3. QED
      BY <3>1, <3>2
  <2>7. Heeds(meant, u \in missed', over, pc[u], flag'[turn[u].conv])
    <3>1. turn[u].over \in Nat /\ turn[u].asked \in BOOLEAN
      BY <2>1 DEF TurnState
    <3>2. /\ ~meant => over = 0
          /\ u \notin missed' => over <= 1
      BY <2>2, <2>5, <3>1 DEF Heeds, meant, over
    <3>3. ASSUME meant, u \notin missed', pc[u] \in Preparing \cup Streaming
          PROVE  flag'[turn[u].conv]
      <4>1. CASE u \in hit
        BY <2>5, <2>6, <3>3, <4>1
      <4>2. CASE u \notin hit
        <5>1. turn[u].asked /\ u \notin missed
          BY <2>5, <3>3, <4>2 DEF meant
        <5>2. flag[turn[u].conv]
          BY <2>2, <3>3, <5>1 DEF Heeds
        <5>3. QED
          BY <2>6, <3>3, <5>2
      <4>3. QED
        BY <4>1, <4>2
    <3>4. ASSUME meant, u \notin missed', pc[u] = "token"
          PROVE  over = 0
      BY <2>2, <2>5, <3>1, <3>4 DEF Heeds, meant, over
    <3>5. QED
      BY <3>2, <3>3, <3>4 DEF Heeds
  <2>8. QED
    BY <2>3, <2>4, <2>7
<1>2. UNCHANGED pc
  BY DEF Raises
<1>3. QED
  BY <1>1, <1>2 DEF Heeded

LEMMA HeededKept ==
  ASSUME ChatAssumption, IInv, StoresAgree, Heeded, [Next]_vars
  PROVE  Heeded'
<1>1. NoTurn.over = 0 /\ ~NoTurn.asked
  BY DEF NoTurn, NewTurn
<1>2. ASSUME NEW t \in Turns
      PROVE  /\ turn[t].over \in Nat /\ turn[t].asked \in BOOLEAN
             /\ Heeds(turn[t].asked, t \in missed, turn[t].over, pc[t], flag[turn[t].conv])
  BY DEF IInv, TypeOK, TurnState, Heeded
<1>3. ASSUME NEW t \in Turns, NEW c \in Conversations, Request(t, c)
      PROVE  Heeded'
  <2>1. /\ Alone(t) /\ turn'[t].over = 0 /\ ~turn'[t].asked
        /\ UNCHANGED flag /\ missed' = missed \ {t}
    BY <1>3, GoAlone DEF Request, NewTurn
  <2>2. QED
    BY <2>1 DEF Heeded, Heeds, Alone
<1>4. ASSUME NEW t \in Turns, Works(t)
      PROVE  Heeded'
  <2>1. /\ Alone(t) /\ UNCHANGED <<flag, missed>>
        /\ turn'[t].conv = turn[t].conv /\ turn'[t].asked = turn[t].asked
    BY <1>4 DEF Works, Keeps, kept
  <2>2. CASE Streams(t)
    <3>1. CASE pc[t] = "token"
      BY <1>2, <2>1, <2>2, <3>1, HeedsAlone DEF Streams, Heeds, Answering
    <3>2. CASE pc[t] # "token"
      BY <1>2, <2>1, <2>2, <3>2, HeedsAlone DEF Streams, Heeds, Answering
    <3>3. QED
      BY <3>1, <3>2
  <2>3. CASE ~Streams(t)
    BY <1>2, <1>4, <2>1, <2>3, HeedsAlone DEF Works, Settles, Heeds
  <2>4. QED
    BY <2>2, <2>3
<1>5. ASSUME NEW t \in Turns, Quits(t)
      PROVE  Heeded'
  BY <1>1, <1>5, HeedsAlone, GoAlone DEF Quits, Leave, Heeds, kept
<1>6. ASSUME NEW t \in Turns, Resolves(t) \/ Asks(t)
      PROVE  Heeded'
  <2>1. /\ Alone(t) /\ UNCHANGED <<flag, missed>> /\ turn'[t] = turn[t]
        /\ pc[t] \in {"resolve", "ask"} /\ pc'[t] \in {"ask", "open"}
    BY <1>6, GoAlone DEF Resolves, Asks
  <2>2. QED
    BY <1>2, <2>1, HeedsAlone DEF Heeds
<1>7. ASSUME NEW t \in Turns, Replied(t)
      PROVE  Heeded'
  <2>1. CASE Throw(t)
    <3>1. /\ Alone(t) /\ pc'[t] \in {"idle", "save"} /\ UNCHANGED <<flag, missed>>
          /\ \/ turn'[t] = NoTurn
             \/ /\ turn'[t].conv = turn[t].conv /\ turn'[t].over = turn[t].over
                /\ turn'[t].asked = turn[t].asked
      BY <1>7, <2>1, ThrowKeeps DEF Replied
    <3>2. QED
      BY <1>1, <1>2, <3>1, HeedsAlone DEF Heeds
  <2>2. CASE Go(t, IF turn[t].cost > 0 THEN "record" ELSE "clear", turn[t])
    <3>1. /\ Alone(t) /\ pc'[t] \in {"record", "clear"} /\ turn'[t] = turn[t]
          /\ UNCHANGED <<flag, missed>>
      BY <1>7, <2>2, GoAlone DEF Replied
    <3>2. QED
      BY <1>2, <3>1, HeedsAlone DEF Heeds
  <2>3. QED
    BY <1>7, <2>1, <2>2 DEF Replied
<1>8. ASSUME NEW t \in Turns, Clears(t)
      PROVE  Heeded'
  <2> DEFINE c == turn[t].conv
  <2>1. c \in Conversations
    BY <1>8 DEF Clears, StoresAgree, Numbered, Live
  <2>2. Alone(t) /\ pc'[t] = "done" /\ turn'[t] = turn[t]
    BY <1>8, GoAlone DEF Clears
  <2>3. DropFlag(c, LiveIn(c) \ {t})
    BY <1>8 DEF Clears
  <2> HIDE DEF c
  <2>4. /\ \A u \in Turns : turn'[u] = turn[u]
        /\ \A u \in LiveIn(c) \ {t} : pc'[u] = pc[u]
        /\ \A u \in Turns \ (LiveIn(c) \ {t}) :
              \/ pc'[u] = pc[u] /\ u \notin LiveIn(c)
              \/ pc'[u] \notin Preparing \cup Streaming
    BY <2>2 DEF Alone, LiveIn
  <2>5. QED
    BY <2>1, <2>3, <2>4, HeedsDrop
<1>9. ASSUME NEW c \in Conversations, FlagExpires(c)
      PROVE  Heeded'
  BY <1>9, HeedsDrop DEF FlagExpires
<1>10. ASSUME NEW c, NEW hit, NEW closed, Raises(c, hit, closed)
       PROVE  Heeded'
  BY <1>10, HeedsRaise
<1>11. ASSUME NEW t \in Turns, HangsUp(t)
       PROVE  Heeded'
  <2>1. ASSUME NEW u \in Turns
        PROVE  /\ turn'[u].conv = turn[u].conv /\ turn'[u].over = turn[u].over
               /\ turn'[u].asked = turn[u].asked
    <3>1. turn[u] \in TurnState
      BY DEF IInv, TypeOK
    <3>2. QED
      BY <1>11, <3>1 DEF HangsUp, TurnState, IInv, TypeOK
  <2>2. UNCHANGED <<pc, flag, missed>>
    BY <1>11 DEF HangsUp, kept
  <2>3. QED
    BY <2>1, <2>2 DEF Heeded
<1>12. ASSUME UNCHANGED <<pc, turn, flag, missed>>
       PROVE  Heeded'
  BY <1>12 DEF Heeded
<1>13. ASSUME Crash
       PROVE  Heeded'
  BY <1>1, <1>13 DEF Crash, Heeded, Heeds
<1>14. QED
  BY <1>3, <1>4, <1>5, <1>6, <1>7, <1>8, <1>9, <1>10, <1>11, <1>12, <1>13, StepKinds
     DEF OwnStep, DeleteConversation, redisRest, stops, kept

(* Whatever the environment does, a turn sends at most one chunk after a stop
   that was meant for it: the one that had passed its check.  Only a turn
   whose flag was taken down by another turn of its conversation, or by the
   TTL, may send more.                                                      *)
THEOREM StopsBoundOutput ==
  ASSUME ChatAssumption
  PROVE  Spec => []StopBoundsOutput
<1>1. Init => Heeded
  BY DEF Init, Heeded, Heeds, NoTurn, NewTurn
<1>2. IInv /\ StoresAgree /\ Heeded /\ [Next]_vars => Heeded'
  BY HeededKept
<1>3. Heeded => StopBoundsOutput
  BY DEF Heeded, Heeds, StopBoundsOutput
<1>4. QED
  BY <1>1, <1>2, <1>3, Agreement, PTL DEF Spec

-----------------------------------------------------------------------------
(* What a turn costs.

   Micros rounds to the nearest micro-dollar, so the theorem is about cost,
   and cost is compared with what OpenAI counts through what is still due:
   a round that is streamed counts for all it has sent and generated, though
   nothing of it is in cost until its count arrives or the loop is left.    *)

MeterState ==
    [at : {"idle", "open", "stream", "push", "tools", "finalize", "done", "gone"},
     round : Nat, count : Nat, prompt : Nat, listed : Nat, text : Nat,
     calls : Nat, args : Nat, deltas : Nat, counted : BOOLEAN,
     gotUsage : BOOLEAN, content : Nat, cost : Nat, charged : Nat]

MeterTypeOK ==
    /\ past \in [count : Nat, tokens : Nat]
    /\ meter \in MeterState
    /\ truth \in [used : Nat, shown : Nat, certain : BOOLEAN]

Counting == meter.at = "stream" /\ ~meter.counted

Due == IF Counting
       THEN meter.cost + ComputeCost(PromptUsage, meter.text + meter.args)
       ELSE meter.cost

(* Shown of the round, if cost has its count already. *)
ShownOf == IF meter.at = "stream" /\ meter.counted
           THEN ComputeCost(meter.prompt, meter.text) ELSE 0

DueIsUsed == Due <= truth.used /\ (truth.certain => Due >= truth.used)

Fair ==
    meter.at \notin {"idle", "gone"} =>
        /\ meter.count > 0
        /\ meter.at = "stream" => meter.gotUsage = meter.counted
        /\ DueIsUsed
        /\ truth.shown + ShownOf <= meter.cost
        /\ meter.at = "done" => meter.charged = Micros(meter.cost)

MeterInv == MeterTypeOK /\ Fair

LEMMA Prices == Pricing.prompt \in Nat /\ Pricing.completion \in Nat
BY MeteringAssumption DEF Pricing

LEMMA ProductGrows ==
    ASSUME NEW a \in Nat, NEW b \in Nat, NEW p \in Nat, a <= b
    PROVE  a * p \in Nat /\ a * p <= b * p
<1>1. b - a \in Nat /\ b = a + (b - a)
    OBVIOUS
<1>2. b * p = a * p + (b - a) * p
    OBVIOUS
<1>3. (b - a) * p \in Nat
    BY <1>1
<1> QED
    BY <1>2, <1>3

(* Costs add up, and more tokens cost no less. *)
LEMMA CostTyped ==
    ASSUME NEW a \in Nat, NEW b \in Nat
    PROVE  ComputeCost(a, b) \in Nat
BY Prices DEF ComputeCost

LEMMA CostAdds ==
    ASSUME NEW a \in Nat, NEW b \in Nat, NEW c \in Nat, NEW d \in Nat
    PROVE  ComputeCost(a + c, b + d) = ComputeCost(a, b) + ComputeCost(c, d)
<1>1. ASSUME NEW x \in Nat, NEW y \in Nat, NEW p \in Nat
      PROVE  (x + y) * p = x * p + y * p
    OBVIOUS
<1> QED
    BY <1>1, Prices DEF ComputeCost

LEMMA CostGrows ==
    ASSUME NEW a \in Nat, NEW b \in Nat, NEW c \in Nat, NEW d \in Nat, a <= c, b <= d
    PROVE  ComputeCost(a, b) <= ComputeCost(c, d)
<1>1. /\ a * Pricing.prompt \in Nat /\ a * Pricing.prompt <= c * Pricing.prompt
      /\ b * Pricing.completion \in Nat
      /\ b * Pricing.completion <= d * Pricing.completion
    BY Prices, ProductGrows
<1>2. c * Pricing.prompt \in Nat /\ d * Pricing.completion \in Nat
    BY Prices
<1> QED
    BY <1>1, <1>2 DEF ComputeCost

(* The surcharges are more than the newlines of the estimate. *)
LEMMA UsageCovers ==
    ASSUME MeterTypeOK, meter.count > 0
    PROVE  /\ PromptUsage \in Nat /\ meter.prompt <= PromptUsage
           /\ meter.prompt + meter.count - 1 \in Nat
           /\ meter.prompt + meter.count - 1 <= PromptUsage
<1>1. /\ meter.prompt \in Nat /\ meter.listed \in Nat /\ meter.count \in Nat
      /\ Surcharge \in Nat /\ Surcharge >= 1 /\ ToolsSurcharge \in Nat
    BY MeteringAssumption DEF MeterTypeOK, MeterState
<1> DEFINE charge == meter.count * Surcharge
           tools == IF LastRound THEN 0 ELSE ToolsSurcharge
<1>2. charge \in Nat /\ charge >= meter.count
    <2>1. 1 * meter.count <= Surcharge * meter.count
        BY <1>1, ProductGrows
    <2>2. charge = Surcharge * meter.count /\ 1 * meter.count = meter.count
        BY <1>1
    <2>3. charge \in Nat
        BY <1>1
    <2> HIDE DEF charge
    <2> QED
        BY <1>1, <2>1, <2>2, <2>3
<1>3. tools \in Nat
    BY <1>1
<1>4. PromptUsage = meter.prompt + meter.listed + charge + tools
    BY DEF PromptUsage
<1> HIDE DEF charge, tools
<1> QED
    BY <1>1, <1>2, <1>3, <1>4

LEMMA CountCovers ==
    ASSUME MeterTypeOK, meter.count > 0
    PROVE  /\ ComputeCost(PromptUsage, meter.text + meter.args) \in Nat
           /\ EstimateCost \in Nat
           /\ EstimateCost <= ComputeCost(PromptUsage, meter.text + meter.args)
           /\ ComputeCost(meter.prompt, meter.text) \in Nat
           /\ ComputeCost(meter.prompt, meter.text) <= EstimateCost
<1>1. meter.prompt \in Nat /\ meter.text \in Nat /\ meter.args \in Nat /\ meter.count \in Nat
    BY DEF MeterTypeOK, MeterState
<1> DEFINE estimate == meter.prompt + meter.count - 1
           all == meter.text + meter.args
<1>2. /\ PromptUsage \in Nat /\ estimate \in Nat
      /\ estimate <= PromptUsage
    BY UsageCovers
<1>3. all \in Nat /\ meter.text <= all /\ meter.prompt <= estimate
    BY <1>1
<1>4. EstimateCost = ComputeCost(estimate, meter.text)
    BY DEF EstimateCost
<1> HIDE DEF estimate
<1>5. /\ EstimateCost \in Nat /\ EstimateCost <= ComputeCost(PromptUsage, all)
      /\ ComputeCost(PromptUsage, all) \in Nat
    <2> HIDE DEF all
    <2> QED
        BY <1>1, <1>2, <1>3, <1>4, CostTyped, CostGrows
<1>6. /\ ComputeCost(meter.prompt, meter.text) \in Nat
      /\ ComputeCost(meter.prompt, meter.text) <= EstimateCost
    <2>1. meter.text <= meter.text
        BY <1>1
    <2> QED
        BY <1>1, <1>2, <1>3, <1>4, <2>1, CostTyped, CostGrows
<1> QED
    BY <1>5, <1>6

LEMMA MeterTyped ==
    ASSUME MeterTypeOK, Fair, MeterNext
    PROVE  MeterTypeOK'
<1>0. /\ SystemTokens \in Nat /\ QuestionTokens \in Nat /\ ErrorTokens \in Nat
      /\ DeltaTokens \in Nat /\ RowsTokens \subseteq Nat
    BY MeteringAssumption
<1> DEFINE round == meter.round + 1
           count == meter.count + 1
           deltas == meter.deltas + 1
<1>a. /\ meter \in MeterState /\ truth \in [used : Nat, shown : Nat, certain : BOOLEAN]
      /\ past \in [count : Nat, tokens : Nat]
      /\ past.count \in Nat /\ past.tokens \in Nat
      /\ truth.used \in Nat /\ truth.shown \in Nat /\ truth.certain \in BOOLEAN
    BY DEF MeterTypeOK
<1>b. /\ meter.round \in Nat /\ meter.count \in Nat /\ meter.prompt \in Nat
      /\ meter.listed \in Nat /\ meter.text \in Nat /\ meter.calls \in Nat
      /\ meter.args \in Nat /\ meter.deltas \in Nat /\ meter.content \in Nat
      /\ meter.cost \in Nat /\ meter.counted \in BOOLEAN /\ meter.gotUsage \in BOOLEAN
    BY <1>a DEF MeterState
<1>1. CASE Ask
    <2> DEFINE counted == past'.count + 1
               tokens == SystemTokens + past'.tokens
    <2>1. past.count + 1 \in Nat /\ past.tokens + QuestionTokens \in Nat
        BY <1>0, <1>a
    <2>2. past' \in [count : Nat, tokens : Nat]
        BY <1>1, <2>1 DEF Ask
    <2>3. counted \in Nat /\ tokens \in Nat
        BY <1>0, <2>2
    <2>4. /\ meter' = [NoMeter EXCEPT !.at = "open", !.count = counted, !.prompt = tokens]
          /\ truth' = NoTruth
        BY <1>1 DEF Ask
    <2> HIDE DEF counted, tokens
    <2>5. meter' \in MeterState
        BY <2>3, <2>4 DEF NoMeter, MeterState
    <2> QED
        BY <2>2, <2>4, <2>5 DEF MeterTypeOK, NoTruth
<1>2. CASE RequestStop \/ HangUp
    <2>1. meter' \in MeterState
        BY <1>2, <1>a DEF RequestStop, HangUp, MeterState
    <2> QED
        BY <1>2, <1>a, <2>1 DEF RequestStop, HangUp, MeterTypeOK
<1>3. CASE StreamChatCompletion
    <2> DEFINE more == truth.used + ComputeCost(PromptUsage, 0)
    <2>1. meter.count > 0
        BY <1>3 DEF Fair, StreamChatCompletion
    <2>2. ComputeCost(PromptUsage, 0) \in Nat
        BY <2>1, UsageCovers, CostTyped
    <2>3. more \in Nat
        BY <1>a, <2>2
    <2>4. truth' = [truth EXCEPT !.used = more] /\ meter' = NewRound /\ past' = past
        BY <1>3 DEF StreamChatCompletion
    <2> HIDE DEF more
    <2>5. NewRound \in MeterState
        BY <1>a DEF NewRound, MeterState
    <2> QED
        BY <1>a, <2>3, <2>4, <2>5 DEF MeterTypeOK
<1>4. CASE Delta \/ ToolDelta
    <2> DEFINE more == truth.used + ComputeCost(0, DeltaTokens)
               text == meter.text + DeltaTokens
               args == meter.args + DeltaTokens
    <2>1. ComputeCost(0, DeltaTokens) \in Nat
        BY <1>0, CostTyped
    <2>2. more \in Nat /\ text \in Nat /\ args \in Nat /\ deltas \in Nat
        BY <1>0, <1>a, <1>b, <2>1
    <2>3. truth' = [truth EXCEPT !.used = more] /\ past' = past
        BY <1>4 DEF Delta, ToolDelta
    <2>4. PICK calls \in {meter.calls, meter.calls + 1} :
              \/ meter' = [meter EXCEPT !.deltas = deltas, !.text = text]
              \/ meter' = [meter EXCEPT !.deltas = deltas, !.calls = calls, !.args = args]
        BY <1>4 DEF Delta, ToolDelta
    <2>5. calls \in Nat
        BY <1>b
    <2> HIDE DEF more, text, args, deltas
    <2>6. meter' \in MeterState
        <3>1. [meter EXCEPT !.deltas = deltas, !.text = text] \in MeterState
            BY <1>a, <2>2 DEF MeterState
        <3>2. [meter EXCEPT !.deltas = deltas, !.calls = calls, !.args = args] \in MeterState
            BY <1>a, <2>2, <2>5 DEF MeterState
        <3> QED
            BY <2>4, <3>1, <3>2
    <2> QED
        BY <1>a, <2>2, <2>3, <2>6 DEF MeterTypeOK
<1>5. CASE UsageChunk
    <2> DEFINE cost == meter.cost + ComputeCost(PromptUsage, meter.text + meter.args)
    <2>1. meter.count > 0
        BY <1>5 DEF Fair, UsageChunk, Heard
    <2>2. cost \in Nat
        BY <1>b, <2>1, CountCovers
    <2>3. /\ meter' = [meter EXCEPT !.counted = TRUE, !.gotUsage = TRUE, !.cost = cost]
          /\ truth' = truth /\ past' = past
        BY <1>5 DEF UsageChunk
    <2> HIDE DEF cost
    <2>4. meter' \in MeterState
        BY <1>a, <2>2, <2>3 DEF MeterState
    <2> QED
        BY <1>a, <2>3, <2>4 DEF MeterTypeOK
<1>6. ASSUME NEW at \in {"finalize", "push"}, Summed(at), meter.at = "stream"
      PROVE  MeterTypeOK'
    <2> DEFINE cost == meter.cost + (IF meter.gotUsage THEN 0 ELSE EstimateCost)
               content == meter.content + meter.text
               shown == truth.shown + ComputeCost(meter.prompt, meter.text)
               certain == truth.certain /\ meter.counted
    <2>1. meter.count > 0
        BY <1>6 DEF Fair
    <2>2. EstimateCost \in Nat /\ ComputeCost(meter.prompt, meter.text) \in Nat
        BY <2>1, CountCovers
    <2>3. cost \in Nat /\ content \in Nat /\ shown \in Nat /\ certain \in BOOLEAN
        BY <1>a, <1>b, <2>2
    <2>4. /\ meter' = [meter EXCEPT !.at = at, !.content = content, !.cost = cost]
          /\ truth' = [truth EXCEPT !.shown = shown, !.certain = certain]
          /\ past' = past
        BY <1>6 DEF Summed
    <2> HIDE DEF cost, content, shown, certain
    <2>5. meter' \in MeterState
        BY <1>a, <2>3, <2>4 DEF MeterState
    <2> QED
        BY <1>a, <2>3, <2>4, <2>5 DEF MeterTypeOK
<1>7. CASE NoticeStop \/ StreamOver
    BY <1>6, <1>7 DEF NoticeStop, StreamOver
<1>8. CASE PushCalls \/ AnswerCall \/ NextRound \/ Thrown
    <2> DEFINE content == meter.content + ErrorTokens
               prompt == meter.prompt + meter.text
               listed == meter.listed + meter.args
               certain == truth.certain /\ meter.at # "stream"
    <2>1. /\ count \in Nat /\ round \in Nat /\ content \in Nat
          /\ prompt \in Nat /\ listed \in Nat /\ certain \in BOOLEAN
        BY <1>0, <1>a, <1>b
    <2>2. PICK longer \in Nat, fewer \in Nat, at \in {"finalize", "open"} :
              \/ meter' = [meter EXCEPT !.at = "tools", !.count = count,
                                        !.prompt = prompt, !.listed = listed]
              \/ meter' = [meter EXCEPT !.calls = fewer, !.count = count, !.prompt = longer]
              \/ meter' = [meter EXCEPT !.calls = fewer]
              \/ meter' = [meter EXCEPT !.at = at, !.round = round]
              \/ meter' = [meter EXCEPT !.at = "finalize", !.content = content]
        <3>1. CASE PushCalls
            BY <3>1 DEF PushCalls
        <3>2. CASE AnswerCall
            <4>0. meter.calls > 0
                BY <3>2 DEF AnswerCall
            <4>1. meter.calls - 1 \in Nat
                BY <1>b, <4>0
            <4>2. \A rows \in RowsTokens : meter.prompt + rows \in Nat
                BY <1>0, <1>b
            <4> QED
                BY <3>2, <4>1, <4>2 DEF AnswerCall
        <3>3. CASE NextRound
            BY <3>3 DEF NextRound
        <3>4. CASE Thrown
            BY <3>4 DEF Thrown
        <3> QED
            BY <1>8, <3>1, <3>2, <3>3, <3>4
    <2>3. /\ truth' = truth \/ truth' = [truth EXCEPT !.certain = certain]
          /\ past' = past
        BY <1>8 DEF PushCalls, AnswerCall, NextRound, Thrown
    <2> HIDE DEF count, round, content, prompt, listed, certain
    <2>4. /\ [meter EXCEPT !.calls = fewer] \in MeterState
          /\ [meter EXCEPT !.at = at, !.round = round] \in MeterState
          /\ [meter EXCEPT !.at = "finalize", !.content = content] \in MeterState
        BY <1>a, <2>1 DEF MeterState
    <2>5. [meter EXCEPT !.calls = fewer, !.count = count, !.prompt = longer] \in MeterState
        BY <1>a, <2>1 DEF MeterState
    <2>6. [meter EXCEPT !.at = "tools", !.count = count, !.prompt = prompt,
                        !.listed = listed] \in MeterState
        BY <1>a, <2>1 DEF MeterState
    <2>7. meter' \in MeterState
        BY <2>2, <2>4, <2>5, <2>6
    <2> QED
        BY <1>a, <2>1, <2>3, <2>7 DEF MeterTypeOK
<1>9. CASE FinalizeTurn
    <2> DEFINE charged == Micros(meter.cost)
    <2>1. charged \in Nat
        BY <1>b DEF Micros
    <2>2. past.tokens + meter.content \in Nat /\ past.count + 1 \in Nat
        BY <1>a, <1>b
    <2>3. /\ past' = [count |-> past.count + 1, tokens |-> past.tokens + meter.content]
          /\ meter' = [meter EXCEPT !.at = "done", !.charged = charged] /\ truth' = truth
        BY <1>9 DEF FinalizeTurn
    <2> HIDE DEF charged
    <2>4. meter' \in MeterState
        BY <1>a, <2>1, <2>3 DEF MeterState
    <2>5. past' \in [count : Nat, tokens : Nat]
        BY <2>2, <2>3
    <2> QED
        BY <1>a, <2>3, <2>4, <2>5 DEF MeterTypeOK
<1> QED
    BY <1>1, <1>2, <1>3, <1>4, <1>5, <1>7, <1>8, <1>9 DEF MeterNext

(* A turn between two rounds, whatever it was that changed: nothing of a round
   is due.                                                                   *)
LEMMA BetweenRounds ==
    ASSUME MeterTypeOK', meter'.at \notin {"stream", "done"},
           meter'.count > 0, meter'.cost <= truth'.used,
           truth'.certain => meter'.cost >= truth'.used,
           truth'.shown <= meter'.cost
    PROVE  Fair'
<1>1. /\ truth'.shown \in Nat /\ truth'.used \in Nat /\ meter'.cost \in Nat
    BY DEF MeterTypeOK, MeterState
<1>2. Due' = meter'.cost /\ ShownOf' = 0
    BY DEF Due, Counting, ShownOf
<1>3. truth'.shown + 0 <= meter'.cost
    BY <1>1
<1> QED
    BY <1>1, <1>2, <1>3 DEF Fair, DueIsUsed

LEMMA MeterStep ==
    ASSUME MeterInv, [MeterNext]_meterVars
    PROVE  MeterInv'
<1>0. MeterTypeOK /\ Fair
    BY DEF MeterInv
<1>a. /\ meter \in MeterState /\ truth \in [used : Nat, shown : Nat, certain : BOOLEAN]
      /\ truth.used \in Nat /\ truth.shown \in Nat /\ truth.certain \in BOOLEAN
      /\ meter.count \in Nat /\ meter.prompt \in Nat /\ meter.text \in Nat
      /\ meter.args \in Nat /\ meter.cost \in Nat /\ DeltaTokens \in Nat
      /\ meter.counted \in BOOLEAN /\ meter.gotUsage \in BOOLEAN
    BY <1>0, MeteringAssumption DEF MeterTypeOK, MeterState
<1>b. ASSUME meter.at \notin {"idle", "gone"}
      PROVE  /\ meter.count > 0 /\ PromptUsage \in Nat
             /\ ComputeCost(PromptUsage, meter.text + meter.args) \in Nat
             /\ EstimateCost \in Nat
             /\ EstimateCost <= ComputeCost(PromptUsage, meter.text + meter.args)
             /\ ComputeCost(meter.prompt, meter.text) \in Nat
             /\ ComputeCost(meter.prompt, meter.text) <= EstimateCost
             /\ truth.shown + ShownOf <= meter.cost
             /\ Due <= truth.used /\ (truth.certain => Due >= truth.used)
             /\ meter.at = "stream" => meter.gotUsage = meter.counted
    BY <1>0, <1>b, UsageCovers, CountCovers DEF Fair, DueIsUsed
<1>c. ASSUME meter.at \notin {"idle", "gone", "stream"}
      PROVE  /\ meter.cost <= truth.used /\ (truth.certain => meter.cost >= truth.used)
             /\ truth.shown <= meter.cost
    <2>1. Due = meter.cost /\ ShownOf = 0
        BY <1>c DEF Due, Counting, ShownOf
    <2> QED
        BY <1>a, <1>b, <1>c, <2>1
<1>1. CASE UNCHANGED meterVars \/ RequestStop
    <2>1. UNCHANGED <<model, past, meter, truth>>
        BY <1>1 DEF meterVars, RequestStop
    <2>2. MeterTypeOK'
        BY <1>0, <2>1 DEF MeterTypeOK
    <2>3. Fair'
        BY <1>0, <2>1 DEF Fair, DueIsUsed, Due, Counting, ShownOf, ComputeCost, Pricing,
                          PromptUsage, LastRound, Micros
    <2> QED
        BY <2>2, <2>3 DEF MeterInv
<1>2. ASSUME MeterNext
      PROVE  MeterTypeOK'
    BY <1>0, <1>2, MeterTyped
<1>3. CASE Ask
    <2>0. MeterTypeOK'
        BY <1>2, <1>3 DEF MeterNext
    <2>1. /\ meter'.at = "open" /\ meter'.count = past'.count + 1 /\ meter'.cost = 0
          /\ truth'.used = 0 /\ truth'.shown = 0
        BY <1>3 DEF Ask, NoMeter, NoTruth
    <2>2. meter'.count > 0
        BY <2>0, <2>1 DEF MeterTypeOK
    <2> QED
        BY <2>0, <2>1, <2>2, BetweenRounds DEF MeterInv
<1>4. CASE StreamChatCompletion
    <2> DEFINE more == truth.used + ComputeCost(PromptUsage, 0)
    <2>0. MeterTypeOK'
        BY <1>2, <1>4 DEF MeterNext
    <2>1. /\ meter.at = "open" /\ model' = model /\ meter' = NewRound
          /\ truth' = [truth EXCEPT !.used = more]
        BY <1>4 DEF StreamChatCompletion
    <2>2. /\ meter'.at = "stream" /\ meter'.counted = FALSE /\ meter'.gotUsage = FALSE
          /\ meter'.text = 0 /\ meter'.args = 0 /\ meter'.cost = meter.cost
          /\ meter'.count = meter.count /\ meter'.prompt = meter.prompt
          /\ meter'.listed = meter.listed /\ meter'.round = meter.round
        BY <1>a, <2>1 DEF NewRound, MeterState
    <2>3. /\ truth'.used = more /\ truth'.shown = truth.shown
          /\ truth'.certain = truth.certain
        <3> HIDE DEF more
        <3> QED
            BY <1>a, <2>1
    <2>4. PromptUsage' = PromptUsage
        BY <2>2 DEF PromptUsage, LastRound
    <2>5. Due' = meter.cost + ComputeCost(PromptUsage, 0)
        BY <2>1, <2>2, <2>4 DEF Due, Counting, ComputeCost, Pricing
    <2>6. ComputeCost(PromptUsage, 0) \in Nat
        BY <1>b, <2>1, CostTyped
    <2>7. DueIsUsed'
        <3>1. meter.cost <= truth.used /\ (truth.certain => meter.cost >= truth.used)
            BY <1>c, <2>1
        <3> QED
            BY <1>a, <2>3, <2>5, <2>6, <3>1 DEF DueIsUsed
    <2>8. truth'.shown + ShownOf' <= meter'.cost
        <3>1. ShownOf' = 0 /\ truth.shown <= meter.cost
            BY <1>c, <2>1, <2>2 DEF ShownOf
        <3> QED
            BY <1>a, <2>2, <2>3, <3>1
    <2> QED
        BY <1>b, <2>0, <2>1, <2>2, <2>7, <2>8 DEF Fair, MeterInv
<1>5. CASE Delta \/ ToolDelta
    <2> DEFINE more == truth.used + ComputeCost(0, DeltaTokens)
    <2>0. MeterTypeOK'
        BY <1>2, <1>5 DEF MeterNext
    <2>1. /\ meter.at = "stream" /\ ~meter.counted /\ model' = model
          /\ truth' = [truth EXCEPT !.used = more]
        BY <1>5 DEF Delta, ToolDelta, Heard
    <2>2. /\ meter'.at = "stream" /\ meter'.counted = meter.counted
          /\ meter'.gotUsage = meter.gotUsage /\ meter'.cost = meter.cost
          /\ meter'.count = meter.count /\ meter'.prompt = meter.prompt
          /\ meter'.listed = meter.listed /\ meter'.round = meter.round
          /\ meter'.text + meter'.args = (meter.text + meter.args) + DeltaTokens
        <3>1. CASE Delta
            <4>1. /\ meter'.at = meter.at /\ meter'.counted = meter.counted
                  /\ meter'.gotUsage = meter.gotUsage /\ meter'.cost = meter.cost
                  /\ meter'.count = meter.count /\ meter'.prompt = meter.prompt
                  /\ meter'.listed = meter.listed /\ meter'.round = meter.round
                  /\ meter'.text = meter.text + DeltaTokens /\ meter'.args = meter.args
                BY <1>a, <3>1 DEF Delta, MeterState
            <4> QED
                BY <1>a, <2>1, <4>1
        <3>2. CASE ToolDelta
            <4>1. /\ meter'.at = meter.at /\ meter'.counted = meter.counted
                  /\ meter'.gotUsage = meter.gotUsage /\ meter'.cost = meter.cost
                  /\ meter'.count = meter.count /\ meter'.prompt = meter.prompt
                  /\ meter'.listed = meter.listed /\ meter'.round = meter.round
                  /\ meter'.text = meter.text /\ meter'.args = meter.args + DeltaTokens
                BY <1>a, <3>2 DEF ToolDelta, MeterState
            <4> QED
                BY <1>a, <2>1, <4>1
        <3> QED
            BY <1>5, <3>1, <3>2
    <2>3. /\ truth'.used = more /\ truth'.shown = truth.shown
          /\ truth'.certain = truth.certain
        <3> HIDE DEF more
        <3> QED
            BY <1>a, <2>1
    <2>4. PromptUsage' = PromptUsage
        BY <2>2 DEF PromptUsage, LastRound
    <2>5. /\ Due = meter.cost + ComputeCost(PromptUsage, meter.text + meter.args)
          /\ Due' = meter.cost + ComputeCost(PromptUsage,
                                             (meter.text + meter.args) + DeltaTokens)
        BY <2>1, <2>2, <2>4 DEF Due, Counting, ComputeCost, Pricing
    <2>6. ComputeCost(PromptUsage + 0, (meter.text + meter.args) + DeltaTokens)
              = ComputeCost(PromptUsage, meter.text + meter.args)
                    + ComputeCost(0, DeltaTokens)
        <3>1. meter.text + meter.args \in Nat /\ PromptUsage \in Nat
            BY <1>a, <1>b, <2>1
        <3> QED
            BY <1>a, <3>1, CostAdds
    <2>7. DueIsUsed'
        <3>1. ComputeCost(0, DeltaTokens) \in Nat
            BY <1>a, CostTyped
        <3>2. Due' = Due + ComputeCost(0, DeltaTokens) /\ Due \in Nat
            <4>1. PromptUsage + 0 = PromptUsage
                BY <1>b, <2>1
            <4> QED
                BY <1>a, <1>b, <2>1, <2>5, <2>6, <3>1, <4>1
        <3> QED
            BY <1>a, <1>b, <2>1, <2>3, <3>1, <3>2 DEF DueIsUsed
    <2>8. truth'.shown + ShownOf' <= meter'.cost
        <3>1. ShownOf = 0 /\ ShownOf' = 0
            BY <2>1, <2>2 DEF ShownOf
        <3> QED
            BY <1>b, <2>1, <2>2, <2>3, <3>1
    <2> QED
        BY <1>b, <2>0, <2>1, <2>2, <2>7, <2>8 DEF Fair, MeterInv
<1>6. CASE UsageChunk
    <2> DEFINE round == ComputeCost(PromptUsage, meter.text + meter.args)
               cost == meter.cost + round
    <2>0. MeterTypeOK'
        BY <1>2, <1>6 DEF MeterNext
    <2>1. /\ meter.at = "stream" /\ ~meter.counted /\ model' = model /\ truth' = truth
          /\ meter' = [meter EXCEPT !.counted = TRUE, !.gotUsage = TRUE, !.cost = cost]
        BY <1>6 DEF UsageChunk, Heard
    <2>2. /\ meter'.at = "stream" /\ meter'.counted /\ meter'.gotUsage
          /\ meter'.cost = cost /\ meter'.count = meter.count
          /\ meter'.prompt = meter.prompt /\ meter'.text = meter.text
        <3> HIDE DEF cost
        <3> QED
            BY <1>a, <2>1 DEF MeterState
    <2>3. Due = cost /\ Due' = cost
        BY <2>1, <2>2 DEF Due, Counting
    <2>4. ShownOf = 0 /\ ShownOf' = ComputeCost(meter.prompt, meter.text)
        BY <2>1, <2>2 DEF ShownOf, ComputeCost, Pricing
    <2>5. truth'.shown + ShownOf' <= meter'.cost
        <3>1. /\ round \in Nat /\ truth.shown + 0 <= meter.cost
              /\ ComputeCost(meter.prompt, meter.text) \in Nat
              /\ ComputeCost(meter.prompt, meter.text) <= EstimateCost
              /\ EstimateCost \in Nat /\ EstimateCost <= round
            BY <1>b, <2>1, <2>4
        <3> HIDE DEF round
        <3> QED
            BY <1>a, <2>1, <2>2, <2>4, <3>1
    <2>6. DueIsUsed'
        BY <1>b, <2>1, <2>3 DEF DueIsUsed
    <2> QED
        BY <1>b, <2>0, <2>1, <2>2, <2>5, <2>6 DEF Fair, MeterInv
<1>7. ASSUME NEW at \in {"finalize", "push"}, Summed(at), meter.at = "stream", MeterNext
      PROVE  MeterInv'
    <2> DEFINE cost == meter.cost + (IF meter.gotUsage THEN 0 ELSE EstimateCost)
               content == meter.content + meter.text
               shown == truth.shown + ComputeCost(meter.prompt, meter.text)
               certain == truth.certain /\ meter.counted
    <2>0. MeterTypeOK'
        BY <1>2, <1>7
    <2>1. /\ meter' = [meter EXCEPT !.at = at, !.content = content, !.cost = cost]
          /\ truth' = [truth EXCEPT !.shown = shown, !.certain = certain]
        BY <1>7 DEF Summed
    <2>2. /\ meter'.at = at /\ meter'.cost = cost /\ meter'.count = meter.count
          /\ truth'.used = truth.used /\ truth'.shown = shown
          /\ truth'.certain = certain
        <3> HIDE DEF cost, content, shown, certain
        <3> QED
            BY <1>a, <2>1 DEF MeterState
    <2>3. CASE meter.counted
        <3>0. meter.gotUsage
            BY <1>b, <1>7, <2>3
        <3>1. /\ Due = meter.cost /\ cost = meter.cost
              /\ ShownOf = ComputeCost(meter.prompt, meter.text)
            BY <1>a, <1>7, <2>3, <3>0 DEF Due, Counting, ShownOf
        <3> QED
            BY <1>b, <1>7, <2>0, <2>2, <2>3, <3>1, BetweenRounds DEF MeterInv
    <2>4. CASE ~meter.counted
        <3>1. /\ Due = meter.cost + ComputeCost(PromptUsage, meter.text + meter.args)
              /\ cost = meter.cost + EstimateCost /\ ShownOf = 0
            BY <1>b, <1>7, <2>4 DEF Due, Counting, ShownOf
        <3>2. cost <= Due /\ Due \in Nat /\ cost \in Nat /\ shown <= cost
            BY <1>a, <1>b, <1>7, <3>1
        <3>3. cost <= truth.used
            BY <1>a, <1>b, <1>7, <3>2
        <3> QED
            BY <1>b, <1>7, <2>0, <2>2, <2>4, <3>2, <3>3, BetweenRounds DEF MeterInv
    <2> QED
        BY <1>a, <2>3, <2>4
<1>8. CASE NoticeStop \/ StreamOver
    BY <1>7, <1>8 DEF NoticeStop, StreamOver, MeterNext
<1>9. CASE PushCalls \/ AnswerCall \/ NextRound
    <2>0. MeterTypeOK'
        BY <1>2, <1>9 DEF MeterNext
    <2>1. /\ meter.at \in {"push", "tools"} /\ truth' = truth
          /\ meter'.at \in {"tools", "finalize", "open"} /\ meter'.cost = meter.cost
          /\ meter'.count \in {meter.count, meter.count + 1}
        <3>1. CASE PushCalls
            BY <1>a, <3>1 DEF PushCalls, MeterState
        <3>2. CASE AnswerCall
            BY <1>a, <3>2 DEF AnswerCall, MeterState
        <3>3. CASE NextRound
            BY <1>a, <3>3 DEF NextRound, MeterState
        <3> QED
            BY <1>9, <3>1, <3>2, <3>3
    <2>2. meter'.count > 0
        BY <1>a, <1>b, <2>1
    <2> QED
        BY <1>c, <2>0, <2>1, <2>2, BetweenRounds DEF MeterInv
<1>10. CASE Thrown
    <2> DEFINE certain == truth.certain /\ meter.at # "stream"
    <2>0. MeterTypeOK'
        BY <1>2, <1>10 DEF MeterNext
    <2>1. /\ meter.at \in {"open", "stream", "tools"}
          /\ meter'.at = "finalize" /\ meter'.cost = meter.cost
          /\ meter'.count = meter.count
        BY <1>a, <1>10 DEF Thrown, MeterState
    <2>2. truth'.used = truth.used /\ truth'.shown = truth.shown
          /\ truth'.certain = certain
        <3>1. truth' = [truth EXCEPT !.certain = certain]
            BY <1>10 DEF Thrown
        <3> HIDE DEF certain
        <3> QED
            BY <1>a, <3>1
    <2>3. CASE meter.at = "stream"
        <3>1. ShownOf \in Nat /\ meter.cost <= Due /\ Due \in Nat
            BY <1>a, <1>b, <2>3 DEF Due, ShownOf
        <3>2. meter.cost <= truth.used /\ truth.shown <= meter.cost
            BY <1>a, <1>b, <2>3, <3>1
        <3> QED
            BY <1>b, <2>0, <2>1, <2>2, <2>3, <3>2, BetweenRounds DEF MeterInv
    <2>4. CASE meter.at # "stream"
        BY <1>b, <1>c, <2>0, <2>1, <2>2, <2>4, BetweenRounds DEF MeterInv
    <2> QED
        BY <2>3, <2>4
<1>11. CASE FinalizeTurn
    <2>0. MeterTypeOK'
        BY <1>2, <1>11 DEF MeterNext
    <2>1. /\ meter.at = "finalize" /\ meter'.at = "done" /\ meter'.cost = meter.cost
          /\ meter'.count = meter.count /\ truth' = truth
          /\ meter'.charged = Micros(meter.cost)
        BY <1>a, <1>11 DEF FinalizeTurn, MeterState
    <2>2. Due' = meter.cost /\ ShownOf' = 0
        BY <2>1 DEF Due, Counting, ShownOf
    <2>3. DueIsUsed' /\ truth'.shown + ShownOf' <= meter'.cost
        BY <1>a, <1>c, <2>1, <2>2 DEF DueIsUsed
    <2> QED
        BY <1>b, <2>0, <2>1, <2>3 DEF Fair, MeterInv, Micros
<1>12. CASE HangUp
    <2>1. meter'.at = "gone" /\ MeterTypeOK'
        BY <1>a, <1>2, <1>12 DEF HangUp, MeterState, MeterNext
    <2> QED
        BY <2>1 DEF Fair, MeterInv
<1> QED
    BY <1>1, <1>3, <1>4, <1>5, <1>6, <1>8, <1>9, <1>10, <1>11, <1>12 DEF MeterNext

(* A turn that is finalised is charged fairly, up to the rounding of one
   micro-dollar: no more than OpenAI counts, no less than what it showed, and
   exactly when every count arrived, at any prices, sizes and number of
   rounds, wherever a stop or a failure falls.                              *)
THEOREM TurnsChargedFairly == MeterSpec => []FairlyCharged
<1>1. MeterInit => MeterInv
    <2> SUFFICES ASSUME MeterInit PROVE MeterInv
        OBVIOUS
    <2>1. /\ past = [count |-> 0, tokens |-> 0] /\ meter = NoMeter /\ truth = NoTruth
        BY DEF MeterInit
    <2>2. meter \in MeterState /\ meter.at = "idle"
        BY <2>1 DEF NoMeter, MeterState
    <2> QED
        BY <2>1, <2>2 DEF MeterInv, MeterTypeOK, Fair, NoTruth
<1>2. MeterInv /\ [MeterNext]_meterVars => MeterInv'
    BY MeterStep
<1>3. MeterInv => FairlyCharged
    <2> SUFFICES ASSUME MeterInv, meter.at = "done"
                 PROVE  /\ 100 * meter.charged - 50 <= truth.used
                        /\ 100 * meter.charged + 50 >= truth.shown
                        /\ truth.certain => 100 * meter.charged + 50 >= truth.used
        BY DEF FairlyCharged
    <2>1. /\ meter.cost \in Nat /\ truth.used \in Nat /\ truth.shown \in Nat
        BY DEF MeterInv, MeterTypeOK, MeterState
    <2>2. meter.charged = Micros(meter.cost) /\ Due = meter.cost /\ ShownOf = 0
        BY DEF MeterInv, Fair, Due, Counting, ShownOf
    <2>3. /\ meter.cost <= truth.used /\ truth.shown + 0 <= meter.cost
          /\ truth.certain => meter.cost >= truth.used
        BY <2>2 DEF MeterInv, Fair, DueIsUsed
    <2>4. ASSUME NEW c \in Nat
          PROVE  /\ Micros(c) \in Nat /\ 100 * Micros(c) - 50 <= c
                 /\ 100 * Micros(c) + 50 >= c
        BY DEF Micros
    <2>5. /\ Micros(meter.cost) \in Nat /\ 100 * Micros(meter.cost) - 50 <= meter.cost
          /\ 100 * Micros(meter.cost) + 50 >= meter.cost
        BY <2>1, <2>4
    <2> QED
        BY <2>1, <2>2, <2>3, <2>5
<1> QED
    BY <1>1, <1>2, <1>3, PTL DEF MeterSpec
=============================================================================
