------------------------ MODULE TradingEngineProofs ------------------------
(***************************************************************************)
(* Proofs about TradingEngine and MCTradingEngine for any number of calls, *)
(* loops, prices and percentages.                                          *)
(***************************************************************************)
EXTENDS MCTradingEngine, TLAPS

-----------------------------------------------------------------------------
(* Lemmas about the operators.                                             *)

\* StrLower has no "long": every level is a short's.
LEMMA LevelsAreShort ==
  ASSUME NEW side \in Sides, NEW p \in Prices, NEW d \in Dists
  PROVE  /\ DynamicLevels(side, p, d).tp = p - 2 * d
         /\ DynamicLevels(side, p, d).sl = p + d
<1>1. StrLower[side] \in {"positionside.long", "positionside.short", "positionside.flat"}
  BY DEF StrLower, Sides
<1>2. ~IsLong(side)
  BY <1>1 DEF IsLong
<1>3. DynamicLevels(side, p, d) = [tp |-> p - 2 * d, sl |-> p + d]
  BY <1>2 DEF DynamicLevels
<1> QED BY <1>3

\* A position that is opened has the entry price, and levels on its two sides or none.
LEMMA OpenedShape ==
  ASSUME NEW side \in {"LONG", "SHORT"}, NEW p \in Prices, pcts \in PctPair,
         NEW q \in Opened(side, p)
  PROVE  /\ q \in Positions
         /\ q.side = side /\ q.entry = p /\ p # 0
         /\ (q.tp = 0 /\ q.sl = 0) \/ (q.tp > 0 /\ q.tp < p /\ p < q.sl)
<1> DEFINE bare == [Flat EXCEPT !.side = side, !.entry = p, !.pct = pcts]
<1>1. p \in Int /\ p > 0 /\ side \in Sides
  BY EngineAssumption DEF Sides
<1>2. Flat \in [side : Sides, entry : Prices \cup {0}, tp : Int, sl : Int, pct : PctPair]
  BY DEF Flat, NoPct, PctPair, Sides
<1>3. /\ bare \in Positions
      /\ bare.side = side /\ bare.entry = p /\ bare.tp = 0 /\ bare.sl = 0
  BY <1>1, <1>2 DEF Positions, Flat
<1> HIDE DEF bare
<1>4. CASE q = bare
  BY <1>1, <1>3, <1>4
<1>5. CASE \E d \in Dists : q = WithLevels(bare, DynamicLevels(side, p, d))
  <2>1. PICK d \in Dists : q = WithLevels(bare, DynamicLevels(side, p, d))
    BY <1>5
  <2>2. d \in Int /\ d > 0 /\ p > 2 * d
    BY EngineAssumption
  <2> DEFINE levels == DynamicLevels(side, p, d)
  <2>3. levels.tp = p - 2 * d /\ levels.sl = p + d
    BY <1>1, LevelsAreShort
  <2>4. levels.tp \in Int /\ levels.sl \in Int
    BY <1>1, <2>2, <2>3
  <2> HIDE DEF levels
  <2>5. q = [bare EXCEPT !.tp = levels.tp, !.sl = levels.sl]
    BY <2>1 DEF WithLevels, levels
  <2>6. /\ q \in Positions /\ q.side = side /\ q.entry = p
        /\ q.tp = levels.tp /\ q.sl = levels.sl
    BY <1>3, <2>4, <2>5 DEF Positions
  <2> QED BY <1>1, <2>2, <2>3, <2>6
<1> QED BY <1>4, <1>5 DEF Opened, bare

\* Merging keeps percentages percentages.
LEMMA MergeType ==
  ASSUME NEW old \in PctPair, NEW new \in [{"tp", "sl"} -> Pcts \cup {0, NotGiven}]
  PROVE  Merge(old, new) \in PctPair
  BY DEF Merge, PctPair

-----------------------------------------------------------------------------
(* The position and the reports about it.                                  *)

PositionOK ==
  /\ pos \in Positions /\ ledger \in Sides /\ silent \in BOOLEAN
  /\ PositionShape /\ LedgerMatches

EngineInv == TypeOK /\ PositionOK

\* _execute_action(CLOSE) leaves nothing open and tells so.
LEMMA CloseKeeps ==
  ASSUME PositionOK, CloseReported
  PROVE  PositionOK'
<1>1. Flat \in Positions /\ Flat.side = "FLAT" /\ Flat.entry = 0 /\ Flat.tp = 0 /\ Flat.sl = 0
  BY DEF Flat, NoPct, Positions, PctPair, Sides
<1>2. pos' = Flat
  BY DEF CloseReported
<1>3. PositionShape'
  BY <1>1, <1>2 DEF PositionShape
<1>4. LedgerMatches' /\ ledger' \in Sides /\ silent' \in BOOLEAN
  BY <1>1, <1>2 DEF LedgerMatches, CloseReported, PositionOK, Sides
<1> QED BY <1>1, <1>2, <1>3, <1>4 DEF PositionOK

\* An open replaces the position and the ledger's side together.
LEMMA OpenKeeps ==
  ASSUME PositionOK, pcts \in PctPair, NEW side \in {"LONG", "SHORT"}, NEW p \in Prices,
         pos' \in Opened(side, p), ledger' = side, silent' = FALSE
  PROVE  PositionOK'
<1>1. /\ pos' \in Positions /\ pos'.side = side /\ pos'.entry = p /\ p # 0
      /\ (pos'.tp = 0 /\ pos'.sl = 0) \/ (pos'.tp > 0 /\ pos'.tp < p /\ p < pos'.sl)
  BY OpenedShape
<1>2. p \in Int /\ p > 0 /\ pos'.tp \in Int /\ pos'.sl \in Int
  BY <1>1, EngineAssumption DEF Positions
<1>3. PositionShape'
  BY <1>1, <1>2 DEF PositionShape
<1>4. LedgerMatches' /\ ledger' \in Sides /\ silent' \in BOOLEAN
  BY <1>1 DEF LedgerMatches, Sides
<1> QED BY <1>1, <1>3, <1>4 DEF PositionOK

\* A signal opens from a flat position, at a price, and closes or holds otherwise.
LEMMA ExecuteKeeps ==
  ASSUME PositionOK, pcts \in PctPair, NEW p, p \in Prices \/ pos.side # "FLAT",
         NEW signal \in {"bull", "bear", "weak"}, Execute(Decide(pos.side, signal), p)
  PROVE  PositionOK'
<1>1. pos.side \in Sides
  BY DEF PositionOK, Positions
<1>2. Decide(pos.side, signal) \in {"OPEN_LONG", "OPEN_SHORT", "CLOSE", "HOLD"}
  BY <1>1 DEF Decide, Sides
<1>3. Decide(pos.side, signal) \in {"OPEN_LONG", "OPEN_SHORT"} => pos.side = "FLAT"
  BY <1>1 DEF Decide, Sides
<1>4. CASE Decide(pos.side, signal) = "OPEN_LONG"
  BY <1>3, <1>4, OpenKeeps DEF Execute
<1>5. CASE Decide(pos.side, signal) = "OPEN_SHORT"
  BY <1>3, <1>5, OpenKeeps DEF Execute
<1>6. CASE Decide(pos.side, signal) = "CLOSE"
  BY <1>6, CloseKeeps DEF Execute
<1>7. CASE Decide(pos.side, signal) = "HOLD"
  BY <1>7 DEF Execute, PositionOK, PositionShape, LedgerMatches
<1> QED BY <1>2, <1>4, <1>5, <1>6, <1>7

\* What keeps the position, keeps it in order.
LEMMA SamePosition ==
  ASSUME PositionOK, UNCHANGED <<pos, ledger, silent>>
  PROVE  PositionOK'
  BY DEF PositionOK, PositionShape, LedgerMatches

\* A supervisor's adjustment moves the levels of an open position around its entry.
LEMMA AdjustKeeps ==
  ASSUME PositionOK, pos.side # "FLAT", pos' \in Adjusted, UNCHANGED <<ledger, silent>>
  PROVE  PositionOK'
<1>1. PICK d \in Dists : pos' = WithLevels(pos, DynamicLevels(pos.side, pos.entry, d))
  BY DEF Adjusted
<1>2. pos \in Positions /\ pos.side \in Sides /\ pos.entry \in Prices
  BY DEF PositionOK, Positions, PositionShape
<1> DEFINE levels == DynamicLevels(pos.side, pos.entry, d)
<1>3. levels.tp = pos.entry - 2 * d /\ levels.sl = pos.entry + d
  BY <1>2, LevelsAreShort
<1>4. d \in Int /\ d > 0 /\ pos.entry \in Int /\ pos.entry > 2 * d
  BY <1>2, EngineAssumption
<1>5. levels.tp \in Int /\ levels.sl \in Int
  BY <1>3, <1>4
<1> HIDE DEF levels
<1>6. pos' = [pos EXCEPT !.tp = levels.tp, !.sl = levels.sl]
  BY <1>1 DEF WithLevels, levels
<1>7. /\ pos' \in Positions /\ pos'.side = pos.side /\ pos'.entry = pos.entry
      /\ pos'.tp = levels.tp /\ pos'.sl = levels.sl
  BY <1>2, <1>5, <1>6 DEF Positions
<1>8. PositionShape'
  BY <1>3, <1>4, <1>7 DEF PositionShape
<1>9. LedgerMatches'
  BY <1>7 DEF LedgerMatches, PositionOK
<1> QED BY <1>7, <1>8, <1>9 DEF PositionOK

-----------------------------------------------------------------------------
(* Every step preserves the invariant.                                     *)

LEMMA EngineInitially == Init => EngineInv
<1> SUFFICES ASSUME Init PROVE EngineInv
  OBVIOUS
<1>1. NoPct \in PctPair
  BY DEF NoPct, PctPair
<1>2. pos \in Positions /\ pos.side = "FLAT" /\ pos.entry = 0 /\ pos.tp = 0 /\ pos.sl = 0
  BY <1>1 DEF Init, Flat, Positions, Sides
<1>3. TypeOK
  BY <1>1, <1>2 DEF Init, TypeOK, Modes, Sides
<1>4. PositionOK
  BY <1>2 DEF Init, PositionOK, PositionShape, LedgerMatches, Sides
<1> QED BY <1>3, <1>4 DEF EngineInv

\* The trading loops.
LEMMA LoopKeeps ==
  ASSUME EngineInv, NEW l \in Loops, Loop(l)
  PROVE  EngineInv'
<1> USE DEF EngineInv, engineVars, callVars
<1>1. pcts \in PctPair
  BY DEF TypeOK
<1>2. ASSUME LoopEnds(l) \/ NoPrice(l) \/ Supervise(l) \/ LoopWakes(l) PROVE EngineInv'
  <2>1. PositionOK'
    BY <1>2, SamePosition DEF LoopEnds, NoPrice, Supervise, LoopWakes
  <2>2. TypeOK'
    BY <1>2, <2>1 DEF LoopEnds, NoPrice, Supervise, LoopWakes, TypeOK, PositionOK
  <2> QED BY <2>1, <2>2
<1>3. ASSUME Tick(l) PROVE EngineInv'
  <2>1. PICK p \in Prices :
          IF CheckTpSl(pos, p) THEN CloseReported /\ lpc' = [lpc EXCEPT ![l] = "sleep"]
          ELSE TradeOnSignal(l, p)
    BY <1>3 DEF Tick
  <2>2. PositionOK'
    BY <1>1, <2>1, CloseKeeps, ExecuteKeeps DEF TradeOnSignal
  <2>3. lpc' = [lpc EXCEPT ![l] = "sleep"] /\ UNCHANGED <<engineVars, supFresh, lprice>>
    BY <1>3, <2>1 DEF Tick, TradeOnSignal
  <2>4. TypeOK'
    BY <2>2, <2>3 DEF TypeOK, PositionOK
  <2> QED BY <2>2, <2>4
<1>4. ASSUME SupervisorCloses(l) \/ SupervisorKeeps(l) \/ SupervisorAdjusts(l) PROVE EngineInv'
  <2>1. PositionOK'
    <3>1. ASSUME SupervisorCloses(l) PROVE PositionOK'
      BY <3>1, CloseKeeps DEF SupervisorCloses
    <3>2. ASSUME SupervisorKeeps(l) PROVE PositionOK'
      BY <1>1, <3>2, SamePosition, ExecuteKeeps DEF SupervisorKeeps, TradeOnSignal
    <3>3. ASSUME SupervisorAdjusts(l) PROVE PositionOK'
      <4>1. CASE pos.side = "FLAT"
        BY <3>3, <4>1, SamePosition DEF SupervisorAdjusts
      <4>2. CASE pos.side # "FLAT"
        BY <3>3, <4>2, CloseKeeps, AdjustKeeps DEF SupervisorAdjusts
      <4> QED BY <4>1, <4>2
    <3> QED BY <1>4, <3>1, <3>2, <3>3
  <2>2. /\ lpc' = [lpc EXCEPT ![l] = "sleep"] /\ lprice' = [lprice EXCEPT ![l] = 0]
        /\ UNCHANGED <<engineVars, supFresh>>
    BY <1>4 DEF SupervisorCloses, SupervisorKeeps, SupervisorAdjusts, TradeOnSignal
  <2>3. TypeOK'
    BY <2>1, <2>2 DEF TypeOK, PositionOK
  <2> QED BY <2>1, <2>3
<1> QED BY <1>2, <1>3, <1>4 DEF Loop

\* /start touches the configuration and the loops.
LEMMA StartKeeps ==
  ASSUME EngineInv, NEW s \in Starts, StartCall(s) \/ StartFails(s) \/ StartDone(s)
  PROVE  EngineInv'
<1> USE DEF EngineInv
<1>1. PositionOK'
  BY SamePosition DEF StartCall, StartFails, StartDone
<1>2. pcts' \in PctPair
  <2>1. CASE StartCall(s)
    BY <2>1 DEF StartCall
  <2>2. CASE StartFails(s)
    BY <2>2 DEF StartFails, TypeOK
  <2>3. CASE StartDone(s)
    <3>1. PICK sl \in Pcts \cup {0} : pcts' = IF pcts.sl = 0 THEN [pcts EXCEPT !.sl = sl] ELSE pcts
      BY <2>3 DEF StartDone
    <3> QED BY <3>1 DEF TypeOK, PctPair
  <2> QED BY <2>1, <2>2, <2>3
<1>3. TypeOK'
  BY <1>1, <1>2 DEF StartCall, StartFails, StartDone, TypeOK, PositionOK
<1> QED BY <1>1, <1>3

\* /stop closes without a report, and remembers it.
LEMMA StopKeeps ==
  ASSUME EngineInv, NEW x \in Stops, StopCall(x) \/ StopDone(x)
  PROVE  EngineInv'
<1> USE DEF EngineInv
<1>1. ASSUME StopCall(x) PROVE EngineInv'
  <2>1. PositionOK'
    BY <1>1, SamePosition DEF StopCall
  <2>2. TypeOK'
    BY <1>1, <2>1 DEF StopCall, TypeOK, PositionOK
  <2> QED BY <2>1, <2>2
<1>2. ASSUME StopDone(x) PROVE EngineInv'
  <2>1. Flat \in Positions /\ Flat.side = "FLAT" /\ Flat.entry = 0 /\ Flat.tp = 0 /\ Flat.sl = 0
    BY DEF Flat, NoPct, Positions, PctPair, Sides
  <2>2. xclose[x] \in BOOLEAN
    BY DEF TypeOK
  <2>3. CASE xclose[x]
    <3>1. pos' = Flat /\ ledger' = ledger /\ silent' = (silent \/ pos.side # "FLAT")
      BY <1>2, <2>3 DEF StopDone
    <3>2. PositionShape'
      BY <2>1, <3>1 DEF PositionShape
    <3>3. LedgerMatches' /\ silent' \in BOOLEAN
      BY <2>1, <3>1 DEF LedgerMatches, PositionOK
    <3>4. PositionOK'
      BY <2>1, <3>1, <3>2, <3>3 DEF PositionOK
    <3>5. TypeOK'
      BY <1>2, <3>4 DEF StopDone, TypeOK, PositionOK
    <3> QED BY <3>4, <3>5
  <2>4. CASE ~xclose[x]
    <3>1. PositionOK'
      BY <1>2, <2>4, SamePosition DEF StopDone, PositionOK
    <3>2. TypeOK'
      BY <1>2, <3>1 DEF StopDone, TypeOK, PositionOK
    <3> QED BY <3>1, <3>2
  <2> QED BY <2>2, <2>3, <2>4
<1> QED BY <1>1, <1>2

\* /config reaches the percentages of an open position and nothing else of it.
LEMMA ConfigKeeps ==
  ASSUME EngineInv, Config
  PROVE  EngineInv'
<1> USE DEF EngineInv
<1>1. PICK c \in [{"tp", "sl"} -> Pcts \cup {0, NotGiven}] :
        /\ pcts' = Merge(pcts, c)
        /\ pos' = IF pos.side = "FLAT" THEN pos ELSE [pos EXCEPT !.pct = Merge(pos.pct, c)]
  BY DEF Config
<1>2. pos \in Positions /\ pos.pct \in PctPair /\ pcts \in PctPair
  BY DEF TypeOK, Positions
<1>3. pcts' \in PctPair /\ Merge(pos.pct, c) \in PctPair
  BY <1>1, <1>2, MergeType
<1>4. /\ pos' \in Positions /\ pos'.side = pos.side /\ pos'.entry = pos.entry
      /\ pos'.tp = pos.tp /\ pos'.sl = pos.sl
  BY <1>1, <1>2, <1>3 DEF Positions
<1>5. PositionOK'
  BY <1>4 DEF PositionOK, PositionShape, LedgerMatches, Config
<1>6. TypeOK'
  BY <1>3, <1>5 DEF Config, TypeOK, PositionOK, callVars
<1> QED BY <1>5, <1>6

\* Any step of the loops and the calls.
LEMMA EngineInvStep == ASSUME EngineInv, [Next]_vars PROVE EngineInv'
<1>1. CASE \E l \in Loops : Loop(l)
  BY <1>1, LoopKeeps
<1>2. CASE \E s \in Starts : StartCall(s) \/ StartFails(s) \/ StartDone(s)
  BY <1>2, StartKeeps
<1>3. CASE StopIdle
  BY <1>3, SamePosition DEF StopIdle, EngineInv, TypeOK, callVars
<1>4. CASE \E x \in Stops : StopCall(x) \/ StopDone(x)
  BY <1>4, StopKeeps
<1>5. CASE Config
  BY <1>5, ConfigKeeps
<1>6. CASE UNCHANGED vars
  BY <1>6, SamePosition DEF vars, callVars, EngineInv, TypeOK
<1> QED BY <1>1, <1>2, <1>3, <1>4, <1>5, <1>6 DEF Next

\* Types and the position, with what makes them inductive.
THEOREM EngineInvariant == Spec => []EngineInv
<1> QED BY EngineInitially, EngineInvStep, PTL DEF Spec

\* The variables of the engine always have their types (app/engine.py).
THEOREM EngineTypeCorrect == Spec => []TypeOK
<1>1. EngineInv => TypeOK
  BY DEF EngineInv
<1> QED BY <1>1, EngineInvariant, PTL

\* Whatever calls, loops and supervisor checks interleave, the paper position is well formed
\* (app/executor/paper.py), its levels on the two sides of its entry.
THEOREM PositionWellFormed == Spec => []PositionShape
<1>1. EngineInv => PositionShape
  BY DEF EngineInv, PositionOK
<1> QED BY <1>1, EngineInvariant, PTL

\* The trade reports of _execute_action add up to the position, but for a close by stop().
THEOREM LedgerKept == Spec => []LedgerMatches
<1>1. EngineInv => LedgerMatches
  BY DEF EngineInv, PositionOK
<1> QED BY <1>1, EngineInvariant, PTL

\* No tick, not even one that slept in its supervisor's awaits, opens a position once
\* stop() has cleared the running flag.
THEOREM NothingOpensStopped == Spec => NoOpenWhenStopped
<1>1. [Next]_vars => [pos.side = "FLAT" /\ pos'.side # "FLAT" => running]_vars
  <2> SUFFICES ASSUME Next, pos.side = "FLAT", pos'.side # "FLAT" PROVE running
    OBVIOUS
  <2>1. Flat.side = "FLAT"
    BY DEF Flat
  <2>2. ASSUME NEW l \in Loops, Loop(l) PROVE running
    <3>1. ~LoopEnds(l) /\ ~SupervisorKeeps(l) /\ ~SupervisorAdjusts(l) /\ ~SupervisorCloses(l)
      BY <2>1 DEF LoopEnds, SupervisorKeeps, SupervisorAdjusts, SupervisorCloses, CloseReported
    <3> QED BY <2>2, <3>1 DEF Loop, NoPrice, Tick, Supervise, LoopWakes
  <2>3. ASSUME NEW s \in Starts, StartCall(s) \/ StartFails(s) \/ StartDone(s) PROVE running
    BY <2>3 DEF StartCall, StartFails, StartDone
  <2>4. ASSUME NEW x \in Stops, StopCall(x) \/ StopDone(x) PROVE running
    BY <2>1, <2>4 DEF StopCall, StopDone
  <2> QED BY <2>2, <2>3, <2>4 DEF Next, StopIdle, Config
<1> QED BY <1>1, PTL DEF Spec, NoOpenWhenStopped

-----------------------------------------------------------------------------
(* A client whose calls do not overlap.                                    *)

NoneActive == \A l \in Loops : ~Active(l)
Planning == \E s \in Starts : spc[s] = "planning"
Waiting == \E x \in Stops : xpc[x] = "waiting"

\* The calls of such a client: one at most is under way, none once a /stop has returned.
CallAlone ==
  /\ \A s, t \in Starts : spc[s] = "planning" /\ spc[t] = "planning" => s = t
  /\ \A x, y \in Stops : xpc[x] = "waiting" /\ xpc[y] = "waiting" => x = y
  /\ ~(Planning /\ Waiting)
  /\ stopped => ~Planning /\ ~Waiting

\* The loop that trades is the one the engine knows, and a /stop waits for it; while no
\* flag says that the engine runs, only such a /stop may still have a loop to wait for.
OneLoopKnown ==
  /\ \A l \in Loops : Active(l) => l = loopTask
  /\ \A x \in Stops : xpc[x] = "waiting" => xloop[x] = loopTask /\ ~running
  /\ Planning => ~running /\ NoneActive
  /\ ~running /\ ~NoneActive => Waiting
  /\ stopped => ~running /\ NoneActive

SessionInv == ~overlapped => CallAlone /\ OneLoopKnown

\* What Overlap finds among the calls.
LEMMA AloneIfNoOverlap == ~Overlap => CallAlone
<1> SUFFICES ASSUME ~Overlap PROVE CallAlone
  OBVIOUS
<1>1. /\ \A s \in Starts : spc[s] = "planning" => <<"start", s>> \in Calls
      /\ \A x \in Stops : xpc[x] = "waiting" => <<"stop", x>> \in Calls
  BY DEF Calls
<1>2. \A c, d \in Calls : c = d
  BY DEF Overlap
<1>3. stopped => Calls = {}
  BY DEF Overlap
<1>4. ASSUME NEW s \in Starts, NEW t \in Starts, spc[s] = "planning", spc[t] = "planning"
      PROVE  s = t
  <2>1. <<"start", s>> = <<"start", t>>
    BY <1>1, <1>2, <1>4
  <2> QED BY <2>1
<1>5. ASSUME NEW x \in Stops, NEW y \in Stops, xpc[x] = "waiting", xpc[y] = "waiting"
      PROVE  x = y
  <2>1. <<"stop", x>> = <<"stop", y>>
    BY <1>1, <1>2, <1>5
  <2> QED BY <2>1
<1>6. ASSUME Planning, Waiting PROVE FALSE
  <2>1. PICK s \in Starts, x \in Stops : spc[s] = "planning" /\ xpc[x] = "waiting"
    BY <1>6 DEF Planning, Waiting
  <2>2. <<"start", s>> = <<"stop", x>>
    BY <1>1, <1>2, <2>1
  <2> QED BY <2>2
<1>7. stopped => ~Planning /\ ~Waiting
  BY <1>1, <1>3 DEF Planning, Waiting
<1> QED BY <1>4, <1>5, <1>6, <1>7 DEF CallAlone

\* A loop's step starts no loop and is no call's.
LEMMA LoopsLeaveSession ==
  ASSUME TypeOK, OneLoopKnown, NEW l \in Loops, Loop(l)
  PROVE  OneLoopKnown'
<1>1. UNCHANGED <<running, loopTask, spc, xpc, xloop, stopped>>
  BY DEF Loop, LoopEnds, NoPrice, Tick, Supervise, SupervisorCloses, SupervisorKeeps,
     SupervisorAdjusts, LoopWakes, engineVars, callVars
<1>2. lpc[l] \in {"top", "supervise", "sleep"}
  BY DEF Loop, LoopEnds, NoPrice, Tick, Supervise, SupervisorCloses, SupervisorKeeps,
     SupervisorAdjusts, LoopWakes
<1>3. \E to \in {"top", "supervise", "sleep", "done"} : lpc' = [lpc EXCEPT ![l] = to]
  BY DEF Loop, LoopEnds, NoPrice, Tick, Supervise, SupervisorCloses, SupervisorKeeps,
     SupervisorAdjusts, LoopWakes, TradeOnSignal
<1>4. \A m \in Loops : Active(m)' => Active(m)
  BY <1>2, <1>3 DEF Active, TypeOK
<1> QED BY <1>1, <1>4 DEF OneLoopKnown, NoneActive, Planning, Waiting

\* The calls that keep the loops as they are.
LEMMA CallsKeepSession ==
  ASSUME TypeOK, OneLoopKnown, CallAlone, CallAlone', UNCHANGED lpc,
         \/ \E s \in Starts : StartCall(s) \/ StartFails(s)
         \/ StopIdle
         \/ \E x \in Stops : StopCall(x) \/ StopDone(x)
         \/ Config
  PROVE  OneLoopKnown'
<1>1. \A m \in Loops : Active(m)' <=> Active(m)
  BY DEF Active
<1>2. ASSUME NEW s \in Starts, StartCall(s) PROVE OneLoopKnown'
  <2>1. spc'[s] = "planning" /\ UNCHANGED <<running, loopTask, xpc, xloop>> /\ ~running /\ ~stopped'
    BY <1>2 DEF StartCall, TypeOK
  <2>2. ~Waiting
    BY <2>1 DEF CallAlone, Planning, Waiting
  <2> QED BY <1>1, <2>1, <2>2 DEF OneLoopKnown, NoneActive, Planning, Waiting
<1>3. ASSUME NEW s \in Starts, StartFails(s) PROVE OneLoopKnown'
  <2>1. UNCHANGED <<running, loopTask, xpc, xloop, stopped>>
    BY <1>3 DEF StartFails
  <2>2. Planning' => Planning
    BY <1>3 DEF StartFails, Planning, TypeOK
  <2> QED BY <1>1, <2>1, <2>2 DEF OneLoopKnown, NoneActive, Waiting
<1>4. ASSUME StopIdle PROVE OneLoopKnown'
  <2>1. UNCHANGED <<running, loopTask, spc, xpc, xloop>> /\ ~running /\ stopped'
    BY <1>4 DEF StopIdle, callVars
  <2>2. ~Waiting
    BY <2>1 DEF CallAlone, Waiting
  <2> QED BY <1>1, <2>1, <2>2 DEF OneLoopKnown, NoneActive, Planning, Waiting
<1>5. ASSUME NEW x \in Stops, StopCall(x) PROVE OneLoopKnown'
  <2>1. /\ running /\ ~running' /\ UNCHANGED <<loopTask, spc, stopped>>
        /\ xpc'[x] = "waiting" /\ xloop'[x] = loopTask
    BY <1>5 DEF StopCall, TypeOK
  <2>2. \A y \in Stops : xpc'[y] = "waiting" => y = x
    BY <2>1 DEF CallAlone
  <2>3. ~Planning' /\ ~stopped /\ Waiting'
    BY <2>1 DEF OneLoopKnown, Planning, Waiting
  <2> QED BY <1>1, <2>1, <2>2, <2>3 DEF OneLoopKnown
<1>6. ASSUME NEW x \in Stops, StopDone(x) PROVE OneLoopKnown'
  <2>1. /\ xpc[x] = "waiting" /\ lpc[xloop[x]] = "done" /\ UNCHANGED <<running, loopTask, spc>>
        /\ \A y \in Stops : xpc'[y] = "waiting" => xpc[y] = "waiting" /\ xloop'[y] = xloop[y]
    BY <1>6 DEF StopDone, TypeOK
  <2>2. xloop[x] = loopTask /\ ~running
    BY <2>1 DEF OneLoopKnown
  <2>3. NoneActive
    BY <2>1, <2>2 DEF OneLoopKnown, NoneActive, Active
  <2> QED BY <1>1, <2>1, <2>2, <2>3 DEF OneLoopKnown, NoneActive, Planning
<1>7. ASSUME Config PROVE OneLoopKnown'
  <2>1. UNCHANGED <<running, loopTask, spc, xpc, xloop, stopped>>
    BY <1>7 DEF Config, callVars
  <2> QED BY <1>1, <2>1 DEF OneLoopKnown, NoneActive, Planning, Waiting
<1> QED BY <1>2, <1>3, <1>4, <1>5, <1>6, <1>7

\* The loop that a /start creates is the only one, since nothing was active under it.
LEMMA StartDoneKeepsSession ==
  ASSUME TypeOK, OneLoopKnown, CallAlone, NEW s \in Starts, StartDone(s)
  PROVE  OneLoopKnown'
<1>1. PICK l \in Loops : lpc[l] = "none" /\ lpc' = [lpc EXCEPT ![l] = "top"] /\ loopTask' = l
  BY DEF StartDone
<1>2. spc[s] = "planning" /\ spc' = [spc EXCEPT ![s] = "idle"] /\ running' /\ UNCHANGED <<xpc, stopped>>
  BY DEF StartDone
<1>3. Planning /\ ~Waiting /\ ~stopped
  BY <1>2 DEF Planning, CallAlone
<1>4. NoneActive
  BY <1>3 DEF OneLoopKnown
<1>5. \A m \in Loops : Active(m)' => m = l
  BY <1>1, <1>4 DEF NoneActive, Active, TypeOK
<1>6. ~Planning'
  <2>1. \A t \in Starts : spc[t] = "planning" => t = s
    BY <1>2 DEF CallAlone
  <2> QED BY <1>2, <2>1 DEF Planning, TypeOK
<1> QED BY <1>1, <1>2, <1>3, <1>5, <1>6 DEF OneLoopKnown, Waiting

\* A step of which no overlap is remembered keeps the session one.
LEMMA SessionInvStep ==
  ASSUME TypeOK, SessionInv, [NextMC]_<<vars, overlapped>>
  PROVE  SessionInv'
<1> SUFFICES ASSUME ~overlapped' PROVE CallAlone' /\ OneLoopKnown'
  BY DEF SessionInv
<1>1. CASE NextMC
  <2>1. ~overlapped /\ ~Overlap' /\ Next
    BY <1>1 DEF NextMC
  <2>2. CallAlone /\ OneLoopKnown
    BY <2>1 DEF SessionInv
  <2>3. CallAlone'
    BY <2>1, AloneIfNoOverlap, PTL
  <2>4. ASSUME NEW l \in Loops, Loop(l) PROVE OneLoopKnown'
    BY <2>2, <2>4, LoopsLeaveSession
  <2>5. ASSUME NEW s \in Starts, StartDone(s) PROVE OneLoopKnown'
    BY <2>2, <2>5, StartDoneKeepsSession
  <2>6. CASE \/ \E s \in Starts : StartCall(s) \/ StartFails(s)
             \/ StopIdle
             \/ \E x \in Stops : StopCall(x) \/ StopDone(x)
             \/ Config
    <3>1. UNCHANGED lpc
      BY <2>6 DEF StartCall, StartFails, StopIdle, StopCall, StopDone, Config
    <3> QED BY <2>2, <2>3, <2>6, <3>1, CallsKeepSession
  <2> QED BY <2>1, <2>3, <2>4, <2>5, <2>6 DEF Next
<1>2. CASE UNCHANGED <<vars, overlapped>>
  BY <1>2 DEF vars, callVars, SessionInv, CallAlone, OneLoopKnown, NoneActive, Active, Planning, Waiting
<1> QED BY <1>1, <1>2

\* Observing the calls does not change the engine.
LEMMA ObservedIsEngine == SpecMC => Spec
<1>1. InitMC => Init
  BY DEF InitMC
<1>2. [NextMC]_<<vars, overlapped>> => [Next]_vars
  BY DEF NextMC
<1> QED BY <1>1, <1>2, PTL DEF SpecMC, Spec

\* A client that lets each call take effect before the next has one loop at a time, and
\* none once a /stop has returned ("Engine already running. Stop it first.", app/engine.py:137).
THEOREM SessionKept == SpecMC => []OneSession
<1>1. InitMC => SessionInv
  BY DEF InitMC, Init, SessionInv, CallAlone, OneLoopKnown, NoneActive, Active, Planning, Waiting
<1>2. TypeOK /\ SessionInv /\ [NextMC]_<<vars, overlapped>> => SessionInv'
  BY SessionInvStep
<1>3. SessionInv => OneSession
  BY DEF SessionInv, OneLoopKnown, NoneActive, OneSession, OneTradingLoop, StoppedStaysStopped
<1> QED BY <1>1, <1>2, <1>3, ObservedIsEngine, EngineTypeCorrect, PTL DEF SpecMC
=============================================================================
