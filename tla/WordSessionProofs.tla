------------------------- MODULE WordSessionProofs -------------------------
(***************************************************************************)
(* Theorems about WordSession, for any players, turn budget and number of  *)
(* requests in flight: the lock makes load, reduce and persist one step,   *)
(* and the session implements TurnOrder.                                   *)
(***************************************************************************)
EXTENDS WordSession, TLAPS

\* Only the holder of the lock is between Enter and Release, and while it has
\* not persisted, its copy is the stored snapshot.
Locked ==
    /\ lock \in Requests \cup {NoRequest}
    /\ pc \in [Requests -> {"free", "checking", "waiting", "loaded", "saved"}]
    /\ DOMAIN loaded = Requests
    /\ \A r \in Requests : pc[r] \in {"loaded", "saved"} => lock = r
    /\ NoLostUpdate

LEMMA LockedInvariant == Spec => []Locked
<1>1. Init => Locked
  BY DEF Init, Locked, NoLostUpdate
<1>2. Locked /\ [Next]_vars => Locked'
  <2> SUFFICES ASSUME Locked, [Next]_vars
               PROVE  Locked'
    OBVIOUS
  <2> USE RequestAssumption DEF Locked, NoLostUpdate, Arrives, Release
  <2>1. ASSUME NEW r \in Requests, NEW p \in PlayerSet, NEW move \in Moves, Act(r, p, move)
        PROVE  Locked'
    BY <2>1 DEF Act
  <2>2. ASSUME NEW r \in Requests, NEW p \in PlayerSet, Drop(r, p)
        PROVE  Locked'
    BY <2>2 DEF Drop
  <2>3. ASSUME NEW r \in Requests, Checked(r)
        PROVE  Locked'
    BY <2>3 DEF Checked
  <2>4. ASSUME NEW r \in Requests, NEW p \in PlayerSet, Rejoin(r, p)
        PROVE  Locked'
    BY <2>4 DEF Rejoin
  <2>5. ASSUME NEW r \in Requests, TimerFires(r)
        PROVE  Locked'
    BY <2>5 DEF TimerFires
  <2>6. ASSUME NEW r \in Requests, Enter(r)
        PROVE  Locked'
    BY <2>6 DEF Enter
  <2>7. ASSUME NEW r \in Requests, Refuse(r)
        PROVE  Locked'
    BY <2>7 DEF Refuse
  <2>8. ASSUME NEW r \in Requests, Persist(r)
        PROVE  Locked'
    BY <2>8 DEF Persist
  <2>9. ASSUME NEW r \in Requests, Settle(r)
        PROVE  Locked'
    BY <2>9 DEF Settle
  <2>10. CASE UNCHANGED vars
    BY <2>10 DEF vars, requests
  <2> QED
    BY <2>1, <2>2, <2>3, <2>4, <2>5, <2>6, <2>7, <2>8, <2>9, <2>10 DEF Next
<1> QED
  BY <1>1, <1>2, PTL DEF Spec

\* No update is lost, however requests interleave.
THEOREM NoLostUpdateCorrect == Spec => []NoLostUpdate
<1>1. Locked => NoLostUpdate
  BY DEF Locked
<1> QED
  BY <1>1, LockedInvariant, PTL

\* The stored snapshot stays a snapshot: what is stored has always been the
\* outcome of a reducer that accepted its operation.
Snapshots == [turn : Nat \ {0}, started : BOOLEAN, ticking : BOOLEAN,
              banked : BOOLEAN, live : BOOLEAN]

StoredTyped ==
    /\ stored \in Snapshots
    /\ Over(stored) => ~stored.started

\* Which of the reducer's outcomes an operation has.
LEMMA Outcomes ==
    ASSUME StoredTyped, NEW o, Accepts(o, stored), NEW s, s = Reduce(o, stored)
    PROVE  \/ ~stored.started /\ ~Over(stored) /\ s = TurnBegun(stored)
           \/ InTurn(stored) /\ stored.ticking /\ s = TurnFrozen(stored)
           \/ InTurn(stored) /\ s = TurnThawed(stored)
           \/ InTurn(stored) /\ s = TurnOver(stored)
           \/ s = stored
  BY DEF Accepts, Reduce, EndsTurn, WaitingOn

\* What each outcome leaves in the fields TurnOrder speaks about.
LEMMA Fields ==
    ASSUME NEW s \in Snapshots
    PROVE  /\ TurnBegun(s) \in Snapshots
           /\ TurnBegun(s).turn = s.turn /\ TurnBegun(s).started /\ TurnBegun(s).ticking
           /\ TurnFrozen(s) \in Snapshots
           /\ TurnFrozen(s).turn = s.turn /\ TurnFrozen(s).started = s.started
           /\ ~TurnFrozen(s).ticking
           /\ TurnThawed(s) \in Snapshots
           /\ TurnThawed(s).turn = s.turn /\ TurnThawed(s).started = s.started
           /\ TurnThawed(s).ticking
           /\ TurnOver(s) \in Snapshots
           /\ TurnOver(s).turn = s.turn + 1 /\ ~TurnOver(s).started
<1>1. /\ TurnBegun(s) \in Snapshots
      /\ TurnBegun(s).turn = s.turn /\ TurnBegun(s).started /\ TurnBegun(s).ticking
  BY Zenon DEF Snapshots, TurnBegun
<1>2. /\ TurnFrozen(s) \in Snapshots
      /\ TurnFrozen(s).turn = s.turn /\ TurnFrozen(s).started = s.started
      /\ ~TurnFrozen(s).ticking
  BY Zenon DEF Snapshots, TurnFrozen
<1>3. /\ TurnThawed(s) \in Snapshots
      /\ TurnThawed(s).turn = s.turn /\ TurnThawed(s).started = s.started
      /\ TurnThawed(s).ticking
  BY Zenon DEF Snapshots, TurnThawed
<1>4. s.turn + 1 \in Nat \ {0}
  BY DEF Snapshots
<1>5. /\ TurnOver(s) \in Snapshots
      /\ TurnOver(s).turn = s.turn + 1 /\ ~TurnOver(s).started
  BY <1>4, Zenon DEF Snapshots, TurnOver
<1> QED
  BY <1>1, <1>2, <1>3, <1>5

LEMMA StoredTypedInvariant == Spec => []StoredTyped
<1>1. Init => StoredTyped
  BY SessionAssumption DEF Init, StoredTyped, Snapshots, FirstSnapshot, Over
<1>2. Locked /\ StoredTyped /\ [Next]_vars => StoredTyped'
  <2> SUFFICES ASSUME Locked, StoredTyped, [Next]_vars
               PROVE  StoredTyped'
    OBVIOUS
  <2>1. ASSUME NEW r \in Requests, Persist(r)
        PROVE  StoredTyped'
    <3>1. loaded[r] = stored
      BY <2>1 DEF Persist, Locked, NoLostUpdate
    <3>2. Accepts(op[r], stored) /\ stored' = Reduce(op[r], stored)
      BY <2>1, <3>1 DEF Persist
    <3>3. stored \in Snapshots /\ (Over(stored) => ~stored.started)
      BY DEF StoredTyped
    <3>4. \/ ~stored.started /\ ~Over(stored) /\ stored' = TurnBegun(stored)
          \/ InTurn(stored) /\ stored.ticking /\ stored' = TurnFrozen(stored)
          \/ InTurn(stored) /\ stored' = TurnThawed(stored)
          \/ InTurn(stored) /\ stored' = TurnOver(stored)
          \/ stored' = stored
      BY <3>2, Outcomes
    <3> QED
      BY <3>3, <3>4, Fields DEF StoredTyped, Over, InTurn
  <2>2. ASSUME NEW r \in Requests, Settle(r)
        PROVE  StoredTyped'
    <3>1. stored' = [stored EXCEPT !.live = FALSE] \/ stored' = stored
      BY <2>2 DEF Settle
    <3>2. ASSUME NEW s \in Snapshots
          PROVE  /\ [s EXCEPT !.live = FALSE] \in Snapshots
                 /\ [s EXCEPT !.live = FALSE].turn = s.turn
                 /\ [s EXCEPT !.live = FALSE].started = s.started
      BY Zenon DEF Snapshots
    <3> QED
      BY <3>1, <3>2 DEF StoredTyped, Over
  <2>3. ASSUME UNCHANGED stored
        PROVE  StoredTyped'
    BY <2>3 DEF StoredTyped, Over
  <2> QED
    BY <2>1, <2>2, <2>3
    DEF Next, Act, Drop, Checked, Rejoin, TimerFires, Enter, Refuse, vars
<1> QED
  BY <1>1, <1>2, LockedInvariant, PTL DEF Spec

\* An accepted operation takes one step of TurnOrder, or none.
LEMMA ReduceIsAStep ==
    ASSUME StoredTyped, NEW o, Accepts(o, stored), stored' = Reduce(o, stored)
    PROVE  [Order!Next]_Order!vars
<1>1. stored \in Snapshots
  BY DEF StoredTyped
<1>2. CASE ~stored.started /\ ~Over(stored) /\ stored' = TurnBegun(stored)
  <2>1. Phase(stored) = "waiting" /\ Phase(stored') = "running" /\ stored'.turn = stored.turn
    BY <1>1, <1>2, Fields DEF Phase, Over
  <2> QED
    BY <2>1 DEF Order!Next, Order!Begin
<1>3. CASE InTurn(stored) /\ stored.ticking /\ stored' = TurnFrozen(stored)
  <2>1. Phase(stored) = "running" /\ Phase(stored') = "frozen" /\ stored'.turn = stored.turn
    BY <1>1, <1>3, Fields DEF Phase, InTurn, Over
  <2> QED
    BY <2>1 DEF Order!Next, Order!Freeze
<1>4. CASE InTurn(stored) /\ stored' = TurnThawed(stored)
  <2>1. /\ Phase(stored) \in {"running", "frozen"}
        /\ Phase(stored') = "running" /\ stored'.turn = stored.turn
    BY <1>1, <1>4, Fields DEF Phase, InTurn, Over
  <2> QED
    BY <2>1 DEF Order!Next, Order!Thaw, Order!vars
<1>5. CASE InTurn(stored) /\ stored' = TurnOver(stored)
  <2>1. /\ Phase(stored) \in {"running", "frozen"}
        /\ stored'.turn = stored.turn + 1
        /\ Phase(stored') = IF stored'.turn > TotalTurns THEN "over" ELSE "waiting"
    BY <1>1, <1>5, Fields DEF Phase, InTurn, Over
  <2> QED
    BY <2>1 DEF Order!Next, Order!End
<1>6. CASE stored' = stored
  BY <1>6 DEF Order!vars
<1> QED
  BY <1>2, <1>3, <1>4, <1>5, <1>6, Outcomes

\* However actions, timers, disconnects and reconnects interleave, the players
\* see one turn after the other (TurnOrder).
THEOREM TurnOrderImplemented == Spec => ImplementsTurnOrder
<1>1. Init => Order!Init
  BY SessionAssumption DEF Init, FirstSnapshot, Order!Init, Phase, Over
<1>2. Locked /\ StoredTyped /\ [Next]_vars => [Order!Next]_Order!vars
  <2> SUFFICES ASSUME Locked, StoredTyped, [Next]_vars
               PROVE  [Order!Next]_Order!vars
    OBVIOUS
  <2>1. ASSUME NEW r \in Requests, Persist(r)
        PROVE  [Order!Next]_Order!vars
    <3>1. loaded[r] = stored
      BY <2>1 DEF Persist, Locked, NoLostUpdate
    <3> QED
      BY <2>1, <3>1, ReduceIsAStep DEF Persist
  <2>2. ASSUME NEW r \in Requests, Settle(r)
        PROVE  [Order!Next]_Order!vars
    <3>1. stored'.turn = stored.turn /\ Phase(stored') = Phase(stored)
      <4>1. stored' = [stored EXCEPT !.live = FALSE] \/ stored' = stored
        BY <2>2 DEF Settle
      <4> QED
        BY <4>1 DEF Phase, Over, StoredTyped, Snapshots
    <3> QED
      BY <3>1 DEF Order!vars
  <2>3. ASSUME UNCHANGED stored
        PROVE  [Order!Next]_Order!vars
    BY <2>3 DEF Order!vars, Phase, Over
  <2> QED
    BY <2>1, <2>2, <2>3
    DEF Next, Act, Drop, Checked, Rejoin, TimerFires, Enter, Refuse, vars
<1> QED
  BY <1>1, <1>2, LockedInvariant, StoredTypedInvariant, PTL
  DEF Spec, ImplementsTurnOrder, Order!Spec

-----------------------------------------------------------------------------
\* A clock runs only in a turn that has begun and is not the last one's end,
\* and a finished session has none.
Sane(s) ==
    /\ s \in Snapshots
    /\ s.ticking => InTurn(s)
    /\ ~s.live => Over(s)

\* What a request that has persisted still has to settle, and what it knows:
\* the stored snapshot is its outcome, and a timer that is armed is the one of
\* the snapshot it loaded.
Pending(r) ==
    /\ Sane(loaded[r])
    /\ loaded[r].live /\ ~Over(loaded[r])
    /\ Accepts(op[r], loaded[r])
    /\ stored = Reduce(op[r], loaded[r])
    /\ timer # NoTimer => loaded[r].ticking /\ timer = loaded[r].turn

\* TimersMatchTurns and FinishedOnce with what makes them inductive.
Timed ==
    /\ DOMAIN op = Requests
    /\ rows \in Nat
    /\ Sane(stored)
    /\ \A r \in Requests : Settling(r) => Pending(r) /\ stored.live
    /\ TimersMatchTurns
    /\ FinishedOnce

\* What the reducer's outcomes mean for the clock and for the last turn.
LEMMA ReduceClock ==
    ASSUME NEW s \in Snapshots, NEW o, Sane(s), s.live, ~Over(s), Accepts(o, s),
           NEW n, n = Reduce(o, s)
    PROVE  /\ Sane(n) /\ n.live
           /\ EndsGame(o, s) <=> Over(n)
           /\ SetsTimer(o, s) => n.ticking /\ n.turn = s.turn
           /\ ~SetsTimer(o, s) /\ ClearsTimer(o, s) => ~n.ticking
           /\ ~SetsTimer(o, s) /\ ~ClearsTimer(o, s) => n = s
           /\ n.ticking /\ ~SetsTimer(o, s) => n = s /\ o.kind # "timer"
<1>1. /\ TurnBegun(s) \in Snapshots /\ TurnBegun(s).live
      /\ TurnFrozen(s) \in Snapshots /\ TurnFrozen(s).live
      /\ TurnThawed(s) \in Snapshots /\ TurnThawed(s).live
      /\ TurnOver(s) \in Snapshots /\ TurnOver(s).live /\ ~TurnOver(s).ticking
  <2>1. s.turn + 1 \in Nat \ {0}
    BY DEF Snapshots
  <2>2. /\ TurnBegun(s) \in Snapshots /\ TurnBegun(s).live
    BY Zenon DEF Snapshots, TurnBegun
  <2>3. TurnFrozen(s) \in Snapshots /\ TurnFrozen(s).live
    BY Zenon DEF Snapshots, TurnFrozen
  <2>4. TurnThawed(s) \in Snapshots /\ TurnThawed(s).live
    BY Zenon DEF Snapshots, TurnThawed
  <2>5. TurnOver(s) \in Snapshots /\ TurnOver(s).live /\ ~TurnOver(s).ticking
    BY <2>1, Zenon DEF Snapshots, TurnOver
  <2> QED
    BY <2>2, <2>3, <2>4, <2>5
<1>2. CASE o.kind = "start_round"
  <2>1. Reduce(o, s) = TurnBegun(s) /\ ~EndsGame(o, s) /\ SetsTimer(o, s)
    BY <1>2 DEF Reduce, EndsGame, EndsTurn, SetsTimer
  <2>2. Sane(TurnBegun(s)) /\ ~Over(TurnBegun(s))
    BY <1>1, Fields DEF Sane, InTurn, Over
  <2>3. n = TurnBegun(s)
    BY <2>1
  <2>4. n.live /\ n.ticking /\ n.turn = s.turn
    BY <1>1, <2>3, Fields
  <2>5. Sane(n) /\ ~Over(n)
    BY <2>2, <2>3, Zenon
  <2> QED
    BY <2>1, <2>4, <2>5, Zenon
<1>3. CASE o.kind = "pause"
  <2>1. ~EndsGame(o, s) /\ ~SetsTimer(o, s) /\ ClearsTimer(o, s)
    BY <1>3 DEF EndsGame, EndsTurn, SetsTimer, ClearsTimer
  <2>2. Reduce(o, s) = TurnFrozen(s) \/ (~s.ticking /\ Reduce(o, s) = s)
    BY <1>3 DEF Reduce, EndsTurn
  <2>3. Sane(TurnFrozen(s)) /\ ~Over(TurnFrozen(s))
    BY <1>1, Fields DEF Sane, InTurn, Over
  <2>4. n.live /\ ~n.ticking
    BY <1>1, <2>2, Fields
  <2>5. Sane(n) /\ ~Over(n)
    BY <2>2, <2>3, Zenon
  <2> QED
    BY <2>1, <2>4, <2>5, Zenon
<1>4. CASE o.kind = "resume"
  <2>1. ~EndsGame(o, s) /\ ~ClearsTimer(o, s)
    BY <1>4 DEF EndsGame, EndsTurn, ClearsTimer
  <2>2. \/ s.banked /\ SetsTimer(o, s) /\ Reduce(o, s) = TurnThawed(s)
        \/ ~s.banked /\ ~SetsTimer(o, s) /\ Reduce(o, s) = s
    BY <1>4 DEF Reduce, EndsTurn, SetsTimer
  <2>3. InTurn(s)
    BY <1>4 DEF Accepts, WaitingOn
  <2>4. Sane(TurnThawed(s)) /\ ~Over(TurnThawed(s))
    BY <1>1, <2>3, Fields DEF Sane, InTurn, Over
  <2>5. n.live /\ (SetsTimer(o, s) => n.ticking /\ n.turn = s.turn)
    BY <1>1, <2>2, Fields
  <2>6. Sane(n) /\ ~Over(n)
    BY <2>2, <2>4, Zenon
  <2>7. ~SetsTimer(o, s) => n = s
    BY <2>2
  <2> QED
    BY <1>4, <2>1, <2>5, <2>6, <2>7, Zenon
<1>5. CASE o.kind \in {"end_round", "timer"} /\ InTurn(s)
  <2>1. Reduce(o, s) = TurnOver(s) /\ ~SetsTimer(o, s) /\ ClearsTimer(o, s)
        /\ (EndsGame(o, s) <=> Over(TurnOver(s)))
    BY <1>5 DEF Reduce, EndsGame, EndsTurn, SetsTimer, ClearsTimer
  <2> QED
    BY <1>1, <2>1 DEF Sane, InTurn
<1>6. CASE o.kind = "timer" /\ ~InTurn(s)
  <2>1. Reduce(o, s) = s /\ ~SetsTimer(o, s) /\ ~EndsGame(o, s)
    BY <1>6 DEF Reduce, EndsGame, EndsTurn, SetsTimer
  <2> QED
    BY <1>6, <2>1 DEF Sane
<1>7. o.kind = "end_round" => InTurn(s)
  BY DEF Accepts, WaitingOn
<1>8. o.kind \in {"start_round", "pause", "resume", "end_round", "timer"}
  BY DEF Accepts
<1> QED
  BY <1>2, <1>3, <1>4, <1>5, <1>6, <1>7, <1>8

\* A new request, and one whose check ends, leave the clock and the timer.
LEMMA OnlyMoves ==
    ASSUME Locked, Timed, NEW r \in Requests, pc[r] \in {"free", "checking"},
           NEW step \in {"free", "checking", "waiting"}, pc' = [pc EXCEPT ![r] = step],
           NEW o, op' = [op EXCEPT ![r] = o],
           UNCHANGED <<stored, loaded, rows>>,
           timer' = timer \/ (timer' = NoTimer /\ Fired(r)')
    PROVE  Timed'
<1> USE DEF Locked, Timed
<1>1. ASSUME NEW q \in Requests
      PROVE  /\ Settling(q)' <=> Settling(q)
             /\ Fired(q) => Fired(q)'
             /\ q # r => op'[q] = op[q]
  BY DEF Settling, Fired
<1>2. ASSUME NEW q \in Requests, Settling(q)'
      PROVE  Pending(q)' /\ stored'.live
  <2>1. q # r /\ Settling(q) /\ op'[q] = op[q] /\ Pending(q)
    BY <1>1, <1>2 DEF Settling
  <2> QED
    BY <2>1 DEF Pending
<1>3. RunningTurnHasAnEnd'
  <2>1. SUFFICES ASSUME stored'.ticking
                 PROVE  \/ timer' = stored'.turn
                        \/ \E q \in Requests : Fired(q)' \/ (Settling(q) /\ SetsTimer(op[q], loaded[q]))'
    BY DEF RunningTurnHasAnEnd
  <2>2. stored.ticking
    BY <2>1
  <2>3. \/ timer = stored.turn
        \/ \E q \in Requests : Fired(q) \/ (Settling(q) /\ SetsTimer(op[q], loaded[q]))
    BY <2>2 DEF TimersMatchTurns, RunningTurnHasAnEnd
  <2>4. ASSUME NEW q \in Requests, Settling(q)
        PROVE  q # r /\ op'[q] = op[q]
    BY <1>1, <2>4 DEF Settling
  <2> QED
    BY <1>1, <2>3, <2>4
<1>4. NoTimerWithoutTurn'
  BY <1>1 DEF TimersMatchTurns, NoTimerWithoutTurn, Settled
<1>5. FinishedOnce'
  BY <1>1 DEF FinishedOnce, Settled
<1>6. Sane(stored)' /\ DOMAIN op' = Requests /\ rows' \in Nat
  OBVIOUS
<1> QED
  BY <1>2, <1>3, <1>4, <1>5, <1>6 DEF TimersMatchTurns

\* While a request has the lock and has not persisted, nobody is settling.
LEMMA NobodySettles ==
    ASSUME Locked, NEW r \in Requests, pc[r] = "loaded" \/ lock = NoRequest
    PROVE  Settled
  BY RequestAssumption DEF Locked, Settled, Settling

LEMMA PersistTimed ==
    ASSUME Locked, Timed, NEW r \in Requests, Persist(r)
    PROVE  Timed'
<1> USE DEF Locked, Timed
<1>1. Settled /\ loaded[r] = stored
  BY NobodySettles DEF Persist, NoLostUpdate
<1>2. /\ Accepts(op[r], stored) /\ stored' = Reduce(op[r], stored)
      /\ stored.live /\ ~Over(stored) /\ stored \in Snapshots
  BY <1>1 DEF Persist, FinishedOnce, Sane
<1>3. /\ Sane(stored') /\ stored'.live
      /\ stored'.ticking /\ ~SetsTimer(op[r], stored) =>
            stored' = stored /\ op[r].kind # "timer"
  BY <1>2, ReduceClock
<1>4. /\ pc' = [pc EXCEPT ![r] = "saved"] /\ pc[r] = "loaded"
      /\ UNCHANGED <<timer, op, loaded, rows>>
  BY DEF Persist
<1>5. Pending(r)'
  <2>1. timer # NoTimer => stored.ticking /\ timer = stored.turn
    BY <1>1 DEF TimersMatchTurns, NoTimerWithoutTurn
  <2> QED
    BY <1>1, <1>2, <1>4, <2>1 DEF Pending
<1>6. \A q \in Requests : Settling(q)' <=> q = r
  BY <1>1, <1>4 DEF Settled, Settling
<1>7. RunningTurnHasAnEnd'
  <2>1. CASE SetsTimer(op[r], loaded[r])
    BY <1>4, <1>6, <2>1 DEF RunningTurnHasAnEnd
  <2>2. CASE ~SetsTimer(op[r], loaded[r]) /\ stored'.ticking
    <3>1. stored' = stored /\ op[r].kind # "timer"
      BY <1>1, <1>3, <2>2
    <3>2. timer = stored.turn \/ \E q \in Requests : Fired(q)
      BY <1>1, <2>2, <3>1 DEF TimersMatchTurns, RunningTurnHasAnEnd, Settled
    <3>3. \A q \in Requests : Fired(q) => Fired(q)'
      BY <1>4, <3>1 DEF Fired
    <3> QED
      BY <1>4, <3>1, <3>2, <3>3 DEF RunningTurnHasAnEnd
  <2> QED
    BY <2>1, <2>2 DEF RunningTurnHasAnEnd
<1>8. NoTimerWithoutTurn' /\ FinishedOnce'
  <2>1. rows = 0
    BY <1>2 DEF FinishedOnce
  <2>2. ~Settled'
    BY <1>6 DEF Settled
  <2> QED
    BY <1>3, <1>4, <2>1, <2>2 DEF NoTimerWithoutTurn, FinishedOnce
<1> QED
  BY <1>3, <1>4, <1>5, <1>6, <1>7, <1>8 DEF TimersMatchTurns

LEMMA SettleTimed ==
    ASSUME Locked, Timed, NEW r \in Requests, Settle(r)
    PROVE  Timed'
<1> USE DEF Locked, Timed
<1>1. /\ Settling(r) /\ Pending(r) /\ stored.live /\ rows = 0
      /\ loaded[r] \in Snapshots /\ stored \in Snapshots
  BY DEF Settle, Settling, FinishedOnce, Pending, Sane
<1>2. /\ EndsGame(op[r], loaded[r]) <=> Over(stored)
      /\ SetsTimer(op[r], loaded[r]) => stored.ticking /\ stored.turn = loaded[r].turn
      /\ ~SetsTimer(op[r], loaded[r]) /\ ClearsTimer(op[r], loaded[r]) => ~stored.ticking
      /\ ~SetsTimer(op[r], loaded[r]) /\ ~ClearsTimer(op[r], loaded[r]) => stored = loaded[r]
  BY <1>1, ReduceClock DEF Pending
<1>3. \A q \in Requests : pc'[q] # "saved" /\ (Settling(q) => q = r)
  BY DEF Settle, Release, Settling
<1>4. Settled' /\ DOMAIN op' = Requests
  BY <1>3 DEF Settle, Release, Settled, Settling
<1>5. \A q \in Requests : Fired(q) => Fired(q)'
  BY <1>1 DEF Settle, Release, Fired, Settling
<1>6. \/ /\ Over(stored) /\ stored' = [stored EXCEPT !.live = FALSE] /\ rows' = 1
         /\ timer' = NoTimer
      \/ /\ ~Over(stored) /\ stored' = stored /\ rows' = 0
         /\ \/ stored.ticking /\ timer' = stored.turn
            \/ ~stored.ticking /\ timer' = NoTimer
            \/ timer' = timer /\ stored = loaded[r] /\ ~SetsTimer(op[r], loaded[r])
  <2>1. EndsGame(op[r], loaded[r]) =>
           ClearsTimer(op[r], loaded[r]) /\ ~SetsTimer(op[r], loaded[r])
    BY DEF EndsGame, EndsTurn, ClearsTimer, SetsTimer
  <2>2. CASE EndsGame(op[r], loaded[r])
    BY <1>1, <1>2, <2>1, <2>2 DEF Settle
  <2>3. CASE ~EndsGame(op[r], loaded[r])
    <3>1. stored' = stored /\ rows' = rows
      BY <2>3 DEF Settle
    <3>2. /\ SetsTimer(op[r], loaded[r]) => timer' = loaded[r].turn
          /\ ~SetsTimer(op[r], loaded[r]) /\ ClearsTimer(op[r], loaded[r]) => timer' = NoTimer
          /\ ~SetsTimer(op[r], loaded[r]) /\ ~ClearsTimer(op[r], loaded[r]) => timer' = timer
      BY DEF Settle
    <3> QED
      BY <1>1, <1>2, <2>3, <3>1, <3>2
  <2> QED
    BY <2>2, <2>3
<1>7. CASE Over(stored) /\ stored' = [stored EXCEPT !.live = FALSE] /\ rows' = 1
           /\ timer' = NoTimer
  <2>1. /\ [stored EXCEPT !.live = FALSE] \in Snapshots
        /\ ~[stored EXCEPT !.live = FALSE].live
        /\ [stored EXCEPT !.live = FALSE].ticking => stored.ticking
        /\ [stored EXCEPT !.live = FALSE].turn = stored.turn
    BY <1>1, Zenon DEF Snapshots
  <2>2. ~stored.ticking
    BY <1>7 DEF Sane, InTurn
  <2>3. ~stored'.ticking /\ ~stored'.live /\ Over(stored') /\ stored' \in Snapshots
    BY <1>7, <2>1, <2>2 DEF Over
  <2>4. Sane(stored')
    BY <2>3 DEF Sane
  <2>5. RunningTurnHasAnEnd' /\ NoTimerWithoutTurn'
    BY <1>7, <2>3 DEF RunningTurnHasAnEnd, NoTimerWithoutTurn
  <2>6. FinishedOnce'
    BY <1>7, <2>3 DEF FinishedOnce
  <2> QED
    BY <1>3, <1>4, <1>7, <2>4, <2>5, <2>6 DEF TimersMatchTurns, Settling
<1>8. CASE /\ ~Over(stored) /\ stored' = stored /\ rows' = 0
           /\ \/ stored.ticking /\ timer' = stored.turn
              \/ ~stored.ticking /\ timer' = NoTimer
              \/ timer' = timer /\ stored = loaded[r] /\ ~SetsTimer(op[r], loaded[r])
  <2>1. timer' # NoTimer => stored.ticking /\ timer' = stored.turn
    BY <1>1, <1>8 DEF Pending
  <2>2. stored.ticking => timer' = stored.turn \/ \E q \in Requests : Fired(q)
    BY <1>3, <1>8 DEF TimersMatchTurns, RunningTurnHasAnEnd
  <2>3. RunningTurnHasAnEnd'
    BY <1>5, <1>8, <2>2 DEF RunningTurnHasAnEnd
  <2>4. NoTimerWithoutTurn'
    BY <1>8, <2>1 DEF NoTimerWithoutTurn
  <2>5. FinishedOnce' /\ Sane(stored')
    BY <1>1, <1>8 DEF FinishedOnce, Over
  <2> QED
    BY <1>3, <1>4, <1>8, <2>3, <2>4, <2>5 DEF TimersMatchTurns, Settling
<1> QED
  BY <1>6, <1>7, <1>8

LEMMA EnterTimed ==
    ASSUME Locked, Timed, NEW r \in Requests, Enter(r)
    PROVE  Timed'
<1> USE DEF Locked, Timed
<1>1. Settled /\ Settled' /\ \A q \in Requests : ~Settling(q)'
  BY NobodySettles DEF Enter, Settled, Settling
<1>2. \A q \in Requests : Fired(q) => Fired(q)'
  BY DEF Enter, Fired
<1>3. RunningTurnHasAnEnd'
  BY <1>1, <1>2 DEF Enter, TimersMatchTurns, RunningTurnHasAnEnd, Settled
<1>4. NoTimerWithoutTurn' /\ FinishedOnce'
  BY <1>1 DEF Enter, TimersMatchTurns, NoTimerWithoutTurn, FinishedOnce
<1> QED
  BY <1>1, <1>3, <1>4 DEF Enter, TimersMatchTurns

\* A timer whose callback is refused found the game over: no clock runs.
LEMMA RefuseTimed ==
    ASSUME Locked, Timed, NEW r \in Requests, Refuse(r)
    PROVE  Timed'
<1> USE DEF Locked, Timed
<1>1. Settled /\ loaded[r] = stored
  BY NobodySettles DEF Refuse, NoLostUpdate
<1>2. Settled' /\ (\A q \in Requests : ~Settling(q)') /\ DOMAIN op' = Requests
      /\ UNCHANGED <<stored, timer, rows>>
  BY <1>1 DEF Refuse, Release, Settled, Settling
<1>3. \A q \in Requests : q # r /\ Fired(q) => Fired(q)'
  BY DEF Refuse, Release, Fired
<1>4. ASSUME stored.ticking
      PROVE  ~Fired(r)
  <2>1. stored.live
    BY <1>4 DEF Sane, InTurn
  <2> QED
    BY <1>1, <2>1 DEF Refuse, Fired, Accepts
<1>5. RunningTurnHasAnEnd'
  <2>1. SUFFICES ASSUME stored.ticking, timer # stored.turn
                 PROVE  \E q \in Requests : Fired(q)'
    BY <1>2 DEF RunningTurnHasAnEnd
  <2>2. \E q \in Requests : Fired(q)
    BY <1>1, <2>1 DEF TimersMatchTurns, RunningTurnHasAnEnd, Settled
  <2> QED
    BY <1>3, <1>4, <2>1, <2>2
<1>6. NoTimerWithoutTurn' /\ FinishedOnce'
  BY <1>1, <1>2 DEF TimersMatchTurns, NoTimerWithoutTurn, FinishedOnce
<1> QED
  BY <1>2, <1>5, <1>6 DEF TimersMatchTurns

LEMMA TimedInvariant == Spec => []Timed
<1>1. Init => Timed
  <2>1. ASSUME Init
        PROVE  /\ stored \in Snapshots /\ ~stored.ticking /\ stored.live /\ ~Over(stored)
               /\ \A r \in Requests : ~Settling(r)
    BY <2>1, SessionAssumption DEF Init, FirstSnapshot, Snapshots, Over, Settling
  <2> QED
    BY <2>1
    DEF Init, Timed, Sane, TimersMatchTurns, RunningTurnHasAnEnd, NoTimerWithoutTurn, FinishedOnce
<1>2. Locked /\ Timed /\ [Next]_vars => Timed'
  <2> SUFFICES ASSUME Locked, Timed, [Next]_vars
               PROVE  Timed'
    OBVIOUS
  <2>1. ASSUME NEW r \in Requests, NEW p \in PlayerSet, NEW move \in Moves, Act(r, p, move)
        PROVE  Timed'
    BY <2>1, OnlyMoves DEF Act, Arrives
  <2>2. ASSUME NEW r \in Requests, NEW p \in PlayerSet, Drop(r, p)
        PROVE  Timed'
    BY <2>2, OnlyMoves DEF Drop, Arrives
  <2>3. ASSUME NEW r \in Requests, Checked(r)
        PROVE  Timed'
    <3>1. /\ pc' = [pc EXCEPT ![r] = "free"] \/ pc' = [pc EXCEPT ![r] = "waiting"]
          /\ op' = [op EXCEPT ![r] = NoOp] \/ op' = [op EXCEPT ![r] = op[r]]
      BY <2>3 DEF Checked
    <3> QED
      BY <2>3, <3>1, OnlyMoves DEF Checked
  <2>4. ASSUME NEW r \in Requests, NEW p \in PlayerSet, Rejoin(r, p)
        PROVE  Timed'
    BY <2>4, OnlyMoves DEF Rejoin, Arrives
  <2>5. ASSUME NEW r \in Requests, TimerFires(r)
        PROVE  Timed'
    <3>1. Fired(r)'
      BY <2>5 DEF TimerFires, Arrives, Fired, TimerOp, Timed, Locked
    <3> QED
      BY <2>5, <3>1, OnlyMoves DEF TimerFires, Arrives
  <2>6. ASSUME UNCHANGED vars
        PROVE  Timed'
    BY <2>6 DEF vars, requests, Timed, Sane, Settling, Pending, TimersMatchTurns,
       RunningTurnHasAnEnd, NoTimerWithoutTurn, FinishedOnce, Fired, Settled, InTurn, Over
  <2> QED
    BY <2>1, <2>2, <2>3, <2>4, <2>5, <2>6, EnterTimed, RefuseTimed, PersistTimed, SettleTimed
    DEF Next
<1> QED
  BY <1>1, <1>2, LockedInvariant, PTL DEF Spec

\* However requests interleave with a timer that fires while another request
\* has the lock, a running turn has its end in sight and no timer outlives its
\* turn.
THEOREM TimersMatchTurnsCorrect == Spec => []TimersMatchTurns
<1>1. Timed => TimersMatchTurns
  BY DEF Timed
<1> QED
  BY <1>1, TimedInvariant, PTL

\* The results of a session are written once, when its last turn is over.
THEOREM FinishedOnceCorrect == Spec => []FinishedOnce
<1>1. Timed => FinishedOnce
  BY DEF Timed
<1> QED
  BY <1>1, TimedInvariant, PTL

\* Every variable stays within its type: no turn after the last one, and no
\* timer for it.
THEOREM TypeCorrect == Spec => []TypeOK
<1>1. Init => TypeOK
  BY SessionAssumption, RequestAssumption
  DEF Init, TypeOK, Snapshot, FirstSnapshot, Operations, NoTimer
<1>2. Locked /\ Timed /\ TypeOK /\ [Next]_vars => TypeOK'
  <2> SUFFICES ASSUME Locked, Timed, TypeOK, [Next]_vars
               PROVE  TypeOK'
    OBVIOUS
  <2> USE SessionAssumption DEF TypeOK
  <2>1. ASSUME NEW r \in Requests, NEW p \in PlayerSet, NEW move \in Moves, Act(r, p, move)
        PROVE  TypeOK'
    <3>1. UserOp(move, p) \in Operations
      BY DEF UserOp, Operations
    <3> QED
      BY <2>1, <3>1 DEF Act, Arrives
  <2>2. ASSUME NEW r \in Requests, NEW p \in PlayerSet, Drop(r, p) \/ Rejoin(r, p)
        PROVE  TypeOK'
    <3>1. UserOp("pause", p) \in Operations /\ UserOp("resume", p) \in Operations
      BY DEF UserOp, Operations
    <3> QED
      BY <2>2, <3>1 DEF Drop, Rejoin, Arrives
  <2>3. ASSUME NEW r \in Requests, Checked(r)
        PROVE  TypeOK'
    <3>1. NoOp \in Operations
      BY DEF Operations
    <3> QED
      BY <2>3, <3>1 DEF Checked
  <2>4. ASSUME NEW r \in Requests, TimerFires(r)
        PROVE  TypeOK'
    <3>1. TimerOp(timer) \in Operations
      BY <2>4 DEF TimerFires, TimerOp, Operations, NoTimer
    <3> QED
      BY <2>4, <3>1 DEF TimerFires, Arrives, NoTimer
  <2>5. ASSUME NEW r \in Requests, Enter(r)
        PROVE  TypeOK'
    BY <2>5 DEF Enter
  <2>6. ASSUME NEW r \in Requests, Release(r)
        PROVE  lock' = NoRequest /\ pc' \in [Requests -> {"free", "checking", "waiting", "loaded", "saved"}]
               /\ op' \in [Requests -> Operations] /\ loaded' \in [Requests -> Snapshot]
    <3>1. NoOp \in Operations
      BY DEF Operations
    <3>2. FirstSnapshot \in Snapshot
      BY DEF FirstSnapshot, Snapshot
    <3> QED
      BY <2>6, <3>1, <3>2 DEF Release
  <2>7. ASSUME NEW r \in Requests, Refuse(r)
        PROVE  TypeOK'
    BY <2>6, <2>7 DEF Refuse
  <2>8. ASSUME NEW r \in Requests, Persist(r)
        PROVE  TypeOK'
    <3>1. /\ loaded[r] = stored /\ Accepts(op[r], stored) /\ stored' = Reduce(op[r], stored)
          /\ stored \in Snapshot /\ stored.turn \in 1..TotalTurns
      <4>1. loaded[r] = stored /\ Settled
        BY <2>8, NobodySettles DEF Persist, Locked, NoLostUpdate
      <4> QED
        BY <2>8, <4>1 DEF Persist, Timed, FinishedOnce, Over, Snapshot
    <3>2. stored.turn + 1 \in 1..(TotalTurns + 1)
      BY <3>1
    <3>3. /\ TurnBegun(stored) \in Snapshot /\ TurnFrozen(stored) \in Snapshot
          /\ TurnThawed(stored) \in Snapshot
      BY <3>1, Zenon DEF Snapshot, TurnBegun, TurnFrozen, TurnThawed
    <3>4. TurnOver(stored) \in Snapshot
      BY <3>1, <3>2, Zenon DEF Snapshot, TurnOver
    <3>5. stored' \in Snapshot
      BY <3>1, <3>3, <3>4 DEF Reduce
    <3> QED
      BY <2>8, <3>5 DEF Persist
  <2>9. ASSUME NEW r \in Requests, Settle(r)
        PROVE  TypeOK'
    <3>1. timer' \in 0..TotalTurns
      BY <2>9 DEF Settle, Settling, Timed, Pending, Over, NoTimer, Snapshot
    <3>2. [stored EXCEPT !.live = FALSE] \in Snapshot
      BY Zenon DEF Snapshot
    <3>3. \/ stored' = [stored EXCEPT !.live = FALSE] /\ rows' = rows + 1
          \/ stored' = stored /\ rows' = rows
      BY <2>9, Zenon DEF Settle
    <3>4. rows + 1 \in Nat /\ rows \in Nat /\ stored \in Snapshot
      OBVIOUS
    <3>5. stored' \in Snapshot /\ rows' \in Nat
      BY <3>2, <3>3, <3>4, Zenon
    <3> QED
      BY <2>6, <2>9, <3>1, <3>5 DEF Settle
  <2>10. ASSUME UNCHANGED vars
         PROVE  TypeOK'
    BY <2>10 DEF vars, requests
  <2> QED
    BY <2>1, <2>2, <2>3, <2>4, <2>5, <2>7, <2>8, <2>9, <2>10 DEF Next
<1> QED
  BY <1>1, <1>2, LockedInvariant, TimedInvariant, PTL DEF Spec
=============================================================================
