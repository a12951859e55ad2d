------------------------- MODULE CommitTrackerProofs -------------------------
(***************************************************************************)
(* Proofs about commitTracker for any number of files, flushes and callers: *)
(* the inductive invariant IInv, what follows from it, and the refinement  *)
(* of CommitBarrier.  Each action is shown to preserve IInv part by part.  *)
(***************************************************************************)
EXTENDS CommitTracker, TLAPS

\* The initial state satisfies the invariant: no flush, no caller, no loss.
LEMMA InitIInv == Init => IInv
  BY TrackerNil DEF Init, IInv, TypeOK, Flight, Caller, VouchedFlushed

\* begin announces a new flush and disturbs nobody.
LEMMA BeginIInv ==
  ASSUME IInv, NEW g \in Flights, NEW k \in Keys, Begin(g, k)
  PROVE  IInv'
<1> USE TrackerNil DEF Begin, waiterVars
<1>1. TypeOK'
  BY DEF IInv, TypeOK
<1>2. \A f \in Flights : Flight(f)'
  <2> SUFFICES ASSUME NEW f \in Flights PROVE Flight(f)'
    OBVIOUS
  <2>1. Flight(f) BY DEF IInv
  <2> QED BY <2>1 DEF IInv, TypeOK, Flight
<1>3. \A w \in Waiters : Caller(w)'
  <2> SUFFICES ASSUME NEW w \in Waiters PROVE Caller(w)'
    OBVIOUS
  <2>1. Caller(w) /\ fkey[g] = Nil BY DEF IInv, Flight
  <2>2. \A f \in before[w] : fkey'[f] = wkey'[w] /\ fkey'[f] # Nil
    BY <2>1 DEF IInv, TypeOK, Caller
  <2>3. wpc[w] = "blocked" => wch[w] # g
    BY <2>1 DEF IInv, TypeOK, Caller
  <2> QED BY <2>1, <2>2, <2>3 DEF IInv, TypeOK, Caller
<1>4. VouchedFlushed'
  BY DEF IInv, TypeOK, VouchedFlushed, Flight
<1> QED BY <1>1, <1>2, <1>3, <1>4 DEF IInv

\* finish removes the marker and stores the loss together, so that a file with an
\* unsurfaced loss stays in errs.
LEMMA FinishIInv ==
  ASSUME IInv, NEW g \in Flights, Finish(g)
  PROVE  IInv'
<1> USE TrackerNil DEF Finish, waiterVars
<1>1. TypeOK'
  <2>1. fkey[g] \in Keys BY DEF IInv, TypeOK, Flight
  <2> QED BY <2>1 DEF IInv, TypeOK
<1>2. \A f \in Flights : Flight(f)'
  <2> SUFFICES ASSUME NEW f \in Flights PROVE Flight(f)'
    OBVIOUS
  <2>1. Flight(f) BY DEF IInv
  <2> QED BY <2>1 DEF IInv, TypeOK, Flight
<1>3. \A w \in Waiters : Caller(w)'
  <2> SUFFICES ASSUME NEW w \in Waiters PROVE Caller(w)'
    OBVIOUS
  <2>1. Caller(w) BY DEF IInv
  <2> QED BY <2>1 DEF IInv, TypeOK, Caller
<1>4. VouchedFlushed'
  BY DEF IInv, TypeOK, VouchedFlushed, Flight
<1> QED BY <1>1, <1>2, <1>3, <1>4 DEF IInv

\* close(ch) after the unlock keeps every blocked caller's promise.
LEMMA CloseChanIInv ==
  ASSUME IInv, NEW g \in Flights, CloseChan(g)
  PROVE  IInv'
<1> USE TrackerNil DEF CloseChan, waiterVars
<1>1. TypeOK'
  BY DEF IInv, TypeOK
<1>2. \A f \in Flights : Flight(f)'
  <2> SUFFICES ASSUME NEW f \in Flights PROVE Flight(f)'
    OBVIOUS
  <2>1. Flight(f) BY DEF IInv
  <2> QED BY <2>1 DEF IInv, TypeOK, Flight
<1>3. \A w \in Waiters : Caller(w)'
  <2> SUFFICES ASSUME NEW w \in Waiters PROVE Caller(w)'
    OBVIOUS
  <2>1. Caller(w) BY DEF IInv
  <2> QED BY <2>1 DEF IInv, TypeOK, Caller
<1>4. VouchedFlushed'
  BY DEF IInv, TypeOK, VouchedFlushed, Flight
<1> QED BY <1>1, <1>2, <1>3, <1>4 DEF IInv

\* The loss callback touches nothing the callers see.
LEMMA FireLossIInv ==
  ASSUME IInv, NEW g \in Flights, FireLoss(g)
  PROVE  IInv'
<1> USE TrackerNil DEF FireLoss, waiterVars
<1>1. TypeOK'
  BY DEF IInv, TypeOK
<1>2. \A f \in Flights : Flight(f)'
  <2> SUFFICES ASSUME NEW f \in Flights PROVE Flight(f)'
    OBVIOUS
  <2>1. Flight(f) BY DEF IInv
  <2> QED BY <2>1 DEF IInv, TypeOK, Flight
<1>3. \A w \in Waiters : Caller(w)'
  <2> SUFFICES ASSUME NEW w \in Waiters PROVE Caller(w)'
    OBVIOUS
  <2>1. Caller(w) BY DEF IInv
  <2> QED BY <2>1 DEF IInv, TypeOK, Caller
<1>4. VouchedFlushed'
  BY DEF IInv, TypeOK, VouchedFlushed, Flight
<1> QED BY <1>1, <1>2, <1>3, <1>4 DEF IInv

\* record stores a loss that had no marker.
LEMMA RecordIInv ==
  ASSUME IInv, NEW g \in Flights, NEW k \in Keys, Record(g, k)
  PROVE  IInv'
<1> USE TrackerNil DEF Record, waiterVars
<1>1. TypeOK'
  BY DEF IInv, TypeOK
<1>2. \A f \in Flights : Flight(f)'
  <2> SUFFICES ASSUME NEW f \in Flights PROVE Flight(f)'
    OBVIOUS
  <2>1. Flight(f) BY DEF IInv
  <2> QED BY <2>1 DEF IInv, TypeOK, Flight
<1>3. \A w \in Waiters : Caller(w)'
  <2> SUFFICES ASSUME NEW w \in Waiters PROVE Caller(w)'
    OBVIOUS
  <2>1. Caller(w) /\ fkey[g] = Nil BY DEF IInv, Flight
  <2>2. \A f \in before[w] : fkey'[f] = wkey'[w] /\ fkey'[f] # Nil
    BY <2>1 DEF IInv, TypeOK, Caller
  <2>3. wpc[w] = "blocked" => wch[w] # g
    BY <2>1 DEF IInv, TypeOK, Caller
  <2> QED BY <2>1, <2>2, <2>3 DEF IInv, TypeOK, Caller
<1>4. VouchedFlushed'
  BY DEF IInv, TypeOK, VouchedFlushed, Flight
<1> QED BY <1>1, <1>2, <1>3, <1>4 DEF IInv

\* A call of wait or await notes the flushes begun before it.
LEMMA CallIInv ==
  ASSUME IInv, NEW v \in Waiters, NEW k \in Keys, Call(v, k)
  PROVE  IInv'
<1> USE TrackerNil DEF Call, flightVars
<1>1. TypeOK'
  BY DEF IInv, TypeOK
<1>2. \A f \in Flights : Flight(f)'
  <2> SUFFICES ASSUME NEW f \in Flights PROVE Flight(f)'
    OBVIOUS
  <2>1. Flight(f) /\ Caller(v) BY DEF IInv
  <2> QED BY <2>1 DEF IInv, TypeOK, Flight, Caller
<1>3. \A w \in Waiters : Caller(w)'
  <2> SUFFICES ASSUME NEW w \in Waiters PROVE Caller(w)'
    OBVIOUS
  <2>1. Caller(w) BY DEF IInv
  <2> QED BY <2>1 DEF IInv, TypeOK, Caller, Flight
<1>4. VouchedFlushed'
  BY DEF IInv, TypeOK, VouchedFlushed, Flight, Caller
<1> QED BY <1>1, <1>2, <1>3, <1>4 DEF IInv

\* resolve returns when nothing of the file is in flight: a nil result vouches only for
\* flushes that are over, since an unsurfaced loss would still be in errs.
LEMMA ResolveIInv ==
  ASSUME IInv, NEW v \in Waiters, Resolve(v)
  PROVE  IInv'
<1> USE TrackerNil DEF Resolve, flightVars
<1>1. TypeOK'
  <2>1. errs' \subseteq Keys /\ surfaced' \subseteq Flights /\ vouched' \subseteq Flights
    BY DEF IInv, TypeOK
  <2>2. wpc' \in [Waiters -> {"idle", "check", "blocked"}] /\ wkey' \in [Waiters -> Keys \cup {Nil}]
    BY DEF IInv, TypeOK
  <2> QED BY <2>1, <2>2 DEF IInv, TypeOK
<1>2. \A f \in Flights : Flight(f)'
  <2> SUFFICES ASSUME NEW f \in Flights PROVE Flight(f)'
    OBVIOUS
  <2>1. Flight(f) /\ Caller(v) BY DEF IInv
  <2> QED BY <2>1 DEF IInv, TypeOK, Flight, Caller
<1>3. \A w \in Waiters : Caller(w)'
  <2> SUFFICES ASSUME NEW w \in Waiters PROVE Caller(w)'
    OBVIOUS
  <2>1. Caller(w) BY DEF IInv
  <2> QED BY <2>1 DEF IInv, TypeOK, Caller, Flight
<1>4. VouchedFlushed'
  BY DEF IInv, TypeOK, VouchedFlushed, Flight, Caller
<1> QED BY <1>1, <1>2, <1>3, <1>4 DEF IInv

\* A caller blocks on the channel of a flush that is in flight.
LEMMA BlockIInv ==
  ASSUME IInv, NEW v \in Waiters, Block(v)
  PROVE  IInv'
<1> USE TrackerNil DEF Block, flightVars
<1>1. TypeOK'
  <2>1. wkey[v] \in Keys BY DEF IInv, TypeOK, Caller
  <2>2. wch' \in [Waiters -> Flights \cup {Nil}] BY <2>1 DEF IInv, TypeOK
  <2> QED BY <2>2 DEF IInv, TypeOK
<1>2. \A f \in Flights : Flight(f)'
  <2> SUFFICES ASSUME NEW f \in Flights PROVE Flight(f)'
    OBVIOUS
  <2>1. Flight(f) /\ Caller(v) BY DEF IInv
  <2> QED BY <2>1 DEF IInv, TypeOK, Flight, Caller
<1>3. \A w \in Waiters : Caller(w)'
  <2> SUFFICES ASSUME NEW w \in Waiters PROVE Caller(w)'
    OBVIOUS
  <2>1. Caller(w) BY DEF IInv
  <2> QED BY <2>1 DEF IInv, TypeOK, Caller, Flight
<1>4. VouchedFlushed'
  BY DEF IInv, TypeOK, VouchedFlushed, Flight, Caller
<1> QED BY <1>1, <1>2, <1>3, <1>4 DEF IInv

\* A caller whose channel was closed looks again.
LEMMA WakeIInv ==
  ASSUME IInv, NEW v \in Waiters, Wake(v)
  PROVE  IInv'
<1> USE TrackerNil DEF Wake, flightVars
<1>1. TypeOK'
  BY DEF IInv, TypeOK
<1>2. \A f \in Flights : Flight(f)'
  <2> SUFFICES ASSUME NEW f \in Flights PROVE Flight(f)'
    OBVIOUS
  <2>1. Flight(f) /\ Caller(v) BY DEF IInv
  <2> QED BY <2>1 DEF IInv, TypeOK, Flight, Caller
<1>3. \A w \in Waiters : Caller(w)'
  <2> SUFFICES ASSUME NEW w \in Waiters PROVE Caller(w)'
    OBVIOUS
  <2>1. Caller(w) BY DEF IInv
  <2> QED BY <2>1 DEF IInv, TypeOK, Caller, Flight
<1>4. VouchedFlushed'
  BY DEF IInv, TypeOK, VouchedFlushed, Flight, Caller
<1> QED BY <1>1, <1>2, <1>3, <1>4 DEF IInv

\* Every step of the tracker preserves the invariant.
LEMMA NextIInv == IInv /\ [Next]_vars => IInv'
<1> SUFFICES ASSUME IInv, [Next]_vars PROVE IInv'
  OBVIOUS
<1>1. CASE UNCHANGED vars
  BY <1>1 DEF vars, flightVars, waiterVars, IInv, TypeOK, Flight, Caller, VouchedFlushed
<1>2. CASE \E f \in Flights : Flushing(f)
  BY <1>2, FinishIInv, CloseChanIInv, FireLossIInv DEF Flushing
<1>3. CASE \E f \in Flights, k \in Keys : Begin(f, k) \/ Record(f, k)
  BY <1>3, BeginIInv, RecordIInv
<1>4. CASE \E w \in Waiters : Resolving(w)
  BY <1>4, ResolveIInv, BlockIInv, WakeIInv DEF Resolving
<1>5. CASE \E w \in Waiters, k \in Keys : Call(w, k)
  BY <1>5, CallIInv
<1> QED BY <1>1, <1>2, <1>3, <1>4, <1>5 DEF Next

\* IInv holds in every reachable state of the tracker.
THEOREM Invariance == Spec => []IInv
  BY InitIInv, NextIInv, PTL DEF Spec

\* The tracker's state stays within its types.
THEOREM TypeCorrect == Spec => []TypeOK
<1>1. IInv => TypeOK BY DEF IInv
<1> QED BY <1>1, Invariance, PTL

\* A nil result of wait or await is honest: the flushes of the file begun before
\* the call are over, and their losses were returned by some call.
THEOREM VouchedSafe == Spec => []VouchedFlushed
<1>1. IInv => VouchedFlushed BY DEF IInv
<1> QED BY <1>1, Invariance, PTL

\* A caller blocked in resolve waits for a channel that its owner has closed or
\* will still close, although close(ch) runs after the unlock.
THEOREM WakeupSafe == Spec => []NoLostWakeup
<1>1. IInv => NoLostWakeup BY DEF IInv, NoLostWakeup, Caller
<1> QED BY <1>1, Invariance, PTL
-----------------------------------------------------------------------------
(* The refinement: each step of the tracker is a step of the barrier.      *)

Waiting == [w \in Waiters |-> IF wpc[w] = "idle" THEN Nil ELSE wkey[w]]

\* Steps of flushes are Begin, Finish and Record of the barrier, or no step.
LEMMA FlightStep ==
  ASSUME IInv, NEW f \in Flights,
         Flushing(f) \/ \E k \in Keys : Begin(f, k) \/ Record(f, k)
  PROVE  Barrier!Next \/ UNCHANGED Barrier!vars
<1>1. ASSUME NEW k \in Keys, Begin(f, k) PROVE Barrier!Begin
  <2> DEFINE new == [j \in Keys |-> IF j = k THEN {f} ELSE {}]
  <2>1. new \in [Keys -> SUBSET Flights] OBVIOUS
  <2>2. pending' = [j \in Keys |-> pending[j] \cup new[j]]
    BY <1>1 DEF Begin, IInv, TypeOK
  <2>3. UNCHANGED <<errs, Waiting>> BY <1>1 DEF Begin, waiterVars, Waiting
  <2> QED BY <2>1, <2>2, <2>3 DEF Barrier!Begin, Waiting
<1>2. ASSUME NEW k \in Keys, Record(f, k) PROVE Barrier!Record(k)
  BY <1>2 DEF Record, waiterVars, Barrier!Record
<1>3. ASSUME Finish(f) PROVE fkey[f] \in Keys /\ Barrier!Finish(fkey[f], f)
  <2>1. fkey[f] \in Keys /\ f \in pending[fkey[f]]
    BY <1>3 DEF Finish, IInv, TypeOK, Flight
  <2> QED BY <1>3, <2>1 DEF Finish, waiterVars, Barrier!Finish
<1>4. ASSUME CloseChan(f) \/ FireLoss(f) PROVE UNCHANGED Barrier!vars
  BY <1>4 DEF CloseChan, FireLoss, waiterVars, Barrier!vars
<1> QED BY <1>1, <1>2, <1>3, <1>4 DEF Flushing, Barrier!Next

\* Steps of callers are Call and Return of the barrier; going to sleep on a channel
\* and waking up again are no steps.
LEMMA CallerStep ==
  ASSUME IInv, NEW w \in Waiters, Resolving(w) \/ \E k \in Keys : Call(w, k)
  PROVE  Barrier!Next \/ UNCHANGED Barrier!vars
<1>1. Caller(w) BY DEF IInv
<1>2. ASSUME NEW k \in Keys, Call(w, k) PROVE Barrier!Call(w, k)
  <2>1. Waiting[w] = Nil BY <1>2 DEF Call, Waiting
  <2>2. Waiting' = [Waiting EXCEPT ![w] = k]
    BY <1>2 DEF Call, Waiting, IInv, TypeOK
  <2> QED BY <1>2, <2>1, <2>2 DEF Call, Barrier!Call, Waiting, flightVars
<1>3. ASSUME Resolve(w) PROVE Barrier!Return(w)
  <2>1. Waiting[w] = wkey[w] /\ wkey[w] # Nil BY <1>1, <1>3 DEF Resolve, Waiting, Caller
  <2>2. Waiting' = [Waiting EXCEPT ![w] = Nil]
    BY <1>3 DEF Resolve, Waiting, IInv, TypeOK
  <2> QED BY <1>3, <2>1, <2>2 DEF Resolve, Barrier!Return, Waiting
<1>4. ASSUME Block(w) \/ Wake(w) PROVE UNCHANGED Barrier!vars
  <2>1. Waiting' = Waiting
    BY <1>4 DEF Block, Wake, Waiting, IInv, TypeOK
  <2> QED BY <1>4, <2>1 DEF Block, Wake, Barrier!vars, Waiting
<1> QED BY <1>2, <1>3, <1>4 DEF Resolving, Barrier!Next

\* The tracker implements the barrier its callers rely on: no caller gets through
\* while a flush of its file is in flight, and no recorded loss disappears except
\* into the hands of a caller.
THEOREM Refinement == Spec => ImplementsBarrier
<1>1. Init => Barrier!Init
  BY DEF Init, Barrier!Init
<1>2. IInv /\ [Next]_vars => [Barrier!Next]_(Barrier!vars)
  <2> SUFFICES ASSUME IInv, [Next]_vars PROVE Barrier!Next \/ UNCHANGED Barrier!vars
    OBVIOUS
  <2>1. CASE UNCHANGED vars
    BY <2>1 DEF vars, waiterVars, Barrier!vars
  <2>2. CASE Next
    BY <2>2, FlightStep, CallerStep DEF Next
  <2> QED BY <2>1, <2>2
<1> QED BY <1>1, <1>2, Invariance, PTL DEF Spec, ImplementsBarrier, Barrier!Spec
=============================================================================
