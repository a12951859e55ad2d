---------------------------- MODULE CommitTracker ----------------------------
(***************************************************************************)
(* commitTracker (committracker.go) at the grain of its lock: begin and    *)
(* finish by the goroutine of each flush, record, and the resolve loop of  *)
(* wait and await, which blocks on one channel at a time with no lock held *)
(* and looks again.  finish closes the channel and calls onLoss after it   *)
(* has released the lock.                                                  *)
(***************************************************************************)
EXTENDS Integers, FiniteSets

CONSTANTS
  Keys,     \* file handles
  Flights,  \* flushes; each owns the channel that begin made for it
  Waiters,  \* goroutines that call wait or await
  Nil

ASSUME TrackerNil == Nil \notin Keys /\ Nil \notin Flights

VARIABLES
  pending, errs,        \* the tracker's maps
  closed,   \* channels that were closed
  fpc, fkey, lossy,     \* each flush: progress, file, did it lose data
  wpc, wkey, wch,       \* each caller of resolve: progress, file, channel
  consume,  \* callers of wait, as opposed to await
  rotations,            \* calls of onLoss
  before,   \* flushes of its file begun before each call (history)
  surfaced, vouched     \* flushes whose loss was returned; covered by a nil (history)

flightVars == <<closed, fpc, fkey, lossy, rotations>>
waiterVars == <<wpc, wkey, wch, consume, before, vouched>>
vars == <<pending, errs, flightVars, waiterVars, surfaced>>

TypeOK ==
  /\ pending \in [Keys -> SUBSET Flights] /\ errs \subseteq Keys
  /\ closed \subseteq Flights
  /\ fpc \in [Flights -> {"new", "flushing", "close", "loss", "done"}]
  /\ fkey \in [Flights -> Keys \cup {Nil}] /\ lossy \subseteq Flights
  /\ wpc \in [Waiters -> {"idle", "check", "blocked"}]
  /\ wkey \in [Waiters -> Keys \cup {Nil}] /\ wch \in [Waiters -> Flights \cup {Nil}]
  /\ consume \subseteq Waiters
  /\ rotations \in Nat
  /\ before \in [Waiters -> SUBSET Flights]
  /\ surfaced \subseteq Flights /\ vouched \subseteq Flights

Init ==
  /\ pending = [k \in Keys |-> {}] /\ errs = {}
  /\ closed = {}
  /\ fpc = [f \in Flights |-> "new"] /\ fkey = [f \in Flights |-> Nil] /\ lossy = {}
  /\ wpc = [w \in Waiters |-> "idle"] /\ wkey = [w \in Waiters |-> Nil]
  /\ wch = [w \in Waiters |-> Nil] /\ consume = {}
  /\ rotations = 0
  /\ before = [w \in Waiters |-> {}] /\ surfaced = {} /\ vouched = {}

Begin(f, k) ==
  /\ fpc[f] = "new"
  /\ fpc' = [fpc EXCEPT ![f] = "flushing"] /\ fkey' = [fkey EXCEPT ![f] = k]
  /\ pending' = [pending EXCEPT ![k] = @ \cup {f}]
  /\ UNCHANGED <<errs, closed, lossy, rotations, waiterVars, surfaced>>

\* finish under the lock: the loss is stored and the marker removed together.
Finish(f) ==
  LET k == fkey[f] IN
  /\ fpc[f] = "flushing"
  /\ fpc' = [fpc EXCEPT ![f] = "close"]
  /\ \/ lossy' = lossy \cup {f} /\ errs' = errs \cup {k}
     \/ UNCHANGED <<lossy, errs>>
  /\ pending' = [pending EXCEPT ![k] = @ \ {f}]
  /\ UNCHANGED <<closed, fkey, rotations, waiterVars, surfaced>>

\* Mutation: finish returns early with an error and leaves the channel open.
CloseChanIfClean(f) ==
  /\ fpc[f] = "close"
  /\ closed' = IF f \in lossy THEN closed ELSE closed \cup {f}
  /\ fpc' = [fpc EXCEPT ![f] = IF f \in lossy THEN "loss" ELSE "done"]
  /\ UNCHANGED <<pending, errs, fkey, lossy, rotations, waiterVars, surfaced>>

\* finish after the lock: close(ch) wakes whoever waits on it.
CloseChan(f) ==
  /\ fpc[f] = "close"
  /\ closed' = closed \cup {f}
  /\ fpc' = [fpc EXCEPT ![f] = IF f \in lossy THEN "loss" ELSE "done"]
  /\ UNCHANGED <<pending, errs, fkey, lossy, rotations, waiterVars, surfaced>>

FireLoss(f) ==
  /\ fpc[f] = "loss"
  /\ rotations' = rotations + 1
  /\ fpc' = [fpc EXCEPT ![f] = "done"]
  /\ UNCHANGED <<pending, errs, closed, fkey, lossy, waiterVars, surfaced>>

\* Mutation: the loss is recorded under an empty handle.
RecordNoKey(f, k) ==
  /\ fpc[f] = "new"
  /\ fpc' = [fpc EXCEPT ![f] = "loss"] /\ fkey' = [fkey EXCEPT ![f] = k]
  /\ lossy' = lossy \cup {f} /\ errs' = errs \cup {Nil}
  /\ UNCHANGED <<pending, closed, rotations, waiterVars, surfaced>>

\* record: a loss without a marker.
Record(f, k) ==
  /\ fpc[f] = "new"
  /\ fpc' = [fpc EXCEPT ![f] = "loss"] /\ fkey' = [fkey EXCEPT ![f] = k]
  /\ lossy' = lossy \cup {f} /\ errs' = errs \cup {k}
  /\ UNCHANGED <<pending, closed, rotations, waiterVars, surfaced>>

\* wait (taking the loss) or await (leaving it) is called.
Call(w, k) ==
  /\ wpc[w] = "idle"
  /\ wpc' = [wpc EXCEPT ![w] = "check"] /\ wkey' = [wkey EXCEPT ![w] = k]
  /\ consume' = consume \/ consume' = consume \cup {w}
  /\ before' = [before EXCEPT ![w] = {f \in Flights : fkey[f] = k}]
  /\ UNCHANGED <<pending, errs, flightVars, wch, vouched, surfaced>>

\* Mutation: resolve returns what is recorded while flushes are in flight.
ResolveEarly(w) ==
  LET k == wkey[w] IN
  /\ wpc[w] = "check"
  /\ errs' = IF w \in consume THEN errs \ {k} ELSE errs
  /\ IF k \in errs
     THEN surfaced' = surfaced \cup {f \in lossy : fkey[f] = k} /\ UNCHANGED vouched
     ELSE vouched' = vouched \cup before[w] /\ UNCHANGED surfaced
  /\ wpc' = [wpc EXCEPT ![w] = "idle"]
  /\ wkey' = [wkey EXCEPT ![w] = Nil] /\ before' = [before EXCEPT ![w] = {}]
  /\ consume' = consume \ {w}
  /\ UNCHANGED <<pending, flightVars, wch>>

\* One round of resolve under the lock: nothing in flight, so it returns what is
\* recorded ...
Resolve(w) ==
  LET k == wkey[w] IN
  /\ wpc[w] = "check" /\ pending[k] = {}
  /\ errs' = IF w \in consume THEN errs \ {k} ELSE errs
  /\ IF k \in errs
     THEN surfaced' = surfaced \cup {f \in lossy : fkey[f] = k} /\ UNCHANGED vouched
     ELSE vouched' = vouched \cup before[w] /\ UNCHANGED surfaced
  /\ wpc' = [wpc EXCEPT ![w] = "idle"]
  /\ wkey' = [wkey EXCEPT ![w] = Nil] /\ before' = [before EXCEPT ![w] = {}]
  /\ consume' = consume \ {w}
  /\ UNCHANGED <<pending, flightVars, wch>>

\* Mutation: the channel of another file's flush is taken.
BlockOnAny(w) ==
  /\ wpc[w] = "check"
  /\ \E k \in Keys : \E f \in pending[k] : wch' = [wch EXCEPT ![w] = f]
  /\ wpc' = [wpc EXCEPT ![w] = "blocked"]
  /\ UNCHANGED <<pending, errs, flightVars, wkey, consume, before, vouched, surfaced>>

\* ... or it picks any channel of the set and goes to wait for it,
Block(w) ==
  /\ wpc[w] = "check"
  /\ \E f \in pending[wkey[w]] : wch' = [wch EXCEPT ![w] = f]
  /\ wpc' = [wpc EXCEPT ![w] = "blocked"]
  /\ UNCHANGED <<pending, errs, flightVars, wkey, consume, before, vouched, surfaced>>

\* Mutation: one closed channel is enough, resolve does not look again.
WakeReturns(w) ==
  /\ wpc[w] = "blocked" /\ wch[w] \in closed
  /\ wpc' = [wpc EXCEPT ![w] = "idle"] /\ wch' = [wch EXCEPT ![w] = Nil]
  /\ wkey' = [wkey EXCEPT ![w] = Nil] /\ before' = [before EXCEPT ![w] = {}]
  /\ consume' = consume \ {w}
  /\ UNCHANGED <<pending, errs, flightVars, vouched, surfaced>>

\* until that channel is closed, and looks again.
Wake(w) ==
  /\ wpc[w] = "blocked" /\ wch[w] \in closed
  /\ wpc' = [wpc EXCEPT ![w] = "check"] /\ wch' = [wch EXCEPT ![w] = Nil]
  /\ UNCHANGED <<pending, errs, flightVars, wkey, consume, before, vouched, surfaced>>

Flushing(f) == Finish(f) \/ CloseChan(f) \/ FireLoss(f)
Resolving(w) == Resolve(w) \/ Block(w) \/ Wake(w)

Next ==
  \/ \E f \in Flights : Flushing(f) \/ \E k \in Keys : Begin(f, k) \/ Record(f, k)
  \/ \E w \in Waiters : Resolving(w) \/ \E k \in Keys : Call(w, k)

Spec == Init /\ [][Next]_vars

\* A flush that began ends, and goroutines that can run do run.
FairSpec ==
  /\ Spec
  /\ \A f \in Flights : WF_vars(Flushing(f))
  /\ \A w \in Waiters : WF_vars(Resolving(w))

-----------------------------------------------------------------------------
\* A nil result of wait or await vouches for the flushes of the file begun before
\* the call: they are over, and the ones that lost data had it returned by a call
\* (the pending check and the errs read of resolve share one critical section).
VouchedFlushed ==
  \A f \in vouched : fpc[f] # "flushing" /\ (f \in lossy => f \in surfaced)

\* A blocked caller waits for a flush of its own file whose channel is closed or
\* still to be closed by its owner, so close(ch) after the unlock wakes it.
NoLostWakeup ==
  \A w \in Waiters : wpc[w] = "blocked" =>
    /\ fkey[wch[w]] = wkey[w]
    /\ wch[w] \in closed \/ fpc[wch[w]] \in {"flushing", "close"}

\* Every call of wait or await returns.
CallsReturn == \A w \in Waiters : wpc[w] # "idle" ~> wpc[w] = "idle"

\* resolve's loop implements the barrier the callers rely on.
Barrier == INSTANCE CommitBarrier WITH
  inflight <- pending,
  waiting <- [w \in Waiters |-> IF wpc[w] = "idle" THEN Nil ELSE wkey[w]]

ImplementsBarrier == Barrier!Spec

-----------------------------------------------------------------------------
\* The inductive invariant behind VouchedFlushed and the refinement.
Flight(f) ==
  /\ \A k \in Keys : f \in pending[k] <=> fpc[f] = "flushing" /\ fkey[f] = k
  /\ fpc[f] = "new" <=> fkey[f] = Nil
  /\ f \in vouched => fpc[f] # "new"
  /\ fpc[f] \in {"new", "flushing"} => f \notin lossy /\ f \notin closed
  /\ f \in lossy \ surfaced => fkey[f] \in errs

Caller(w) ==
  /\ wpc[w] = "idle" <=> wkey[w] = Nil
  /\ \A f \in before[w] : fkey[f] = wkey[w] /\ fkey[f] # Nil
  /\ wpc[w] = "blocked" =>
       /\ wch[w] \in Flights /\ fkey[wch[w]] = wkey[w]
       /\ wch[w] \in closed \/ fpc[wch[w]] \in {"flushing", "close"}

IInv ==
  /\ TypeOK
  /\ \A f \in Flights : Flight(f)
  /\ \A w \in Waiters : Caller(w)
  /\ VouchedFlushed
=============================================================================
