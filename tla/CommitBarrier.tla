---------------------------- MODULE CommitBarrier ----------------------------
(***************************************************************************)
(* What the commit tracker promises its callers (the doc comments of       *)
(* committracker.go): a barrier per file handle.  A caller gets through    *)
(* only at an instant when no flush of its file is in flight, and a        *)
(* recorded loss disappears only into the hands of such a caller.          *)
(***************************************************************************)
EXTENDS FiniteSets

CONSTANTS Keys, Flights, Waiters, Nil

VARIABLES
  inflight, \* flushes begun and not finished, of each file handle
  errs,     \* file handles with a recorded loss
  waiting   \* the file handle each caller of wait or await waits for, or Nil

vars == <<inflight, errs, waiting>>

Init ==
  /\ inflight = [k \in Keys |-> {}]
  /\ errs = {}
  /\ waiting = [w \in Waiters |-> Nil]

\* One critical section of a write cache may announce several flushes.
Begin ==
  /\ \E new \in [Keys -> SUBSET Flights] : inflight' = [k \in Keys |-> inflight[k] \cup new[k]]
  /\ UNCHANGED <<errs, waiting>>

\* The result of a flush is recorded in the instant it stops being in flight.
Finish(k, f) ==
  /\ f \in inflight[k]
  /\ inflight' = [inflight EXCEPT ![k] = @ \ {f}]
  /\ errs' = errs \/ errs' = errs \cup {k}
  /\ UNCHANGED waiting

Record(k) ==
  /\ errs' = errs \cup {k}
  /\ UNCHANGED <<inflight, waiting>>

Call(w, k) ==
  /\ waiting[w] = Nil
  /\ waiting' = [waiting EXCEPT ![w] = k]
  /\ UNCHANGED <<inflight, errs>>

\* wait takes the loss with it, await leaves it.
Return(w) ==
  /\ waiting[w] # Nil /\ inflight[waiting[w]] = {}
  /\ errs' = errs \/ errs' = errs \ {waiting[w]}
  /\ waiting' = [waiting EXCEPT ![w] = Nil]
  /\ UNCHANGED inflight

Next ==
  \/ Begin
  \/ \E k \in Keys : Record(k) \/ \E f \in Flights : Finish(k, f)
  \/ \E w \in Waiters : Return(w) \/ \E k \in Keys : Call(w, k)

Spec == Init /\ [][Next]_vars
=============================================================================
