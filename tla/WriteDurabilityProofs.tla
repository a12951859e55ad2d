----------------------- MODULE WriteDurabilityProofs ------------------------
(***************************************************************************)
(* The theorems about WriteDurability, for any numbers of connections,     *)
(* files, fds and WRITEs.                                                  *)
(*                                                                         *)
(* After the lemmas on requests and fds come the tracker as a barrier, the *)
(* data of WRITEs and what COMMIT, READ and stable WRITEs vouch for;       *)
(* Invariance joins the steps of all parts.                                *)
(***************************************************************************)
EXTENDS WriteDurabilityLemmas

USE Zenon

-----------------------------------------------------------------------------
(* The tracker as a barrier: each step of WriteDurability is a step of      *)
(* CommitBarrier or leaves its variables alone (BarrierStep).               *)

\* Where a goroutine is inside wait or await, and for which file.
AwaitAt == {"wait", "vawait", "rawait"}
Waiting == [c \in Conns |-> IF pc[c] \in AwaitAt THEN req[c].key ELSE Nil]

\* Detaching fds announces flushes and does nothing else to the tracker.
LEMMA DetachBegins ==
  ASSUME TypeOK, NEW S \in SUBSET Handles, NEW p, Detach(S, p), UNCHANGED errs,
         Waiting' = Waiting
  PROVE  Barrier!Begin
<1> DEFINE new == [k \in Keys |-> {h \in S : hkey[h] = k}]
<1>1. new \in [Keys -> SUBSET Handles]
  OBVIOUS
<1>2. pending' = [k \in Keys |-> pending[k] \cup new[k]]
  BY DEF Detach
<1> HIDE DEF new
<1> QED
  BY <1>1, <1>2 DEF Barrier!Begin, Waiting, AwaitAt

\* A step of a request goroutine changes at most its own place at the barrier.
LEMMA WaitingStep ==
  ASSUME IInv, NEW c \in Conns, Requesting(c) \/ Serving(c)
  PROVE  Waiting' = [Waiting EXCEPT ![c] = IF pc'[c] \in AwaitAt THEN req'[c].key ELSE Nil]
BY OthersKeep DEF Waiting

\* A goroutine outside wait and await before and after its step.
LEMMA StaysOutside ==
  ASSUME IInv, NEW c \in Conns, Requesting(c) \/ Serving(c),
         pc[c] \notin AwaitAt, pc'[c] \notin AwaitAt
  PROVE  Waiting' = Waiting
BY WaitingStep DEF Waiting

\* A goroutine that calls wait or await.
LEMMA CallStep ==
  ASSUME IInv, NEW c \in Conns, Serving(c), UNCHANGED <<pending, errs>>,
         pc[c] \notin AwaitAt, pc'[c] \in AwaitAt, req'[c].key = req[c].key, req[c].key \in Keys
  PROVE  Barrier!Next
<1>1. PICK k \in Keys : k = req[c].key
  OBVIOUS
<1>2. Waiting' = [Waiting EXCEPT ![c] = k] /\ Waiting[c] = Nil
  BY <1>1, WaitingStep DEF Waiting
<1>3. Barrier!Call(c, k)
  BY <1>2 DEF Barrier!Call, Waiting, AwaitAt
<1> QED
  BY <1>3 DEF Barrier!Next

\* A goroutine that gets through: nothing of its file is in flight.
LEMMA ReturnStep ==
  ASSUME IInv, NEW c \in Conns, Wait(c) \/ VisitAwait(c) \/ ReadAwait(c)
  PROVE  Barrier!Next
<1>1. pc \in [Conns -> PCs] /\ req \in [Conns -> Requests] /\ ControlInv
  BY DEF IInv, TypeOK
<1>2. /\ pc[c] \in AwaitAt /\ pending[req[c].key] = {} /\ pending' = pending
      /\ errs' = errs \/ errs' = errs \ {req[c].key}
  BY DEF Wait, VisitAwait, ReadAwait, AwaitAt, trackVars
<1>3. pc'[c] \notin AwaitAt
  BY <1>1 DEF Wait, VisitAwait, ReadAwait, Return, NextConn, Goto, AwaitAt
<1>4. req[c].key \in Keys
  BY <1>1, <1>2 DEF ControlInv, AwaitAt
<1>5. Waiting' = [Waiting EXCEPT ![c] = Nil] /\ Waiting[c] = req[c].key
  BY <1>2, <1>3, WaitingStep DEF Waiting, Serving
<1>6. Barrier!Return(c)
  BY <1>2, <1>4, <1>5, NilAssumption DEF Barrier!Return, Waiting, AwaitAt
<1> QED
  BY <1>6 DEF Barrier!Next

\* Steps of a request goroutine that do not concern the tracker.
LEMMA QuietStep ==
  ASSUME IInv, NEW c \in Conns,
         \/ Requesting(c) \/ Lookup(c) \/ OpenFile(c) \/ PutRefused(c) \/ WriteAtClosed(c)
         \/ WriteAt(c) \/ WriteReply(c) \/ CommitGet(c) \/ VisitClosed(c) \/ CommitByPath(c)
         \/ CommitReply(c)
  PROVE  UNCHANGED <<pending, errs, Waiting>>
<1>1. pc \in [Conns -> PCs] /\ req \in [Conns -> Requests]
  BY DEF IInv, TypeOK
<1> USE <1>1 DEF Goto, Return, Retry, NextConn, AwaitAt, trackVars
<1> DEFINE Quiet == pc[c] \notin AwaitAt /\ pc'[c] \notin AwaitAt /\ pending' = pending /\ errs' = errs
<1>2. ASSUME Requesting(c) PROVE Quiet
  BY <1>2 DEF Requesting, StartWrite, StartBroadcast, Ready
<1>3. ASSUME Lookup(c) \/ OpenFile(c) \/ PutRefused(c) PROVE Quiet
  BY <1>3 DEF Lookup, OpenFile, PutRefused
<1>4. ASSUME WriteAtClosed(c) \/ WriteAt(c) \/ WriteReply(c) PROVE Quiet
  BY <1>4 DEF WriteAtClosed, WriteAt, WriteReply
<1>5. ASSUME CommitGet(c) \/ VisitClosed(c) PROVE Quiet
  BY <1>5 DEF CommitGet, VisitClosed
<1>6. ASSUME CommitByPath(c) \/ CommitReply(c) PROVE Quiet
  BY <1>6 DEF CommitByPath, CommitReply
<1>7. Quiet /\ (Requesting(c) \/ Serving(c))
  BY <1>2, <1>3, <1>4, <1>5, <1>6 DEF Serving
<1> QED
  BY <1>7, StaysOutside

\* Steps of a request goroutine that may call wait or await.
LEMMA AskStep ==
  ASSUME IInv, NEW c \in Conns,
         StableSync(c) \/ StableClosed(c) \/ ReadGet(c) \/ VisitSync(c) \/ VisitDone(c)
  PROVE  Barrier!Next \/ UNCHANGED <<pending, errs, Waiting>>
<1>1. pc \in [Conns -> PCs] /\ req \in [Conns -> Requests] /\ ControlInv
  BY DEF IInv, TypeOK
<1> USE <1>1
<1> DEFINE Asks == /\ pc[c] \notin AwaitAt /\ pending' = pending /\ errs' = errs
                   /\ pc'[c] \in AwaitAt => req'[c].key = req[c].key
<1>2. ASSUME StableSync(c) \/ StableClosed(c) PROVE Asks
  BY <1>2 DEF StableSync, StableClosed, Goto, Return, AwaitAt, trackVars
<1>3. ASSUME ReadGet(c) PROVE Asks
  <2>1. PICK t \in req[c].todo :
          \/ req' = [req EXCEPT ![c].todo = @ \ {t}]
          \/ req' = [req EXCEPT ![c].tgt = t, ![c].h = entries[t][req[c].key]]
    BY <1>3 DEF ReadGet
  <2>2. req'[c].key = req[c].key
    BY SMT, <2>1 DEF Requests
  <2> QED
    BY <1>3, <2>2 DEF ReadGet, AwaitAt, trackVars
<1>4. ASSUME VisitSync(c) PROVE Asks
  BY <1>4 DEF VisitSync, NextConn, Goto, AwaitAt, trackVars
<1>5. ASSUME VisitDone(c) PROVE Asks
  BY <1>5 DEF VisitDone, Goto, Return, AwaitAt, trackVars
<1>6. Asks /\ Serving(c)
  BY <1>2, <1>3, <1>4, <1>5 DEF Serving
<1>7. req[c].key \in Keys
  BY DEF ControlInv, StableSync, StableClosed, ReadGet, VisitSync, VisitDone
<1> QED
  BY <1>6, <1>7, CallStep, StaysOutside

\* Steps that detach fds, or find that there is none to detach.
LEMMA AnnounceStep ==
  ASSUME IInv, NEW c \in Conns,
         \/ Drain(c) \/ SweepIdle(c) \/ PutIfFresh(c) \/ StableDetach(c) \/ VisitDetach(c)
         \/ DropConn(c)
  PROVE  Barrier!Next \/ UNCHANGED <<pending, errs, Waiting>>
<1>1. TypeOK /\ ControlInv
  BY DEF IInv
<1>2. pc \in [Conns -> PCs] /\ req \in [Conns -> Requests]
  BY <1>1 DEF TypeOK
<1>a. \A t \in Conns, k \in Keys : entries[t][k] \in Handles \cup {Nil}
  BY SMT, <1>1 DEF TypeOK
<1>3. CachedIn(c) \subseteq Handles
  BY <1>a DEF CachedIn
<1>4. ASSUME NEW S \in SUBSET Handles, NEW p, Detach(S, p), UNCHANGED errs, Waiting' = Waiting
      PROVE  Barrier!Next
  BY <1>1, <1>4, DetachBegins DEF Barrier!Next
<1>5. CASE Drain(c) \/ SweepIdle(c)
  <2>1. UNCHANGED <<pc, req, errs>> /\ \E S \in SUBSET Handles : \E p \in Procs : Detach(S, p)
    BY <1>3, <1>5 DEF Drain, SweepIdle, Procs, Serve, Sweeper
  <2>2. Waiting' = Waiting
    BY <2>1 DEF Waiting
  <2> QED
    BY <1>4, <2>1, <2>2
<1>6. CASE PutIfFresh(c)
  <2>1. pc[c] = "publish" /\ pc'[c] = "write" /\ UNCHANGED errs /\ Serving(c)
    BY <1>2, <1>6 DEF PutIfFresh, Goto, Serving
  <2>2. PICK V \in SUBSET CachedIn(c) : Detach(V, Serve(c))
    BY <1>6 DEF PutIfFresh
  <2>3. Waiting' = Waiting
    BY <2>1, StaysOutside DEF AwaitAt
  <2> QED
    BY <1>3, <1>4, <2>1, <2>2, <2>3
<1>7. CASE StableDetach(c)
  <2>1. /\ pc[c] = "detach" /\ UNCHANGED <<errs, req>> /\ Serving(c) /\ req[c].key \in Keys
    BY <1>1, <1>7 DEF StableDetach, Serving, ControlInv
  <2>2. CASE entries[c][req[c].key] = Nil
    <3>1. pc'[c] = "wait" /\ UNCHANGED pending
      BY <1>2, <1>7, <2>2 DEF StableDetach, Goto
    <3> QED
      BY <2>1, <3>1, CallStep DEF AwaitAt
  <2>3. CASE entries[c][req[c].key] # Nil
    <3>1. pc'[c] = "closed" /\ Detach({entries[c][req[c].key]}, Serve(c))
      BY <1>2, <1>7, <2>3 DEF StableDetach, Goto
    <3>2. {entries[c][req[c].key]} \in SUBSET Handles
      BY <1>a, <2>1, <2>3
    <3>3. Waiting' = Waiting
      BY <2>1, <3>1, StaysOutside DEF AwaitAt
    <3> QED
      BY <1>4, <2>1, <3>1, <3>2, <3>3
  <2> QED
    BY <2>2, <2>3
<1>8. CASE VisitDetach(c)
  <2>1. /\ pc[c] = "vdetach" /\ UNCHANGED errs /\ Serving(c)
        /\ req[c].tgt \in Conns /\ req[c].key \in Keys
    BY <1>1, <1>8 DEF VisitDetach, Serving, ControlInv
  <2>2. pc'[c] \in {"visit", "vclosed"}
    BY <1>2, <1>8 DEF VisitDetach, NextConn, Goto
  <2>3. Waiting' = Waiting
    BY <2>1, <2>2, StaysOutside DEF AwaitAt
  <2>4. CASE entries[req[c].tgt][req[c].key] = Nil
    BY <1>8, <2>1, <2>3, <2>4 DEF VisitDetach
  <2>5. CASE entries[req[c].tgt][req[c].key] # Nil
    <3>1. Detach({entries[req[c].tgt][req[c].key]}, Serve(c))
      BY <1>8, <2>5 DEF VisitDetach
    <3>2. {entries[req[c].tgt][req[c].key]} \in SUBSET Handles
      BY <1>a, <2>1, <2>5
    <3> QED
      BY <1>4, <2>1, <2>3, <3>1, <3>2
  <2> QED
    BY <2>4, <2>5
<1>9. CASE DropConn(c)
  <2>1. pc[c] = "visit" /\ UNCHANGED <<pc, errs>> /\ Serving(c) /\ req[c].key \in Keys
    BY <1>1, <1>9 DEF DropConn, Serving, ControlInv
  <2>2. PICK t \in req[c].todo : Detach({entries[t][req[c].key]} \ {Nil}, Serve(c))
    BY <1>9 DEF DropConn
  <2>3. t \in Conns
    BY <1>2 DEF Requests
  <2>4. {entries[t][req[c].key]} \ {Nil} \in SUBSET Handles
    BY <1>a, <2>1, <2>3
  <2>5. Waiting' = Waiting
    BY <2>1, StaysOutside DEF AwaitAt
  <2> QED
    BY <1>4, <2>1, <2>2, <2>4, <2>5
<1> QED
  BY <1>5, <1>6, <1>7, <1>8, <1>9

\* The goroutine of a detached fd: finish is the step that the barrier sees.
LEMMA FlushStep ==
  ASSUME IInv, NEW h \in Handles, EvictFlush(h) \/ Finish(h) \/ FireLoss(h)
  PROVE  Barrier!Next \/ UNCHANGED <<pending, errs, Waiting>>
<1>1. TypeOK
  BY DEF IInv
<1>b. /\ flush[h] # "none" => hkey[h] \in Keys
      /\ \A j \in Keys : h \in pending[j] <=> flush[h] \in {"close", "finish"} /\ hkey[h] = j
  BY DEF IInv, MarkerInv
<1>2. CASE EvictFlush(h)
  <2>1. UNCHANGED <<pc, pending, errs>>
    BY <1>2 DEF EvictFlush, trackVars
  <2>2. \A c \in Conns : pc[c] \in AwaitAt => req'[c] = req[c]
    BY <1>2 DEF EvictFlush, AwaitAt
  <2> QED
    BY <2>1, <2>2 DEF Waiting
<1>3. CASE FireLoss(h)
  BY <1>3 DEF FireLoss, trackVars, Waiting
<1>4. CASE Finish(h)
  <2>1. UNCHANGED <<pc, req>> /\ flush[h] = "finish"
    BY <1>4 DEF Finish
  <2>2. PICK k \in Keys : k = hkey[h] /\ h \in pending[k] /\ \A j \in Keys \ {k} : h \notin pending[j]
    <3>1. hkey[h] \in Keys /\ \A j \in Keys : h \in pending[j] <=> hkey[h] = j
      BY <1>b, <2>1
    <3> QED
      BY <3>1
  <2>3. pending' = [pending EXCEPT ![k] = @ \ {h}]
    <3>1. pending \in [Keys -> SUBSET Handles] /\ pending' = [j \in Keys |-> pending[j] \ {h}]
      BY <1>1, <1>4 DEF Finish, TypeOK
    <3>2. \A j \in Keys \ {k} : pending[j] \ {h} = pending[j]
      BY <2>2
    <3> QED
      BY <3>1, <3>2
  <2>4. errs' = errs \/ errs' = errs \cup {k}
    BY <1>4, <2>2 DEF Finish
  <2>5. Barrier!Finish(k, h)
    BY <2>1, <2>2, <2>3, <2>4 DEF Barrier!Finish
  <2>6. \E j \in Keys : Barrier!Record(j) \/ \E f \in Handles : Barrier!Finish(j, f)
    BY <2>5
  <2> QED
    BY <2>6 DEF Barrier!Next
<1> QED
  BY <1>2, <1>3, <1>4

\* Every step is a step of the barrier or none.
LEMMA BarrierStep ==
  ASSUME IInv, Next
  PROVE  Barrier!Next \/ UNCHANGED Barrier!vars
<1> DEFINE Seen == Barrier!Next \/ UNCHANGED <<pending, errs, Waiting>>
<1>1. ASSUME NEW c \in Conns, Connect(c) \/ Unregister(c) PROVE Seen
  BY <1>1 DEF Connect, Unregister, trackVars, Waiting
<1>2. ASSUME NEW c \in Conns, Drain(c) \/ SweepIdle(c) PROVE Seen
  BY <1>2, AnnounceStep
<1>3. ASSUME NEW c \in Conns, Requesting(c) PROVE Seen
  BY <1>3, QuietStep
<1>4. ASSUME NEW c \in Conns, Serving(c) PROVE Seen
  BY <1>4, QuietStep, AskStep, AnnounceStep, ReturnStep DEF Serving
<1>5. ASSUME NEW h \in Handles, Flushing(h) PROVE Seen
  BY <1>5, FlushStep DEF Flushing
<1>6. Seen
  BY <1>1, <1>2, <1>3, <1>4, <1>5 DEF Next
<1> QED
  BY <1>6 DEF Barrier!vars, Waiting, AwaitAt

-----------------------------------------------------------------------------
(* Where the data of a WRITE is: buffered ids stay cached or announced     *)
(* until they are durable or lost (BufGrows, BufMoves, PendingKept,        *)
(* CachedKept).  A WRITE from its first step to its reply: what is left to *)
(* flush for it is cached or announced, and its id is accounted for        *)
(* (OrphanStep, AckStep, WriteStep).  A file with nothing in flight and no *)
(* recorded loss has only durable or reported ids (Quiescent).  SnapStep   *)
(* follows what is left to flush for a COMMIT or READ under way, which with *)
(* Quiescent gives the three Covers steps.                                 *)

\* Nothing sent, synced, lost, surfaced or closed is ever forgotten.
LEMMA MonotoneStep ==
  ASSUME IInv, Next
  PROVE  /\ durable \subseteq durable' /\ lost \subseteq lost' /\ reported \subseteq reported'
         /\ sent \subseteq sent' /\ wc \subseteq wc' /\ closed \subseteq closed'
<1> DEFINE Grows == /\ durable \subseteq durable' /\ lost \subseteq lost'
                    /\ reported \subseteq reported' /\ sent \subseteq sent'
                    /\ wc \subseteq wc' /\ closed \subseteq closed'
<1> USE DEF cacheVars, fdVars, trackVars, flushVars, diskVars, replyVars
<1>1. ASSUME NEW c \in Conns, Connect(c) \/ Drain(c) \/ Unregister(c) \/ SweepIdle(c) PROVE Grows
  BY <1>1 DEF Connect, Drain, Unregister, SweepIdle
<1>2. ASSUME NEW c \in Conns, Requesting(c) PROVE Grows
  BY <1>2 DEF Requesting, StartWrite, StartBroadcast
<1>3. ASSUME NEW c \in Conns,
             Lookup(c) \/ OpenFile(c) \/ PutIfFresh(c) \/ PutRefused(c) \/ WriteAtClosed(c) \/ WriteAt(c) PROVE Grows
  BY <1>3 DEF Lookup, OpenFile, PutIfFresh, PutRefused, WriteAtClosed, WriteAt
<1>4. ASSUME NEW c \in Conns,
             StableSync(c) \/ StableDetach(c) \/ StableClosed(c) \/ Wait(c) \/ WriteReply(c) PROVE Grows
  BY <1>4 DEF StableSync, StableDetach, StableClosed, Wait, WriteReply, SyncFd
<1>5. ASSUME NEW c \in Conns,
             CommitGet(c) \/ ReadGet(c) \/ VisitSync(c) \/ VisitDetach(c) \/ VisitClosed(c) PROVE Grows
  BY <1>5 DEF CommitGet, ReadGet, VisitSync, VisitDetach, VisitClosed, SyncFd
<1>6. ASSUME NEW c \in Conns,
             VisitAwait(c) \/ DropConn(c) \/ VisitDone(c) \/ ReadAwait(c) \/ CommitByPath(c) \/ CommitReply(c) PROVE Grows
  BY <1>6 DEF VisitAwait, DropConn, VisitDone, ReadAwait, CommitByPath, CommitReply
<1>7. ASSUME NEW h \in Handles, EvictFlush(h) \/ Finish(h) \/ FireLoss(h) PROVE Grows
  BY <1>7 DEF EvictFlush, Finish, FireLoss
<1> HIDE DEF Grows, cacheVars, fdVars, trackVars, flushVars, diskVars, replyVars
<1>b. Grows
  BY <1>1, <1>2, <1>3, <1>4, <1>5, <1>6, <1>7 DEF Next, Serving, Flushing
<1> QED
  BY <1>b DEF Grows

\* Only writeAt adds to what an fd buffers.
LEMMA BufGrows ==
  ASSUME IInv, Next, NEW g \in Handles, NEW w \in buf'[g], w \notin buf[g]
  PROVE  \E c \in Conns : WriteAt(c) /\ w = req[c].w /\ g = req[c].h
<1> DEFINE ByWrite == \E c \in Conns : WriteAt(c) /\ w = req[c].w /\ g = req[c].h
<1>a. TypeOK /\ ControlInv /\ w \in buf'[g] /\ w \notin buf[g]
  BY DEF IInv
<1> USE DEF TypeOK, cacheVars, fdVars, trackVars, flushVars, diskVars, replyVars
<1>1. ASSUME NEW c \in Conns, Connect(c) \/ Drain(c) \/ Unregister(c) \/ SweepIdle(c) PROVE ByWrite
  BY <1>a, <1>1 DEF Connect, Drain, Unregister, SweepIdle
<1>2. ASSUME NEW c \in Conns, Requesting(c) PROVE ByWrite
  BY <1>a, <1>2 DEF Requesting, StartWrite, StartBroadcast
<1>3. ASSUME NEW c \in Conns,
             Lookup(c) \/ OpenFile(c) \/ PutIfFresh(c) \/ PutRefused(c) \/ WriteAtClosed(c) PROVE ByWrite
  BY <1>a, <1>3 DEF Lookup, OpenFile, PutIfFresh, PutRefused, WriteAtClosed
<1>4. ASSUME NEW c \in Conns,
             StableSync(c) \/ StableDetach(c) \/ StableClosed(c) \/ Wait(c) \/ WriteReply(c) PROVE ByWrite
  BY <1>a, <1>4 DEF StableSync, StableDetach, StableClosed, Wait, WriteReply, SyncFd, ControlInv
<1>5. ASSUME NEW c \in Conns,
             CommitGet(c) \/ ReadGet(c) \/ VisitSync(c) \/ VisitDetach(c) \/ VisitClosed(c) PROVE ByWrite
  BY <1>a, <1>5 DEF CommitGet, ReadGet, VisitSync, VisitDetach, VisitClosed, SyncFd, ControlInv
<1>6. ASSUME NEW c \in Conns,
             VisitAwait(c) \/ DropConn(c) \/ VisitDone(c) \/ ReadAwait(c) \/ CommitByPath(c) \/ CommitReply(c) PROVE ByWrite
  BY <1>a, <1>6 DEF VisitAwait, DropConn, VisitDone, ReadAwait, CommitByPath, CommitReply
<1>7. ASSUME NEW h \in Handles, EvictFlush(h) \/ Finish(h) \/ FireLoss(h) PROVE ByWrite
  BY <1>a, <1>7 DEF EvictFlush, Finish, FireLoss
<1>8. ASSUME NEW c \in Conns, WriteAt(c) PROVE ByWrite
  <2>1. w = req[c].w /\ g = req[c].h
    BY SMTT(30), <1>a, <1>8 DEF WriteAt, ControlInv
  <2> QED
    BY <1>8, <2>1
<1> HIDE DEF ByWrite, TypeOK, cacheVars, fdVars, trackVars, flushVars, diskVars, replyVars
<1>z. ByWrite
  BY <1>1, <1>2, <1>3, <1>4, <1>5, <1>6, <1>7, <1>8 DEF Next, Serving, Flushing
<1> QED
  BY <1>z DEF ByWrite

\* What an fd no longer buffers is durable or lost.
LEMMA BufMoves ==
  ASSUME IInv, Next, NEW g \in Handles, NEW w \in buf[g], w \notin buf'[g]
  PROVE  w \in durable' \/ (w \in lost' /\ g \in closed')
<1> DEFINE Moved == w \in durable' \/ (w \in lost' /\ g \in closed')
<1>a. TypeOK /\ ControlInv /\ w \in buf[g] /\ w \notin buf'[g]
  BY DEF IInv
<1> USE DEF TypeOK, cacheVars, fdVars, trackVars, flushVars, diskVars, replyVars
<1>1. ASSUME NEW c \in Conns, Connect(c) \/ Drain(c) \/ Unregister(c) \/ SweepIdle(c) PROVE Moved
  BY <1>a, <1>1 DEF Connect, Drain, Unregister, SweepIdle
<1>2. ASSUME NEW c \in Conns, Requesting(c) PROVE Moved
  BY <1>a, <1>2 DEF Requesting, StartWrite, StartBroadcast
<1>3. ASSUME NEW c \in Conns,
             Lookup(c) \/ OpenFile(c) \/ PutIfFresh(c) \/ PutRefused(c) \/ WriteAtClosed(c) \/ WriteAt(c) PROVE Moved
  <2>1. CASE WriteAt(c)
    <3>1. buf \in [Handles -> SUBSET Writes]
      BY <1>a
    <3> HIDE DEF TypeOK
    <3> QED
      BY SMTT(30), <1>a, <2>1, <3>1, WriteAtFd
  <2>2. CASE Lookup(c) \/ OpenFile(c) \/ PutIfFresh(c) \/ PutRefused(c) \/ WriteAtClosed(c)
    BY <1>a, <2>2 DEF Lookup, OpenFile, PutIfFresh, PutRefused, WriteAtClosed
  <2> QED
    BY <1>3, <2>1, <2>2
<1>4. ASSUME NEW c \in Conns,
             StableSync(c) \/ StableDetach(c) \/ StableClosed(c) \/ Wait(c) \/ WriteReply(c) PROVE Moved
  BY <1>a, <1>4 DEF StableSync, StableDetach, StableClosed, Wait, WriteReply, SyncFd, ControlInv
<1>5. ASSUME NEW c \in Conns,
             CommitGet(c) \/ ReadGet(c) \/ VisitSync(c) \/ VisitDetach(c) \/ VisitClosed(c) PROVE Moved
  BY <1>a, <1>5 DEF CommitGet, ReadGet, VisitSync, VisitDetach, VisitClosed, SyncFd, ControlInv
<1>6. ASSUME NEW c \in Conns,
             VisitAwait(c) \/ DropConn(c) \/ VisitDone(c) \/ ReadAwait(c) \/ CommitByPath(c) \/ CommitReply(c) PROVE Moved
  BY <1>a, <1>6 DEF VisitAwait, DropConn, VisitDone, ReadAwait, CommitByPath, CommitReply
<1>7. ASSUME NEW h \in Handles, EvictFlush(h) \/ Finish(h) \/ FireLoss(h) PROVE Moved
  BY SMT, <1>a, <1>7 DEF EvictFlush, Finish, FireLoss
<1> HIDE DEF Moved, TypeOK, cacheVars, fdVars, trackVars, flushVars, diskVars, replyVars
<1>z. Moved
  BY <1>1, <1>2, <1>3, <1>4, <1>5, <1>6, <1>7 DEF Next, Serving, Flushing
<1> QED
  BY <1>z DEF Moved

\* A marker stays pending as long as its fd buffers something.
LEMMA PendingKept ==
  ASSUME IInv, Next, NEW k \in Keys, NEW g \in pending[k], buf'[g] # {}
  PROVE  g \in pending'[k]
<1> DEFINE Stays == g \in pending'[k]
<1>a. TypeOK /\ MarkerInv /\ BufferInv /\ g \in pending[k] /\ buf'[g] # {} /\ g \in Handles
  BY DEF IInv, TypeOK
<1> USE DEF TypeOK, cacheVars, fdVars, trackVars, flushVars, diskVars, replyVars
<1>1. ASSUME NEW c \in Conns, Connect(c) \/ Unregister(c) PROVE Stays
  BY <1>a, <1>1 DEF Connect, Unregister
<1>2. ASSUME NEW c \in Conns, Requesting(c) PROVE Stays
  BY <1>a, <1>2 DEF Requesting, StartWrite, StartBroadcast
<1>3. ASSUME NEW c \in Conns,
             Lookup(c) \/ OpenFile(c) \/ PutRefused(c) \/ WriteAtClosed(c) \/ WriteAt(c) PROVE Stays
  BY <1>a, <1>3 DEF Lookup, OpenFile, PutRefused, WriteAtClosed, WriteAt
<1>4. ASSUME NEW c \in Conns,
             StableSync(c) \/ StableClosed(c) \/ Wait(c) \/ WriteReply(c) PROVE Stays
  BY <1>a, <1>4 DEF StableSync, StableClosed, Wait, WriteReply
<1>5. ASSUME NEW c \in Conns,
             CommitGet(c) \/ ReadGet(c) \/ VisitSync(c) \/ VisitClosed(c) PROVE Stays
  BY <1>a, <1>5 DEF CommitGet, ReadGet, VisitSync, VisitClosed
<1>6. ASSUME NEW c \in Conns,
             VisitAwait(c) \/ VisitDone(c) \/ ReadAwait(c) \/ CommitByPath(c) \/ CommitReply(c) PROVE Stays
  BY <1>a, <1>6 DEF VisitAwait, VisitDone, ReadAwait, CommitByPath, CommitReply
<1>7. ASSUME NEW h \in Handles, EvictFlush(h) \/ Finish(h) \/ FireLoss(h) PROVE Stays
  BY SMT, <1>a, <1>7 DEF EvictFlush, Finish, FireLoss, MarkerInv, BufferInv
<1>8. ASSUME NEW c \in Conns, Drain(c) PROVE Stays
  <2>1. PICK S \in SUBSET Handles : Takes(S)
    BY <1>8, DrainTakes
  <2> QED
    BY <1>a, <2>1 DEF Takes
<1>9. ASSUME NEW c \in Conns, SweepIdle(c) PROVE Stays
  <2>1. PICK S \in SUBSET Handles : Takes(S)
    BY <1>9, SweepTakes
  <2> QED
    BY <1>a, <2>1 DEF Takes
<1>10. ASSUME NEW c \in Conns, StableDetach(c) PROVE Stays
  <2>1. PICK S \in SUBSET Handles : Takes(S)
    BY <1>10, StableDetachTakes
  <2> QED
    BY <1>a, <2>1 DEF Takes
<1>11. ASSUME NEW c \in Conns, VisitDetach(c) PROVE Stays
  <2>1. PICK S \in SUBSET Handles : Takes(S)
    BY <1>11, VisitDetachTakes
  <2> QED
    BY <1>a, <2>1 DEF Takes
<1>12. ASSUME NEW c \in Conns, DropConn(c) PROVE Stays
  <2>1. PICK S \in SUBSET Handles : Takes(S)
    BY <1>12, DropTakes
  <2> QED
    BY <1>a, <2>1 DEF Takes
<1>13. ASSUME NEW c \in Conns, PutIfFresh(c) PROVE Stays
  <2>1. PICK S \in SUBSET Handles : Publishes(c, S)
    BY <1>13, PutPublishes
  <2> QED
    BY <1>a, <2>1 DEF Publishes
<1> HIDE DEF Stays, TypeOK, cacheVars, fdVars, trackVars, flushVars, diskVars, replyVars
<1>z. Stays
  BY <1>1, <1>2, <1>3, <1>4, <1>5, <1>6, <1>7, <1>8, <1>9, <1>10, <1>11, <1>12, <1>13 DEF Next, Serving, Flushing
<1> QED
  BY <1>z DEF Stays

\* A cached fd stays in its cache, or leaves it with a marker.
LEMMA CachedKept ==
  ASSUME IInv, Next, NEW t \in Conns, NEW k \in Keys, NEW g \in Handles, entries[t][k] = g
  PROVE  entries'[t][k] = g \/ g \in pending'[k]
<1> DEFINE Stays == entries'[t][k] = g \/ g \in pending'[k]
<1>a. TypeOK /\ CachedInv /\ ControlInv /\ entries[t][k] = g /\ hkey[g] = k /\ g \notin closed
  BY SMTT(30), NilAssumption DEF IInv, CachedInv
<1> USE DEF TypeOK, cacheVars, fdVars, trackVars, flushVars, diskVars, replyVars
<1>1. ASSUME NEW c \in Conns, Connect(c) \/ Unregister(c) PROVE Stays
  BY <1>a, NilAssumption, <1>1 DEF Connect, Unregister
<1>2. ASSUME NEW c \in Conns, Requesting(c) PROVE Stays
  BY <1>a, NilAssumption, <1>2 DEF Requesting, StartWrite, StartBroadcast
<1>3. ASSUME NEW c \in Conns,
             Lookup(c) \/ OpenFile(c) \/ PutRefused(c) \/ WriteAtClosed(c) \/ WriteAt(c) PROVE Stays
  <2>1. CASE WriteAtClosed(c)
    <3> HIDE DEF TypeOK
    <3> QED
      BY <1>a, <2>1, ClosedEntries
  <2>2. CASE Lookup(c) \/ OpenFile(c) \/ PutRefused(c) \/ WriteAt(c)
    BY <1>a, <2>2 DEF Lookup, OpenFile, PutRefused, WriteAt
  <2> QED
    BY <1>3, <2>1, <2>2
<1>4. ASSUME NEW c \in Conns,
             StableSync(c) \/ StableClosed(c) \/ Wait(c) \/ WriteReply(c) PROVE Stays
  BY <1>a, NilAssumption, <1>4 DEF StableSync, StableClosed, Wait, WriteReply
<1>5. ASSUME NEW c \in Conns,
             CommitGet(c) \/ ReadGet(c) \/ VisitSync(c) \/ VisitClosed(c) PROVE Stays
  BY <1>a, NilAssumption, <1>5 DEF CommitGet, ReadGet, VisitSync, VisitClosed
<1>6. ASSUME NEW c \in Conns,
             VisitAwait(c) \/ VisitDone(c) \/ ReadAwait(c) \/ CommitByPath(c) \/ CommitReply(c) PROVE Stays
  BY <1>a, NilAssumption, <1>6 DEF VisitAwait, VisitDone, ReadAwait, CommitByPath, CommitReply
<1>7. ASSUME NEW h \in Handles, EvictFlush(h) \/ Finish(h) \/ FireLoss(h) PROVE Stays
  BY <1>a, NilAssumption, <1>7 DEF EvictFlush, Finish, FireLoss
<1>8. ASSUME NEW c \in Conns, Drain(c) PROVE Stays
  <2>1. PICK S \in SUBSET Handles : Takes(S)
    BY <1>8, DrainTakes
  <2> QED
    BY SMT, <1>a, <2>1 DEF Takes, CachedInv
<1>9. ASSUME NEW c \in Conns, SweepIdle(c) PROVE Stays
  <2>1. PICK S \in SUBSET Handles : Takes(S)
    BY <1>9, SweepTakes
  <2> QED
    BY SMT, <1>a, <2>1 DEF Takes, CachedInv
<1>10. ASSUME NEW c \in Conns, StableDetach(c) PROVE Stays
  <2>1. PICK S \in SUBSET Handles : Takes(S)
    BY <1>10, StableDetachTakes
  <2> QED
    BY SMT, <1>a, <2>1 DEF Takes, CachedInv
<1>11. ASSUME NEW c \in Conns, VisitDetach(c) PROVE Stays
  <2>1. PICK S \in SUBSET Handles : Takes(S)
    BY <1>11, VisitDetachTakes
  <2> QED
    BY SMT, <1>a, <2>1 DEF Takes, CachedInv
<1>12. ASSUME NEW c \in Conns, DropConn(c) PROVE Stays
  <2>1. PICK S \in SUBSET Handles : Takes(S)
    BY <1>12, DropTakes
  <2> QED
    BY SMT, <1>a, <2>1 DEF Takes, CachedInv
<1>13. ASSUME NEW c \in Conns, PutIfFresh(c) PROVE Stays
  <2>1. PICK S \in SUBSET Handles : Publishes(c, S)
    BY <1>13, PutPublishes
  <2> QED
    BY SMT, <1>a, <2>1, NilAssumption DEF Publishes, CachedInv
<1> HIDE DEF Stays, TypeOK, cacheVars, fdVars, trackVars, flushVars, diskVars, replyVars
<1>z. Stays
  BY <1>1, <1>2, <1>3, <1>4, <1>5, <1>6, <1>7, <1>8, <1>9, <1>10, <1>11, <1>12, <1>13 DEF Next, Serving, Flushing
<1> QED
  BY <1>z DEF Stays

\* A connection's label and locals change only in a step of its own goroutine,
\* but for the error that the flush it waits for leaves it.
LEMMA OwnSteps ==
  ASSUME IInv, Next, NEW d \in Conns
  PROVE  \/ Requesting(d) \/ Serving(d)
         \/ pc'[d] = pc[d] /\ req'[d] = req[d]
         \/ /\ pc'[d] = pc[d] /\ pc[d] \in {"closed", "vclosed"}
            /\ req'[d] = [req[d] EXCEPT !.err = TRUE]
            /\ \E h \in Handles : EvictFlush(h)
<1>1. ASSUME NEW c \in Conns, Connect(c) \/ Drain(c) \/ Unregister(c) \/ SweepIdle(c)
      PROVE  pc'[d] = pc[d] /\ req'[d] = req[d]
  BY <1>1 DEF Connect, Drain, Unregister, SweepIdle
<1>2. ASSUME NEW c \in Conns \ {d}, Requesting(c) \/ Serving(c)
      PROVE  pc'[d] = pc[d] /\ req'[d] = req[d]
  BY <1>2, OthersKeep
<1>3. ASSUME NEW h \in Handles, Finish(h) \/ FireLoss(h)
      PROVE  pc'[d] = pc[d] /\ req'[d] = req[d]
  BY <1>3 DEF Finish, FireLoss
<1>4. ASSUME NEW h \in Handles, EvictFlush(h)
      PROVE  /\ pc'[d] = pc[d]
             /\ \/ req'[d] = req[d]
                \/ pc[d] \in {"closed", "vclosed"} /\ req'[d] = [req[d] EXCEPT !.err = TRUE]
  BY <1>4 DEF EvictFlush
<1> QED
  BY <1>1, <1>2, <1>3, <1>4 DEF Next, Flushing

\* An fd between OpenFile and putIfFresh stays private to its request.
LEMMA PrivateStep ==
  ASSUME IInv, Next
  PROVE  PrivateInv'
<1>a. /\ TypeOK /\ ControlInv /\ CachedInv /\ PrivateInv /\ MarkerInv /\ BufferInv
  BY DEF IInv
<1>1. ASSUME NEW d \in Conns, pc'[d] = "publish"
      PROVE  \/ OpenFile(d) /\ Serving(d)
             \/ pc[d] = "publish" /\ req'[d] = req[d]
  BY <1>1, OwnSteps, PublishAfterOpen DEF Serving
<1>2. ASSUME NEW d \in Conns, pc'[d] = "publish", OpenFile(d)
      PROVE  /\ req'[d].h \in Handles /\ hkey[req'[d].h] = Nil
             /\ req'[d].key \in Keys /\ hkey' = [hkey EXCEPT ![req'[d].h] = req'[d].key]
             /\ UNCHANGED <<entries, dirty, closed, flush>>
  <2>1. req[d].key \in Keys /\ req[d] \in Requests /\ pc[d] = "open"
    BY <1>2, <1>a DEF OpenFile, ControlInv, TypeOK
  <2>2. PICK h \in Handles : /\ hkey[h] = Nil /\ hkey' = [hkey EXCEPT ![h] = req[d].key]
                             /\ req' = [req EXCEPT ![d].h = h]
    BY <1>2, <1>a, <2>1 DEF OpenFile, TypeOK, Return, Goto
  <2>3. req'[d].h = h /\ req'[d].key = req[d].key
    BY <2>1, <2>2, <1>a DEF TypeOK, Requests
  <2> QED
    BY <1>2, <2>1, <2>2, <2>3 DEF OpenFile, cacheVars, flushVars
<1>3. ASSUME NEW d \in Conns, NEW e \in Conns, pc'[d] = "publish", pc'[e] = "publish",
             req'[d].h = req'[e].h
      PROVE  d = e
  <2>1. CASE pc[d] = "publish" /\ req'[d] = req[d] /\ pc[e] = "publish" /\ req'[e] = req[e]
    BY <1>a, <1>3, <2>1 DEF PrivateInv
  <2>2. CASE OpenFile(d) /\ Serving(d)
    <3>1. ASSUME e # d PROVE FALSE
      <4>1. pc[e] = "publish" /\ req'[e] = req[e]
        BY <1>3, <2>2, <3>1, OthersKeep
      <4>2. hkey[req[e].h] = req[e].key /\ req[e].key \in Keys
        BY <1>a, <4>1 DEF PrivateInv, ControlInv
      <4> QED
        BY <1>2, <1>3, <2>2, <4>1, <4>2, NilAssumption
    <3> QED
      BY <3>1
  <2>3. CASE OpenFile(e) /\ Serving(e)
    <3>1. ASSUME e # d PROVE FALSE
      <4>1. pc[d] = "publish" /\ req'[d] = req[d]
        BY <1>3, <2>3, <3>1, OthersKeep
      <4>2. hkey[req[d].h] = req[d].key /\ req[d].key \in Keys
        BY <1>a, <4>1 DEF PrivateInv, ControlInv
      <4> QED
        BY <1>2, <1>3, <2>3, <4>1, <4>2, NilAssumption
    <3> QED
      BY <3>1
  <2> QED
    BY <1>1, <1>3, <2>1, <2>2, <2>3
<1>4. ASSUME NEW d \in Conns, pc'[d] = "publish"
      PROVE  /\ hkey'[req'[d].h] = req'[d].key /\ req'[d].h \notin closed'
             /\ flush'[req'[d].h] = "none" /\ req'[d].h \notin dirty'
             /\ \A t \in Conns : entries'[t][req'[d].key] # req'[d].h
  <2>1. CASE pc[d] = "publish" /\ req'[d] = req[d]
    BY <1>4, <2>1, PrivateKept
  <2>2. CASE OpenFile(d)
    <3> DEFINE h == req'[d].h
    <3>1. /\ h \notin closed /\ flush[h] = "none" /\ h \notin dirty
          /\ \A t \in Conns, k \in Keys : entries[t][k] # h
      BY SMTT(30), <1>a, <1>2, <1>4, <2>2, NilAssumption DEF TypeOK, CachedInv, MarkerInv, BufferInv
    <3> QED
      BY SMTT(30), <1>a, <1>2, <1>4, <2>2, <3>1 DEF TypeOK
  <2> QED
    BY <1>1, <1>4, <2>1, <2>2
<1> QED
  BY <1>3, <1>4 DEF PrivateInv

\* A private fd is published, refused and closed, or stays private.
LEMMA PublishEnds ==
  ASSUME IInv, Next, NEW d \in Conns, pc[d] = "publish"
  PROVE  \/ PutIfFresh(d) \/ PutRefused(d)
         \/ pc'[d] = "publish" /\ req'[d] = req[d]
<1>1. ~Requesting(d)
  BY DEF Requesting, StartWrite, StartBroadcast, Ready
<1>2. ASSUME Serving(d) PROVE PutIfFresh(d) \/ PutRefused(d)
  BY <1>2 DEF Serving, Lookup, OpenFile, WriteAtClosed, WriteAt, StableSync, StableDetach,
     StableClosed, Wait, WriteReply, CommitGet, ReadGet, VisitSync, VisitDetach, VisitClosed,
     VisitAwait, DropConn, VisitDone, ReadAwait, CommitByPath, CommitReply
<1> QED
  BY <1>1, <1>2, OwnSteps

\* A detached fd waits for its Close.
LEMMA CloseKept ==
  ASSUME IInv, Next, NEW g \in Handles, flush[g] = "close"
  PROVE  flush'[g] = "close" \/ g \in closed'
<1> DEFINE Waits == flush'[g] = "close" \/ g \in closed'
<1>a. TypeOK /\ flush[g] = "close"
  BY DEF IInv
<1> USE DEF TypeOK, cacheVars, fdVars, trackVars, flushVars, diskVars, replyVars
<1>1. ASSUME NEW c \in Conns, Connect(c) \/ Unregister(c) PROVE Waits
  BY <1>a, <1>1 DEF Connect, Unregister
<1>2. ASSUME NEW c \in Conns, Requesting(c) PROVE Waits
  BY <1>a, <1>2 DEF Requesting, StartWrite, StartBroadcast
<1>3. ASSUME NEW c \in Conns,
             Lookup(c) \/ OpenFile(c) \/ PutRefused(c) \/ WriteAtClosed(c) \/ WriteAt(c) PROVE Waits
  BY <1>a, <1>3 DEF Lookup, OpenFile, PutRefused, WriteAtClosed, WriteAt
<1>4. ASSUME NEW c \in Conns,
             StableSync(c) \/ StableClosed(c) \/ Wait(c) \/ WriteReply(c) PROVE Waits
  BY <1>a, <1>4 DEF StableSync, StableClosed, Wait, WriteReply
<1>5. ASSUME NEW c \in Conns,
             CommitGet(c) \/ ReadGet(c) \/ VisitSync(c) \/ VisitClosed(c) PROVE Waits
  BY <1>a, <1>5 DEF CommitGet, ReadGet, VisitSync, VisitClosed
<1>6. ASSUME NEW c \in Conns,
             VisitAwait(c) \/ VisitDone(c) \/ ReadAwait(c) \/ CommitByPath(c) \/ CommitReply(c) PROVE Waits
  BY <1>a, <1>6 DEF VisitAwait, VisitDone, ReadAwait, CommitByPath, CommitReply
<1>7. ASSUME NEW h \in Handles, EvictFlush(h) \/ Finish(h) \/ FireLoss(h) PROVE Waits
  BY SMT, <1>a, <1>7 DEF EvictFlush, Finish, FireLoss
<1>8. ASSUME NEW c \in Conns, Drain(c) PROVE Waits
  <2>1. PICK S \in SUBSET Handles : Takes(S)
    BY <1>8, DrainTakes
  <2> QED
    BY <1>a, <2>1 DEF Takes
<1>9. ASSUME NEW c \in Conns, SweepIdle(c) PROVE Waits
  <2>1. PICK S \in SUBSET Handles : Takes(S)
    BY <1>9, SweepTakes
  <2> QED
    BY <1>a, <2>1 DEF Takes
<1>10. ASSUME NEW c \in Conns, StableDetach(c) PROVE Waits
  <2>1. PICK S \in SUBSET Handles : Takes(S)
    BY <1>10, StableDetachTakes
  <2> QED
    BY <1>a, <2>1 DEF Takes
<1>11. ASSUME NEW c \in Conns, VisitDetach(c) PROVE Waits
  <2>1. PICK S \in SUBSET Handles : Takes(S)
    BY <1>11, VisitDetachTakes
  <2> QED
    BY <1>a, <2>1 DEF Takes
<1>12. ASSUME NEW c \in Conns, DropConn(c) PROVE Waits
  <2>1. PICK S \in SUBSET Handles : Takes(S)
    BY <1>12, DropTakes
  <2> QED
    BY <1>a, <2>1 DEF Takes
<1>13. ASSUME NEW c \in Conns, PutIfFresh(c) PROVE Waits
  <2>1. PICK S \in SUBSET Handles : Publishes(c, S)
    BY <1>13, PutPublishes
  <2> QED
    BY <1>a, <2>1 DEF Publishes
<1> HIDE DEF Waits, TypeOK, cacheVars, fdVars, trackVars, flushVars, diskVars, replyVars
<1>z. Waits
  BY SMTT(30), <1>1, <1>2, <1>3, <1>4, <1>5, <1>6, <1>7, <1>8, <1>9, <1>10, <1>11, <1>12, <1>13 DEF Next, Serving, Flushing
<1> QED
  BY <1>z DEF Waits

\* Only OpenFile gives an fd its key.
LEMMA KeyKept ==
  ASSUME IInv, Next, NEW g \in Handles, hkey'[g] # hkey[g]
  PROVE  \E c \in Conns : hkey[g] = Nil /\ pc'[c] = "publish" /\ req'[c].h = g
<1> DEFINE ByOpen == \E c \in Conns : hkey[g] = Nil /\ pc'[c] = "publish" /\ req'[c].h = g
<1>a. TypeOK /\ ControlInv /\ hkey'[g] # hkey[g]
  BY DEF IInv
<1> USE DEF TypeOK, cacheVars, fdVars, trackVars, flushVars, diskVars, replyVars
<1>1. ASSUME NEW c \in Conns, Connect(c) \/ Drain(c) \/ Unregister(c) \/ SweepIdle(c) PROVE ByOpen
  BY <1>a, <1>1 DEF Connect, Drain, Unregister, SweepIdle
<1>2. ASSUME NEW c \in Conns, Requesting(c) PROVE ByOpen
  BY <1>a, <1>2 DEF Requesting, StartWrite, StartBroadcast
<1>3. ASSUME NEW c \in Conns,
             Lookup(c) \/ PutIfFresh(c) \/ PutRefused(c) \/ WriteAtClosed(c) \/ WriteAt(c) PROVE ByOpen
  BY <1>a, <1>3 DEF Lookup, PutIfFresh, PutRefused, WriteAtClosed, WriteAt
<1>4. ASSUME NEW c \in Conns,
             StableSync(c) \/ StableDetach(c) \/ StableClosed(c) \/ Wait(c) \/ WriteReply(c) PROVE ByOpen
  BY <1>a, <1>4 DEF StableSync, StableDetach, StableClosed, Wait, WriteReply
<1>5. ASSUME NEW c \in Conns,
             CommitGet(c) \/ ReadGet(c) \/ VisitSync(c) \/ VisitDetach(c) \/ VisitClosed(c) PROVE ByOpen
  BY <1>a, <1>5 DEF CommitGet, ReadGet, VisitSync, VisitDetach, VisitClosed
<1>6. ASSUME NEW c \in Conns,
             VisitAwait(c) \/ DropConn(c) \/ VisitDone(c) \/ ReadAwait(c) \/ CommitByPath(c) \/ CommitReply(c) PROVE ByOpen
  BY <1>a, <1>6 DEF VisitAwait, DropConn, VisitDone, ReadAwait, CommitByPath, CommitReply
<1>7. ASSUME NEW h \in Handles, EvictFlush(h) \/ Finish(h) \/ FireLoss(h) PROVE ByOpen
  BY <1>a, <1>7 DEF EvictFlush, Finish, FireLoss
<1>8. ASSUME NEW c \in Conns, OpenFile(c) PROVE ByOpen
  <2>1. PICK h \in Handles : /\ hkey[h] = Nil /\ hkey' = [hkey EXCEPT ![h] = req[c].key]
                             /\ req' = [req EXCEPT ![c].h = h] /\ Goto(c, "publish")
    BY <1>a, <1>8 DEF OpenFile
  <2>2. g = h
    BY <1>a, <2>1
  <2>3. req'[c].h = h /\ pc'[c] = "publish"
    BY SMT, <1>a, <2>1 DEF Goto, Requests
  <2> QED
    BY <2>1, <2>2, <2>3
<1> HIDE DEF ByOpen, TypeOK, cacheVars, fdVars, trackVars, flushVars, diskVars, replyVars
<1>z. ByOpen
  BY <1>1, <1>2, <1>3, <1>4, <1>5, <1>6, <1>7, <1>8 DEF Next, Serving, Flushing
<1> QED
  BY <1>z DEF ByOpen

-----------------------------------------------------------------------------
(* WRITE.                                                                  *)

\* Only the reply to a WRITE acknowledges it, and no reply takes it back.
LEMMA AckKept ==
  ASSUME IInv, Next, NEW w \in Writes
  PROVE  (ack[w] # Nil => ack'[w] # Nil) /\ (ack[w] = Nil => ack'[w] = Nil \/ \E c \in Conns : WriteReply(c) /\ req[c].w = w)
<1> DEFINE Kept == (ack[w] # Nil => ack'[w] # Nil) /\ (ack[w] = Nil => ack'[w] = Nil \/ \E c \in Conns : WriteReply(c) /\ req[c].w = w)
<1>a. TypeOK /\ ControlInv
  BY DEF IInv
<1>b. ASSUME NEW c \in Conns, TellClient(c) PROVE ack[w] # Nil <=> ack'[w] # Nil
  <2>1. CASE ack[w] # Nil
    <3>1. ack[w] \in Acks
      BY <1>a, <2>1 DEF TypeOK
    <3>2. [ack[w] EXCEPT !.how = "redo"] \in Acks
      BY <3>1 DEF Acks
    <3> QED
      BY <1>b, <2>1, <3>2, NilAssumption DEF TellClient
  <2>2. CASE ack[w] = Nil
    BY <1>b, <2>2 DEF TellClient
  <2> QED
    BY <2>1, <2>2
<1> USE DEF TypeOK, cacheVars, fdVars, trackVars, flushVars, diskVars, replyVars
<1>1. ASSUME NEW c \in Conns, Connect(c) \/ Drain(c) \/ Unregister(c) \/ SweepIdle(c) PROVE Kept
  BY <1>a, <1>b, <1>1 DEF Connect, Drain, Unregister, SweepIdle
<1>2. ASSUME NEW c \in Conns, Requesting(c) PROVE Kept
  BY <1>a, <1>b, <1>2 DEF Requesting, StartWrite, StartBroadcast
<1>3. ASSUME NEW c \in Conns,
             Lookup(c) \/ OpenFile(c) \/ PutIfFresh(c) \/ PutRefused(c) \/ WriteAtClosed(c) \/ WriteAt(c) PROVE Kept
  BY <1>a, <1>b, <1>3 DEF Lookup, OpenFile, PutIfFresh, PutRefused, WriteAtClosed, WriteAt
<1>4. ASSUME NEW c \in Conns,
             StableSync(c) \/ StableDetach(c) \/ StableClosed(c) \/ Wait(c) PROVE Kept
  BY <1>a, <1>b, <1>4 DEF StableSync, StableDetach, StableClosed, Wait
<1>5. ASSUME NEW c \in Conns,
             CommitGet(c) \/ ReadGet(c) \/ VisitSync(c) \/ VisitDetach(c) \/ VisitClosed(c) PROVE Kept
  BY <1>a, <1>b, <1>5 DEF CommitGet, ReadGet, VisitSync, VisitDetach, VisitClosed
<1>6. ASSUME NEW c \in Conns,
             VisitAwait(c) \/ DropConn(c) \/ VisitDone(c) \/ ReadAwait(c) \/ CommitByPath(c) \/ CommitReply(c) PROVE Kept
  BY <1>a, <1>b, <1>6 DEF VisitAwait, DropConn, VisitDone, ReadAwait, CommitByPath, CommitReply
<1>7. ASSUME NEW h \in Handles, EvictFlush(h) \/ Finish(h) \/ FireLoss(h) PROVE Kept
  BY <1>a, <1>b, <1>7 DEF EvictFlush, Finish, FireLoss
<1>8. ASSUME NEW c \in Conns, WriteReply(c) PROVE Kept
  <2>1. req[c].w \in Writes
    BY <1>a, <1>8 DEF WriteReply, ControlInv
  <2>2. CASE w = req[c].w
    <3>1. [conn |-> c, verf |-> verf, how |-> req[c].op] \in Acks
      BY <1>a, <1>8 DEF WriteReply, Acks
    <3> QED
      BY <1>a, <1>8, <2>1, <2>2, <3>1, NilAssumption DEF WriteReply
  <2>3. CASE w # req[c].w
    BY <1>a, <1>8, <2>1, <2>3 DEF WriteReply
  <2> QED
    BY <2>2, <2>3
<1> HIDE DEF Kept, TypeOK, cacheVars, fdVars, trackVars, flushVars, diskVars, replyVars
<1>z. Kept
  BY <1>1, <1>2, <1>3, <1>4, <1>5, <1>6, <1>7, <1>8 DEF Next, Serving, Flushing
<1> QED
  BY <1>z DEF Kept

\* Once written, an id is buffered, durable or lost for ever.
LEMMA PlacedKept ==
  ASSUME IInv, Next, NEW w \in Writes, Placed(w)
  PROVE  Placed(w)'
BY MonotoneStep, BufMoves DEF Placed

\* Every open fd keeps an owner that will close it.
LEMMA OrphanStep ==
  ASSUME IInv, Next
  PROVE  NoOrphanFd'
<1>a. TypeOK /\ ControlInv /\ CachedInv /\ PrivateInv /\ MarkerInv /\ NoOrphanFd
  BY DEF IInv
<1>b. CachedInv' /\ MarkerInv' /\ TypeOK'
  BY CachedStep, MarkerStep, TypeStep
<1>c. SUFFICES ASSUME NEW h \in Handles, hkey'[h] # Nil, h \notin closed'
      PROVE  \/ \E c \in Conns : entries'[c][hkey'[h]] = h /\ phase'[c] = "up"
             \/ flush'[h] = "close"
             \/ \E c \in Conns : pc'[c] = "publish" /\ req'[c].h = h
  BY DEF NoOrphanFd
<1>1. CASE hkey'[h] # hkey[h]
  BY <1>1, KeyKept
<1>2. CASE hkey'[h] = hkey[h]
  <2>1. h \notin closed /\ hkey[h] \in Keys /\ hkey[h] # Nil
    BY <1>a, <1>c, <1>2, MonotoneStep DEF TypeOK
  <2>2. ASSUME NEW c \in Conns, entries'[c][hkey[h]] = h PROVE phase'[c] = "up"
    BY SMTT(30), <1>b, <2>1, <2>2, NilAssumption DEF CachedInv
  <2>3. ASSUME h \in pending'[hkey[h]] PROVE flush'[h] = "close"
    BY <1>b, <1>c, <2>1, <2>3 DEF MarkerInv
  <2>4. CASE \E c \in Conns : entries[c][hkey[h]] = h
    BY <1>2, <2>1, <2>2, <2>3, <2>4, CachedKept
  <2>5. CASE flush[h] = "close"
    BY <1>c, <2>5, CloseKept
  <2>6. CASE \E c \in Conns : pc[c] = "publish" /\ req[c].h = h
    <3>1. PICK c \in Conns : pc[c] = "publish" /\ req[c].h = h
      BY <2>6
    <3>2. CASE PutRefused(c)
      BY <1>c, <3>1, <3>2 DEF PutRefused
    <3>3. CASE PutIfFresh(c)
      <4>1. PICK S \in SUBSET Handles : Publishes(c, S)
        BY <3>3, PutPublishes
      <4>2. hkey[h] = req[c].key
        BY <1>a, <3>1 DEF PrivateInv
      <4>3. entries'[c][hkey[h]] = h
        BY <2>1, <3>1, <4>1, <4>2 DEF Publishes
      <4> QED
        BY <1>2, <2>2, <4>3
    <3> QED
      BY <3>1, <3>2, <3>3, PublishEnds
  <2> QED
    BY <1>a, <2>1, <2>4, <2>5, <2>6 DEF NoOrphanFd
<1> QED
  BY <1>1, <1>2

\* An acknowledged WRITE was sent and its data is somewhere.
LEMMA AckStep ==
  ASSUME IInv, Next
  PROVE  AckInv'
<1>1. SUFFICES ASSUME NEW w \in Writes, ack'[w] # Nil
      PROVE  (w \in sent /\ Placed(w))'
  BY DEF AckInv
<1>2. CASE ack[w] # Nil
  BY <1>2, MonotoneStep, PlacedKept DEF IInv, AckInv
<1>3. CASE ack[w] = Nil
  <2>1. PICK c \in Conns : WriteReply(c) /\ req[c].w = w
    BY <1>1, <1>3, AckKept
  <2>2. w \in sent /\ Placed(w)
    BY <2>1 DEF IInv, WriteInv, WriteReply
  <2> QED
    BY <2>2, MonotoneStep, PlacedKept
<1> QED
  BY <1>2, <1>3

\* A request under way has just begun, or keeps its operation, file and WRITEs.
LEMMA RequestOrigin ==
  ASSUME IInv, Next, NEW d \in Conns, req'[d].op # "none"
  PROVE  \/ Requesting(d)
         \/ /\ req'[d].op = req[d].op /\ req'[d].key = req[d].key
            /\ req'[d].w = req[d].w /\ req'[d].snap = req[d].snap
<1>1. req[d] \in Requests
  BY DEF IInv, TypeOK
<1> QED
  BY <1>1, OwnSteps, KeepsOp DEF Requests

\* A WRITE under way has just begun or was under way before the step.
LEMMA WriteOrigin ==
  ASSUME IInv, Next, NEW d \in Conns, req'[d].op \in {"unstable", "stable"}
  PROVE  \/ /\ req'[d].op = req[d].op /\ req'[d].key = req[d].key /\ req'[d].w = req[d].w
         \/ /\ phase'[d] = "up" /\ d \in wc' /\ req'[d].w \in sent' \ sent /\ req'[d].w \in Writes
            /\ req'[d].key = KeyOf[req'[d].w] /\ pc'[d] = "lookup" /\ UNCHANGED <<buf, ack>>
BY StartedFresh, RequestOrigin

\* The id of a WRITE under way is new, and no other request carries it.
LEMMA WriteIdStep ==
  ASSUME IInv, Next, NEW d \in Conns, req'[d].op \in {"unstable", "stable"}
  PROVE  /\ phase'[d] = "up" /\ d \in wc' /\ req'[d].w \in sent'
         /\ req'[d].key = KeyOf[req'[d].w] /\ ack'[req'[d].w] = Nil
         /\ \A e \in Conns : req'[e].op \in {"unstable", "stable"} /\ req'[e].w = req'[d].w => e = d
<1>a. TypeOK /\ ControlInv /\ WriteInv /\ AckInv
  BY DEF IInv
<1>1. CASE /\ req'[d].op = req[d].op /\ req'[d].key = req[d].key /\ req'[d].w = req[d].w
  <2> DEFINE w == req[d].w
  <2>1. /\ phase[d] = "up" /\ d \in wc /\ w \in sent /\ req[d].key = KeyOf[w] /\ ack[w] = Nil
        /\ \A e \in Conns : req[e].op \in {"unstable", "stable"} /\ req[e].w = w => e = d
        /\ w \in Writes /\ pc[d] # "idle"
    BY <1>a, <1>1 DEF WriteInv, ControlInv
  <2>2. ack'[w] = Nil
    <3>1. ASSUME NEW c \in Conns, WriteReply(c), req[c].w = w PROVE FALSE
      <4>1. c = d
        BY <2>1, <3>1 DEF WriteReply
      <4>2. req'[d].op = "none"
        BY <1>a, <3>1, <4>1 DEF WriteReply, Return, NoReq, TypeOK
      <4> QED
        BY <4>2
    <3> QED
      BY <2>1, <3>1, AckKept
  <2>3. ASSUME NEW e \in Conns, req'[e].op \in {"unstable", "stable"}, req'[e].w = w
        PROVE  e = d
    BY <2>1, <2>3, WriteOrigin
  <2> QED
    BY <1>1, <2>1, <2>2, <2>3, PhaseKept, MonotoneStep
<1>2. CASE /\ phase'[d] = "up" /\ d \in wc' /\ req'[d].w \in sent' \ sent /\ req'[d].w \in Writes
           /\ req'[d].key = KeyOf[req'[d].w] /\ UNCHANGED ack /\ Requesting(d)
  <2>1. ack'[req'[d].w] = Nil
    BY <1>a, <1>2 DEF AckInv
  <2>2. ASSUME NEW e \in Conns, req'[e].op \in {"unstable", "stable"}, req'[e].w = req'[d].w, e # d
        PROVE  FALSE
    <3>1. req'[e] = req[e]
      BY <1>2, <2>2, OthersKeep
    <3> QED
      BY SMTT(30), <1>a, <1>2, <2>2, <3>1 DEF WriteInv
  <2> QED
    BY <1>2, <2>1, <2>2
<1> QED
  BY <1>1, <1>2, WriteOrigin, RequestOrigin

-----------------------------------------------------------------------------
\* What WriteInv says of the fd and of the data of connection c's WRITE.
WriteParts(c) ==
  LET w == req[c].w
      k == req[c].key
      h == req[c].h IN
  /\ pc[c] = "write" => /\ hkey[h] = k
                        /\ h \in closed \/ flush[h] = "close" \/ entries[c][k] = h
  /\ IF pc[c] \in {"lookup", "open", "publish", "write"}
     THEN \A g \in Handles : w \notin buf[g] ELSE Placed(w)
  /\ pc[c] = "sync" => /\ h \in closed \/ w \in durable \cup buf[h]
                       /\ \A g \in Handles : w \in buf[g] => g = h
  /\ pc[c] \in {"sync", "detach"} =>
       \A g \in Handles : w \in buf[g] => entries[c][k] = g \/ g \in pending[k]
  /\ pc[c] \in {"closed", "wait"} => \A g \in Handles : w \in buf[g] => g \in pending[k]
  /\ pc[c] = "reply" /\ req[c].op = "stable" => w \in durable \cup reported

\* They survive the steps of all other goroutines.
LEMMA WritePartsKept ==
  ASSUME IInv, Next, NEW d \in Conns, req[d].op \in {"unstable", "stable"}, WriteParts(d),
         pc'[d] = pc[d], req'[d].op = req[d].op, req'[d].key = req[d].key,
         req'[d].w = req[d].w, req'[d].h = req[d].h
  PROVE  WriteParts(d)'
<1> DEFINE w == req[d].w
           k == req[d].key
           h == req[d].h
<1>a. /\ TypeOK /\ ControlInv /\ CachedInv /\ MarkerInv /\ BufferInv /\ WriteInv
      /\ w \in Writes /\ k \in Keys /\ k # Nil
  BY NilAssumption DEF IInv, ControlInv
<1>b. MarkerInv'
  BY MarkerStep
<1>1. ASSUME NEW g \in Handles, w \in buf'[g] PROVE w \in buf[g]
  <2>1. ASSUME NEW c \in Conns, WriteAt(c), w = req[c].w PROVE FALSE
    <3>1. c = d
      BY <1>a, <2>1 DEF WriteAt, WriteInv, ControlInv
    <3>2. pc[d] = "write" /\ pc'[d] # "write"
      BY <1>a, <2>1, <3>1 DEF WriteAt, Goto, Return, TypeOK
    <3> QED
      BY <3>2
  <2> QED
    BY <1>1, <2>1, BufGrows
<1>2. ASSUME NEW g \in Handles, w \in buf'[g], g \in pending[k] PROVE g \in pending'[k]
  BY <1>a, <1>2, PendingKept
<1>3. ASSUME NEW g \in Handles, w \in buf'[g], entries[d][k] = g \/ g \in pending[k]
      PROVE  entries'[d][k] = g \/ g \in pending'[k]
  BY <1>a, <1>2, <1>3, CachedKept
<1>4. pc[d] = "write" => /\ hkey'[h] = k
                         /\ h \in closed' \/ flush'[h] = "close" \/ entries'[d][k] = h
  <2> SUFFICES ASSUME pc[d] = "write"
               PROVE  /\ hkey'[h] = k
                      /\ h \in closed' \/ flush'[h] = "close" \/ entries'[d][k] = h
    OBVIOUS
  <2>1. h \in Handles /\ hkey[h] = k
    BY <1>a DEF ControlInv, WriteParts
  <2>2. hkey'[h] = k
    BY <1>a, <2>1, KeyKept
  <2>3. CASE h \in closed
    BY <2>2, <2>3, MonotoneStep
  <2>4. CASE flush[h] = "close"
    BY <2>1, <2>2, <2>4, CloseKept
  <2>5. CASE entries[d][k] = h
    <3>1. entries'[d][k] = h \/ h \in pending'[k]
      BY <1>a, <2>1, <2>5, CachedKept
    <3>2. ASSUME h \in pending'[k] PROVE flush'[h] = "close" \/ h \in closed'
      BY <1>a, <1>b, <2>1, <3>2 DEF MarkerInv
    <3> QED
      BY <2>2, <3>1, <3>2
  <2> QED
    BY <2>3, <2>4, <2>5 DEF WriteParts
<1>5. IF pc[d] \in {"lookup", "open", "publish", "write"}
      THEN \A g \in Handles : w \notin buf'[g] ELSE Placed(w)'
  BY <1>1, <1>a, PlacedKept DEF WriteParts
<1>6. pc[d] = "sync" => /\ h \in closed' \/ w \in durable' \cup buf'[h]
                        /\ \A g \in Handles : w \in buf'[g] => g = h
  <2>1. pc[d] = "sync" => h \in Handles
    BY <1>a DEF ControlInv
  <2> QED
    BY <1>1, <2>1, MonotoneStep, BufMoves DEF WriteParts
<1>7. pc[d] \in {"sync", "detach"} =>
        \A g \in Handles : w \in buf'[g] => entries'[d][k] = g \/ g \in pending'[k]
  BY <1>1, <1>3 DEF WriteParts
<1>8. pc[d] \in {"closed", "wait"} => \A g \in Handles : w \in buf'[g] => g \in pending'[k]
  BY <1>1, <1>2 DEF WriteParts
<1>9. pc[d] = "reply" /\ req[d].op = "stable" => w \in durable' \cup reported'
  BY MonotoneStep DEF WriteParts
<1> QED
  BY <1>4, <1>5, <1>6, <1>7, <1>8, <1>9 DEF WriteParts, Placed

\* When nothing of file k is being flushed any more and no loss is recorded, what
\* was written to it and is not buffered is durable, or its loss was surfaced.
LEMMA Quiescent ==
  ASSUME IInv, NEW w \in Writes, Placed(w), pending[KeyOf[w]] = {}, KeyOf[w] \notin errs,
         \A g \in Handles : w \notin buf[g]
  PROVE  w \in durable \cup reported
<1>1. KeyOf[w] \in Keys
  BY KeyOfAssumption
<1>2. ASSUME NEW h \in lossy, hkey[h] = KeyOf[w] PROVE FALSE
  BY <1>1, <1>2 DEF IInv, TypeOK, MarkerInv
<1> QED
  BY <1>2 DEF Placed, IInv, LossInv

\* The steps of the WRITE itself.
LEMMA WritePartsOwn ==
  ASSUME IInv, Next, NEW d \in Conns, Serving(d), WriteParts(d), req[d].op \in {"unstable", "stable"},
         req'[d].op = req[d].op, req'[d].key = req[d].key, req'[d].w = req[d].w
  PROVE  WriteParts(d)'
<1> DEFINE w == req[d].w
           k == req[d].key
           h == req[d].h
<1>a. /\ TypeOK /\ ControlInv /\ CachedInv /\ PrivateInv /\ MarkerInv /\ BufferInv /\ WriteInv
      /\ w \in Writes /\ k \in Keys /\ k # Nil /\ k = KeyOf[w]
      /\ pc \in [Conns -> PCs] /\ req \in [Conns -> Requests]
  <2>1. w \in Writes /\ k \in Keys
    BY DEF IInv, ControlInv
  <2>2. k = KeyOf[w]
    BY DEF IInv, WriteInv
  <2>3. pc \in [Conns -> PCs] /\ req \in [Conns -> Requests]
    BY DEF IInv, TypeOK
  <2> QED
    BY <2>1, <2>2, <2>3, NilAssumption DEF IInv
<1>b. ~Return(d)
  BY SMT, <1>a DEF Return, NoReq
<1>c. \A g \in Handles : g \in closed => buf[g] = {}
  BY <1>a DEF BufferInv
<1>1. CASE Lookup(d)
  <2>1. /\ pc[d] = "lookup" /\ UNCHANGED <<buf, hkey, closed, entries, flush>>
        /\ \/ pc'[d] = "open"
           \/ pc'[d] = "write" /\ req'[d].h = entries[d][k] /\ entries[d][k] # Nil
    BY SMTT(30), <1>a, <1>1 DEF Lookup, Goto, Requests, fdVars, cacheVars, flushVars
  <2>2. entries[d][k] # Nil => hkey[entries[d][k]] = k
    BY SMT, <1>a DEF CachedInv
  <2> QED
    BY <2>1, <2>2 DEF WriteParts
<1>2. CASE OpenFile(d)
  <2>1. pc[d] = "open" /\ pc'[d] = "publish" /\ UNCHANGED buf
    BY <1>a, <1>b, <1>2 DEF OpenFile, Goto
  <2> QED
    BY <2>1 DEF WriteParts
<1>3. CASE PutIfFresh(d)
  <2>1. PICK S \in SUBSET Handles : Publishes(d, S)
    BY <1>3, PutPublishes
  <2>2. /\ pc[d] = "publish" /\ pc'[d] = "write" /\ UNCHANGED <<buf, hkey>> /\ req'[d].h = h
        /\ hkey[h] = k /\ entries'[d][k] = h
    BY <1>a, <2>1 DEF Publishes, PrivateInv, fdVars
  <2> QED
    BY <2>2 DEF WriteParts
<1>4. CASE PutRefused(d) \/ WriteAtClosed(d)
  <2>1. /\ pc[d] \in {"publish", "write"} /\ pc'[d] = "lookup" /\ UNCHANGED buf
    BY <1>a, <1>b, <1>4 DEF PutRefused, WriteAtClosed, Retry, Goto, fdVars
  <2> QED
    BY <2>1 DEF WriteParts
<1>5. CASE WriteAt(d)
  <2>1. /\ pc[d] = "write" /\ h \in Handles /\ h \notin closed /\ req' = req
        /\ buf' = [buf EXCEPT ![h] = @ \cup {w}]
        /\ pc'[d] = IF req[d].op = "stable" THEN "sync" ELSE "reply"
        /\ UNCHANGED <<entries, pending>>
    BY <1>a, <1>b, <1>5 DEF WriteAt, Goto, ControlInv, cacheVars, trackVars
  <2>2. w \in buf'[h] /\ \A g \in Handles : w \in buf'[g] => g = h
    BY <1>a, <2>1 DEF WriteParts, TypeOK
  <2>3. entries[d][k] = h \/ h \in pending[k]
    BY <1>a, <2>1 DEF WriteParts, MarkerInv
  <2> QED
    BY <2>1, <2>2, <2>3 DEF WriteParts, Placed
<1>6. CASE StableSync(d)
  <2>1. pc[d] = "sync" /\ h \in Handles /\ UNCHANGED <<entries, pending>> /\ req' = req
    BY <1>a, <1>b, <1>6 DEF StableSync, ControlInv, cacheVars, trackVars
  <2>2. Placed(w)'
    BY <1>a, <2>1, PlacedKept DEF WriteParts
  <2>3. CASE h \in closed
    <3>1. pc'[d] = "wait" /\ UNCHANGED buf
      BY <1>a, <1>6, <2>3 DEF StableSync, Goto
    <3> QED
      BY <1>c, <2>1, <2>2, <2>3, <3>1 DEF WriteParts
  <2>4. CASE h \notin closed /\ HasSync
    <3>1. pc'[d] = "reply" /\ durable' = durable \cup buf[h]
      BY <1>a, <1>b, <1>6, <2>4 DEF StableSync, SyncFd, Goto
    <3> QED
      BY <2>1, <2>2, <2>4, <3>1 DEF WriteParts
  <2>5. CASE h \notin closed /\ ~HasSync
    <3>1. pc'[d] = "detach" /\ UNCHANGED buf
      BY <1>a, <1>6, <2>5 DEF StableSync, Goto
    <3> QED
      BY <2>1, <2>2, <3>1 DEF WriteParts
  <2> QED
    BY <2>3, <2>4, <2>5
<1>7. CASE StableDetach(d)
  <2>1. pc[d] = "detach" /\ pc'[d] \in {"wait", "closed"} /\ UNCHANGED buf /\ entries'[d][k] = Nil
    <3>1. entries \in [Conns -> [Keys -> Handles \cup {Nil}]]
      BY <1>a DEF TypeOK
    <3>2. pc[d] = "detach" /\ UNCHANGED buf
      BY <1>7 DEF StableDetach, fdVars
    <3>3. \/ Goto(d, "wait") /\ entries' = entries /\ entries[d][k] = Nil
          \/ Goto(d, "closed") /\ entries' = [entries EXCEPT ![d][k] = Nil]
      BY <1>7 DEF StableDetach
    <3>4. pc'[d] \in {"wait", "closed"}
      BY <1>a, <3>3 DEF Goto
    <3>5. entries'[d][k] = Nil
      BY <1>a, <3>1, <3>3
    <3> QED
      BY <3>2, <3>4, <3>5
  <2>2. Placed(w)'
    BY <1>a, <2>1, PlacedKept DEF WriteParts
  <2>3. ASSUME NEW g \in Handles, w \in buf'[g] PROVE g \in pending'[k]
    <3>1. CASE entries[d][k] = g
      BY <1>a, <2>1, <3>1, CachedKept, NilAssumption
    <3>2. CASE g \in pending[k]
      BY <1>a, <2>3, <3>2, PendingKept
    <3> QED
      BY <2>1, <2>3, <3>1, <3>2 DEF WriteParts
  <2> QED
    BY <2>1, <2>2, <2>3 DEF WriteParts
<1>8. CASE StableClosed(d)
  <2>1. pc[d] = "closed" /\ pc'[d] = "wait" /\ UNCHANGED <<buf, pending>>
    BY <1>a, <1>b, <1>8 DEF StableClosed, Goto, fdVars, trackVars
  <2>2. Placed(w)'
    BY <1>a, <2>1, PlacedKept DEF WriteParts
  <2> QED
    BY <2>1, <2>2 DEF WriteParts
<1>9. CASE Wait(d)
  <2>1. /\ pc[d] = "wait" /\ pending[k] = {} /\ k \notin errs /\ pc'[d] = "reply"
        /\ UNCHANGED <<durable, reported>>
    BY <1>a, <1>b, <1>9 DEF Wait, Goto
  <2>2. Placed(w)'
    BY <1>a, <2>1, PlacedKept DEF WriteParts
  <2>3. w \in durable \cup reported
    BY <1>a, <2>1, Quiescent DEF WriteParts
  <2> QED
    BY <2>1, <2>2, <2>3 DEF WriteParts
<1>10. ~WriteReply(d) /\ ~CommitByPath(d)
  BY <1>a, <1>b DEF WriteReply, CommitByPath, ControlInv
<1>11. pc[d] \notin {"visit", "vsync", "vdetach", "vclosed", "vawait", "rawait"}
  BY <1>a DEF ControlInv
<1> QED
  BY ZenonT(40), <1>1, <1>2, <1>3, <1>4, <1>5, <1>6, <1>7, <1>8, <1>9, <1>10, <1>11
  DEF Serving, CommitGet, ReadGet, VisitSync, VisitDetach, VisitClosed, VisitAwait, DropConn,
      VisitDone, ReadAwait, CommitReply

\* WriteInv is preserved by every step.
LEMMA WriteStep ==
  ASSUME IInv, Next
  PROVE  WriteInv'
<1>a. TypeOK /\ ControlInv /\ WriteInv /\ BufferInv
  BY DEF IInv
<1>1. ASSUME NEW d \in Conns, req'[d].op \in {"unstable", "stable"} PROVE WriteParts(d)'
  <2>1. CASE Requesting(d)
    <3>1. /\ req'[d].w \in sent' \ sent /\ pc'[d] = "lookup" /\ UNCHANGED buf
      BY <1>1, <2>1, WriteOrigin, StartedFresh
    <3> QED
      BY <1>a, <3>1 DEF BufferInv, WriteParts
  <2>2. CASE /\ req'[d].op = req[d].op /\ req'[d].key = req[d].key /\ req'[d].w = req[d].w
    <3>1. WriteParts(d) /\ req[d].op \in {"unstable", "stable"}
      BY <1>a, <1>1, <2>2 DEF WriteInv, WriteParts
    <3>2. CASE Serving(d)
      BY <2>2, <3>1, <3>2, WritePartsOwn
    <3>3. CASE pc'[d] = pc[d] /\ req'[d].h = req[d].h
      BY <2>2, <3>1, <3>3, WritePartsKept
    <3>4. req[d] \in Requests
      BY <1>a DEF TypeOK
    <3>5. [req[d] EXCEPT !.err = TRUE].h = req[d].h
      BY <3>4 DEF Requests
    <3> QED
      BY <2>1, <3>2, <3>3, <3>5, OwnSteps
  <2> QED
    BY <1>1, <2>1, <2>2, RequestOrigin
<1>2. ASSUME NEW d \in Conns, req'[d].op \in {"unstable", "stable"}
      PROVE  /\ phase'[d] = "up" /\ d \in wc' /\ req'[d].w \in sent'
             /\ req'[d].key = KeyOf[req'[d].w] /\ ack'[req'[d].w] = Nil
             /\ \A e \in Conns : req'[e].op \in {"unstable", "stable"} /\ req'[e].w = req'[d].w => e = d
  BY <1>2, WriteIdStep
<1> QED
  BY <1>1, <1>2 DEF WriteInv, WriteParts

-----------------------------------------------------------------------------
(* COMMIT and READ, and the theorems.                                      *)

\* What SnapInv says of connection c's COMMIT or READ.
Rest(c) == req[c].todo \ (IF pc[c] \in {"vclosed", "vawait"} THEN {req[c].tgt} ELSE {})

Covered(c, w, g) ==
  \/ g \in pending[req[c].key]
  \/ \E t \in Rest(c) : /\ entries[t][req[c].key] = g
                        /\ pc[c] = "vsync" /\ t = req[c].tgt => req[c].h = g

SnapParts(c) ==
  \A w \in req[c].snap :
    /\ ack[w] # Nil /\ KeyOf[w] = req[c].key
    /\ pc[c] \in {"path", "reply"} => w \in durable \cup reported
    /\ ~req[c].err => \A g \in Handles : w \in buf[g] => Covered(c, w, g)

\* Nothing is added to what is buffered of an acknowledged WRITE.
LEMMA AckedBufShrinks ==
  ASSUME IInv, Next, NEW w \in Writes, ack[w] # Nil, NEW g \in Handles, w \in buf'[g]
  PROVE  w \in buf[g]
<1>1. ASSUME NEW c \in Conns, WriteAt(c), w = req[c].w PROVE FALSE
  BY <1>1 DEF IInv, WriteAt, ControlInv, WriteInv
<1> QED
  BY <1>1, BufGrows

\* Types of the locals of a request under way.
LEMMA SnapTypes ==
  ASSUME IInv, NEW d \in Conns, req[d].op # "none"
  PROVE  /\ req[d].snap \subseteq Writes /\ req[d].key \in Keys /\ req[d].todo \subseteq Conns
         /\ Rest(d) \subseteq Conns /\ req[d] \in Requests /\ req[d].key # Nil
BY SMTT(30), NilAssumption DEF IInv, TypeOK, ControlInv, Requests, Rest

\* The parts survive the steps of all other goroutines.
LEMMA SnapPartsKept ==
  ASSUME IInv, Next, NEW d \in Conns, req[d].op \in {"commit", "read"}, SnapParts(d),
         pc'[d] = pc[d], req'[d] = req[d] \/ req'[d] = [req[d] EXCEPT !.err = TRUE]
  PROVE  SnapParts(d)'
<1>1. /\ req[d].snap \subseteq Writes /\ req[d].key \in Keys /\ req[d].todo \subseteq Conns
      /\ Rest(d) \subseteq Conns /\ req[d] \in Requests
  BY SnapTypes
<1>2. /\ req'[d].snap = req[d].snap /\ req'[d].key = req[d].key /\ req'[d].todo = req[d].todo
      /\ req'[d].tgt = req[d].tgt /\ req'[d].h = req[d].h /\ (~req'[d].err => ~req[d].err)
  BY <1>1 DEF Requests
<1>3. Rest(d)' = Rest(d)
  BY <1>2 DEF Rest
<1>4. ASSUME NEW w \in req[d].snap
      PROVE  /\ ack'[w] # Nil /\ KeyOf[w] = req[d].key
             /\ pc[d] \in {"path", "reply"} => w \in durable' \cup reported'
  BY <1>1, AckKept, MonotoneStep DEF SnapParts
<1>5. ASSUME NEW w \in req[d].snap, ~req'[d].err, NEW g \in Handles, w \in buf'[g]
      PROVE  Covered(d, w, g)'
  <2>1. w \in Writes /\ ack[w] # Nil /\ ~req[d].err
    BY <1>1, <1>2, <1>5 DEF SnapParts
  <2>2. w \in buf[g]
    BY <1>5, <2>1, AckedBufShrinks
  <2>3. Covered(d, w, g)
    BY <2>1, <2>2 DEF SnapParts
  <2>4. CASE g \in pending[req[d].key]
    BY <1>1, <1>2, <1>5, <2>4, PendingKept DEF Covered
  <2>5. CASE \E t \in Rest(d) : /\ entries[t][req[d].key] = g
                                /\ pc[d] = "vsync" /\ t = req[d].tgt => req[d].h = g
    <3>1. PICK t \in Rest(d) : /\ entries[t][req[d].key] = g
                               /\ pc[d] = "vsync" /\ t = req[d].tgt => req[d].h = g
      BY <2>5
    <3>2. entries'[t][req[d].key] = g \/ g \in pending'[req[d].key]
      BY <1>1, <3>1, CachedKept
    <3> QED
      BY <1>2, <1>3, <3>1, <3>2 DEF Covered
  <2> QED
    BY <2>3, <2>4, <2>5 DEF Covered
<1> QED
  BY <1>2, <1>4, <1>5 DEF SnapParts

\* A broadcast starts with every connection that may hold an acknowledged WRITE.
LEMMA SnapPartsStart ==
  ASSUME IInv, NEW d \in Conns, NEW k \in Keys, NEW op \in {"commit", "read"},
         StartBroadcast(d, k, op)
  PROVE  SnapParts(d)'
<1>a. TypeOK /\ MarkerInv /\ BufferInv /\ NoOrphanFd /\ PrivateInv /\ AckInv
  BY DEF IInv
<1>1. /\ req'[d].key = k /\ req'[d].todo = Registered /\ pc'[d] = "visit"
      /\ req'[d].snap = {w \in Writes : ack[w] # Nil /\ KeyOf[w] = k}
      /\ UNCHANGED <<entries, pending, buf, ack>>
  BY <1>a DEF StartBroadcast, NoReq, Goto, TypeOK, cacheVars, trackVars, fdVars, replyVars
<1>2. Rest(d)' = Registered
  BY <1>1 DEF Rest
<1>3. ASSUME NEW g \in Handles, NEW w \in Writes, w \in buf[g], KeyOf[w] = k
      PROVE  g \in pending[k] \/ \E t \in Registered : entries[t][k] = g
  <2>1. hkey[g] = k /\ g \in dirty /\ g \notin closed /\ hkey[g] # Nil
    BY <1>a, <1>3, NilAssumption DEF BufferInv
  <2>2. ~\E c \in Conns : pc[c] = "publish" /\ req[c].h = g
    BY <1>a, <2>1 DEF PrivateInv
  <2> QED
    BY <1>a, <2>1, <2>2 DEF NoOrphanFd, MarkerInv, Registered
<1> QED
  BY <1>1, <1>2, <1>3 DEF SnapParts, Covered

\* What the broadcast loop changes when it moves on.
LEMMA NextConnFields ==
  ASSUME TypeOK, NEW c \in Conns, NEW failed, NextConn(c, failed)
  PROVE  /\ pc'[c] = "visit" /\ req'[c].todo = req[c].todo \ {req[c].tgt}
         /\ req'[c].key = req[c].key /\ req'[c].snap = req[c].snap
         /\ (~req'[c].err => ~req[c].err) /\ (failed => req'[c].err)
BY SMT DEF TypeOK, Requests, NextConn, Goto

\* The parts after a step of the request, from what remains to be visited.
LEMMA SnapPartsFrom ==
  ASSUME IInv, Next, NEW d \in Conns, SnapParts(d), req[d].op \in {"commit", "read"},
         req'[d].key = req[d].key, req'[d].snap = req[d].snap,
         ~req'[d].err => ~req[d].err,
         pc'[d] \notin {"path", "reply"},
         \A w \in Writes, g \in Handles :
           ~req'[d].err /\ w \in buf'[g] /\ Covered(d, w, g) => Covered(d, w, g)'
  PROVE  SnapParts(d)'
<1>1. req[d].snap \subseteq Writes
  BY SnapTypes
<1>2. ASSUME NEW w \in req[d].snap
      PROVE  ack'[w] # Nil /\ KeyOf[w] = req[d].key
  BY <1>1, AckKept DEF SnapParts
<1>3. ASSUME NEW w \in req[d].snap, ~req'[d].err, NEW g \in Handles, w \in buf'[g]
      PROVE  Covered(d, w, g)'
  <2>1. w \in Writes /\ ack[w] # Nil /\ ~req[d].err
    BY <1>1, <1>3 DEF SnapParts
  <2>2. w \in buf[g]
    BY <1>3, <2>1, AckedBufShrinks
  <2> QED
    BY <1>3, <2>1, <2>2 DEF SnapParts
<1> QED
  BY <1>2, <1>3 DEF SnapParts

\* The steps of the COMMIT or READ itself.
LEMMA SnapPartsOwn ==
  ASSUME IInv, Next, NEW d \in Conns, Serving(d), SnapParts(d), req[d].op \in {"commit", "read"},
         req'[d].op = req[d].op, req'[d].key = req[d].key, req'[d].snap = req[d].snap
  PROVE  SnapParts(d)'
<1> DEFINE k == req[d].key
           h == req[d].h
           Keeps == \A w \in Writes, g \in Handles :
                      ~req'[d].err /\ w \in buf'[g] /\ Covered(d, w, g) => Covered(d, w, g)'
<1>a. /\ TypeOK /\ ControlInv /\ CachedInv /\ MarkerInv /\ BufferInv /\ AckInv
      /\ k \in Keys /\ k # Nil /\ req[d].snap \subseteq Writes /\ req[d].todo \subseteq Conns
      /\ pc \in [Conns -> PCs] /\ req \in [Conns -> Requests] /\ Nil \notin Handles
  BY SnapTypes, NilAssumption DEF IInv, TypeOK
<1>b. ~Return(d)
  BY SMT, <1>a DEF Return, NoReq
<1>c. \A g \in Handles : g \in closed \/ g \notin dirty => buf[g] = {}
  BY <1>a DEF BufferInv
<1>d. ASSUME Keeps, ~req'[d].err => ~req[d].err, pc'[d] \notin {"path", "reply"}
      PROVE  SnapParts(d)'
  BY <1>d, SnapPartsFrom
<1>1. CASE CommitGet(d)
  <2>1. PICK t \in req[d].todo :
          \/ /\ entries[t][k] = Nil /\ req' = [req EXCEPT ![d].todo = @ \ {t}] /\ pc' = pc
          \/ /\ req' = [req EXCEPT ![d].tgt = t, ![d].h = entries[t][k], ![d].found = TRUE]
             /\ Goto(d, "vsync")
    BY <1>1 DEF CommitGet
  <2>2. /\ pc[d] = "visit" /\ UNCHANGED <<entries, pending, buf>> /\ req'[d].err = req[d].err
        /\ \/ /\ entries[t][k] = Nil /\ req'[d].todo = req[d].todo \ {t} /\ pc'[d] = "visit"
           \/ /\ req'[d].tgt = t /\ req'[d].h = entries[t][k] /\ pc'[d] = "vsync"
              /\ req'[d].todo = req[d].todo
    BY SMTT(30), <1>a, <1>1, <2>1 DEF CommitGet, Goto, Requests, cacheVars, trackVars, fdVars
  <2>3. Keeps
    BY SMTT(30), <1>a, <2>2 DEF Covered, Rest
  <2> QED
    BY <1>d, <2>2, <2>3
<1>2. CASE ReadGet(d)
  <2>1. PICK t \in req[d].todo :
          \/ /\ t \notin wc /\ req' = [req EXCEPT ![d].todo = @ \ {t}] /\ pc' = pc
          \/ /\ req' = [req EXCEPT ![d].tgt = t, ![d].h = entries[t][k]]
             /\ Goto(d, IF entries[t][k] = Nil THEN "vawait" ELSE "vsync")
    BY <1>2 DEF ReadGet
  <2>2. t \in Conns /\ (t \notin wc => entries[t][k] = Nil)
    BY <1>a DEF CachedInv
  <2>3. /\ pc[d] = "visit" /\ UNCHANGED <<entries, pending, buf>> /\ req'[d].err = req[d].err
        /\ \/ /\ t \notin wc /\ req'[d].todo = req[d].todo \ {t} /\ pc'[d] = "visit"
           \/ /\ req'[d].tgt = t /\ req'[d].h = entries[t][k]
              /\ pc'[d] = IF entries[t][k] = Nil THEN "vawait" ELSE "vsync"
              /\ req'[d].todo = req[d].todo
    BY SMTT(30), <1>a, <1>2, <2>1 DEF ReadGet, Goto, Requests, cacheVars, trackVars, fdVars
  <2>4. Keeps
    BY SMTT(30), <1>a, <2>2, <2>3 DEF Covered, Rest
  <2> QED
    BY <1>d, <2>3, <2>4
<1>3. CASE VisitSync(d)
  <2>1. pc[d] = "vsync" /\ h \in Handles /\ UNCHANGED <<entries, pending>>
    BY <1>a, <1>3 DEF VisitSync, ControlInv, cacheVars, trackVars
  <2>2. CASE /\ h \in closed /\ req[d].op = "read" /\ pc'[d] = "vawait"
             /\ UNCHANGED <<req, buf>>
    <3>1. Keeps
      BY <1>c, <2>1, <2>2 DEF Covered, Rest
    <3> QED
      BY <1>d, <2>2, <3>1
  <2>3. CASE /\ NextConn(d, FALSE) /\ buf'[h] = {}
             /\ \A g \in Handles : g # h => buf'[g] = buf[g]
    <3>1. pc'[d] = "visit" /\ req'[d].todo = req[d].todo \ {req[d].tgt} /\ (~req'[d].err => ~req[d].err)
      BY <1>a, <2>3, NextConnFields
    <3>2. Keeps
      BY SMTT(30), <2>1, <2>3, <3>1 DEF Covered, Rest
    <3> QED
      BY <1>d, <3>1, <3>2
  <2>4. CASE NextConn(d, TRUE)
    <3>1. pc'[d] = "visit" /\ req'[d].err
      BY <1>a, <2>4, NextConnFields
    <3> QED
      BY <1>d, <3>1
  <2>5. CASE pc'[d] = "vdetach" /\ UNCHANGED <<req, buf>>
    <3>1. Keeps
      BY <2>1, <2>5 DEF Covered, Rest
    <3> QED
      BY <1>d, <2>5, <3>1
  <2> QED
    <3>1. buf \in [Handles -> SUBSET Writes]
      BY <1>a DEF TypeOK
    <3> QED
      BY <1>3, <1>a, <1>c, <2>1, <2>2, <2>3, <2>4, <2>5, <3>1 DEF VisitSync, SyncFd, Goto
<1>4. CASE VisitDetach(d)
  <2>1. /\ pc[d] = "vdetach" /\ req[d].tgt \in Conns /\ UNCHANGED buf
    BY <1>a, <1>4 DEF VisitDetach, ControlInv, fdVars
  <2>2. CASE entries[req[d].tgt][k] = Nil
    <3>1. NextConn(d, FALSE) /\ UNCHANGED <<entries, pending>>
      BY <1>4, <2>2 DEF VisitDetach
    <3>2. pc'[d] = "visit" /\ req'[d].todo = req[d].todo \ {req[d].tgt} /\ (~req'[d].err => ~req[d].err)
      BY <1>a, <3>1, NextConnFields
    <3>3. Keeps
      BY <1>a, <2>1, <2>2, <3>1, <3>2 DEF Covered, Rest
    <3> QED
      BY <1>d, <3>2, <3>3
  <2>3. CASE entries[req[d].tgt][k] # Nil
    <3>1. /\ hkey[entries[req[d].tgt][k]] = k /\ entries[req[d].tgt][k] \in Handles
      <4>1. k \in Keys /\ entries[req[d].tgt][k] \in Handles \cup {Nil}
        BY SMT, <1>a, <2>1 DEF TypeOK
      <4> QED
        BY SMTT(30), <1>a, <2>1, <2>3, <4>1 DEF CachedInv
    <3>2. /\ pc'[d] = "vclosed" /\ UNCHANGED req
          /\ pending' = [j \in Keys |-> pending[j] \cup
                           {g \in {entries[req[d].tgt][k]} : hkey[g] = j}]
          /\ entries' = [entries EXCEPT ![req[d].tgt][k] = Nil]
      BY <1>a, <1>4, <2>3 DEF VisitDetach, Detach, Goto
    <3>3. /\ entries[req[d].tgt][k] \in pending'[k] /\ pending[k] \subseteq pending'[k]
          /\ \A t \in Conns : t # req[d].tgt => entries'[t][k] = entries[t][k]
      BY <1>a, <2>1, <3>1, <3>2 DEF TypeOK
    <3>4. Rest(d)' = Rest(d) \ {req[d].tgt}
      BY <2>1, <3>2 DEF Rest
    <3>5. Keeps
      <4> SUFFICES ASSUME NEW w \in Writes, NEW g \in Handles, Covered(d, w, g)
                   PROVE  g \in pending'[k] \/ \E t \in Rest(d)' : entries'[t][k] = g
        BY SMTT(30), <3>2 DEF Covered
      <4>1. Rest(d) \subseteq Conns
        BY SnapTypes
      <4>2. g \in pending[k] \/ \E t \in Rest(d) : entries[t][k] = g
        BY DEF Covered
      <4> QED
        BY <3>3, <3>4, <4>1, <4>2
    <3> QED
      BY <1>d, <3>2, <3>5
  <2> QED
    BY <2>2, <2>3
<1>5. CASE VisitClosed(d) \/ VisitAwait(d)
  <2>1. /\ pc[d] \in {"vclosed", "vawait"} /\ UNCHANGED <<entries, pending, buf>>
        /\ NextConn(d, FALSE) \/ NextConn(d, k \in errs)
    BY <1>5 DEF VisitClosed, VisitAwait, cacheVars, trackVars, fdVars
  <2>2. /\ pc'[d] = "visit" /\ req'[d].todo = req[d].todo \ {req[d].tgt}
        /\ (~req'[d].err => ~req[d].err)
    BY <1>a, <2>1, NextConnFields
  <2>3. Keeps
    BY <2>1, <2>2 DEF Covered, Rest
  <2> QED
    BY <1>d, <2>2, <2>3
<1>6. CASE VisitDone(d)
  <2>1. /\ pc[d] = "visit" /\ pc'[d] \in {"wait", "rawait"} /\ UNCHANGED <<req, entries, pending, buf>>
    BY <1>a, <1>b, <1>6 DEF VisitDone, Goto, cacheVars, trackVars, fdVars
  <2>2. Keeps
    BY <2>1 DEF Covered, Rest
  <2> QED
    BY <1>d, <2>1, <2>2
<1>7. CASE Wait(d)
  <2>1. /\ pc[d] = "wait" /\ pc'[d] \in {"path", "reply"} /\ pending[k] = {} /\ k \notin errs
        /\ UNCHANGED <<buf, durable, reported, ack>>
    BY <1>a, <1>b, <1>7 DEF Wait, Goto, fdVars
  <2>2. req[d].todo = {} /\ ~req[d].err
    BY <1>a, <2>1 DEF ControlInv
  <2>3. ASSUME NEW w \in req[d].snap
        PROVE  /\ ack'[w] # Nil /\ KeyOf[w] = k /\ w \in durable' \cup reported'
               /\ \A g \in Handles : w \notin buf'[g]
    <3>1. w \in Writes /\ ack[w] # Nil /\ KeyOf[w] = k /\ \A g \in Handles : w \notin buf[g]
      BY <1>a, <2>1, <2>2 DEF SnapParts, Covered, Rest
    <3>2. Placed(w)
      BY <1>a, <3>1 DEF AckInv
    <3> QED
      BY <2>1, <3>1, <3>2, Quiescent
  <2> QED
    BY <2>3 DEF SnapParts
<1>8. CASE CommitByPath(d)
  <2>1. /\ pc[d] = "path" /\ UNCHANGED <<req, buf, durable, reported, ack, pending, entries>>
        /\ pc'[d] = "reply"
    BY <1>a, <1>b, <1>8 DEF CommitByPath, Goto, fdVars, diskVars, trackVars, cacheVars
  <2> QED
    BY SMTT(30), <2>1 DEF SnapParts, Covered, Rest
<1>9. CASE ReadAwait(d) \/ CommitReply(d)
  BY <1>9, <1>b DEF ReadAwait, CommitReply
<1>10. CASE DropConn(d) \/ WriteReply(d)
  BY <1>10 DEF DropConn, WriteReply
<1>11. CASE \/ Lookup(d) \/ OpenFile(d) \/ PutIfFresh(d) \/ PutRefused(d)
            \/ WriteAtClosed(d) \/ WriteAt(d) \/ StableSync(d) \/ StableDetach(d) \/ StableClosed(d)
  <2>1. pc[d] \in {"lookup", "open", "publish", "write", "sync", "detach", "closed"}
    BY <1>11 DEF Lookup, OpenFile, PutIfFresh, PutRefused, WriteAtClosed, WriteAt, StableSync,
                 StableDetach, StableClosed
  <2> QED
    BY <1>a, <2>1 DEF ControlInv
<1> QED
  BY <1>1, <1>2, <1>3, <1>4, <1>5, <1>6, <1>7, <1>8, <1>9, <1>10, <1>11 DEF Serving

\* SnapInv is preserved by every step.
LEMMA SnapStep == IInv /\ Next => SnapInv'
<1> SUFFICES ASSUME IInv, Next, NEW d \in Conns, req'[d].op \in {"commit", "read"}
             PROVE  SnapParts(d)'
  BY DEF SnapInv, SnapParts, Covered, Rest
<1>1. CASE Requesting(d)
  <2>1. pc \in [Conns -> PCs] /\ req \in [Conns -> Requests]
    BY DEF IInv, TypeOK
  <2>2. CASE \E w \in Writes, how \in {"unstable", "stable"} : StartWrite(d, w, how)
    BY SMT, <2>1, <2>2 DEF StartWrite, NoReq
  <2>3. CASE \E k \in Keys, op \in {"commit", "read"} : StartBroadcast(d, k, op)
    BY <2>3, SnapPartsStart
  <2>4. CASE \E k \in Keys : StartBroadcast(d, k, "drop")
    BY <2>1, <2>4 DEF StartBroadcast, NoReq
  <2> QED
    BY <1>1, <2>2, <2>3, <2>4 DEF Requesting
<1>2. CASE ~Requesting(d)
  <2>1. /\ req'[d].op = req[d].op /\ req'[d].key = req[d].key
        /\ req'[d].w = req[d].w /\ req'[d].snap = req[d].snap
    BY <1>2, RequestOrigin
  <2>2. SnapParts(d)
    BY <2>1 DEF IInv, SnapInv, SnapParts, Covered, Rest
  <2> QED
    BY <1>2, <2>1, <2>2, OwnSteps, SnapPartsKept, SnapPartsOwn
<1> QED
  BY <1>1, <1>2

-----------------------------------------------------------------------------
\* Only the reply to a COMMIT vouches for WRITEs in committed, and only the end
\* of a READ's flush in readOK.
LEMMA VouchStep ==
  ASSUME IInv, Next
  PROVE  /\ committed' = committed \/ \E c \in Conns : CommitReply(c)
         /\ readOK' = readOK \/ \E c \in Conns : ReadAwait(c)
<1> DEFINE Same == /\ committed' = committed \/ \E c \in Conns : CommitReply(c)
                   /\ readOK' = readOK \/ \E c \in Conns : ReadAwait(c)
<1> USE DEF replyVars
<1>1. ASSUME NEW c \in Conns, Connect(c) \/ Drain(c) \/ Unregister(c) \/ SweepIdle(c) PROVE Same
  BY <1>1 DEF Connect, Drain, Unregister, SweepIdle
<1>2. ASSUME NEW c \in Conns, Requesting(c) PROVE Same
  BY <1>2 DEF Requesting, StartWrite, StartBroadcast
<1>3. ASSUME NEW c \in Conns,
             Lookup(c) \/ OpenFile(c) \/ PutIfFresh(c) \/ PutRefused(c) \/ WriteAtClosed(c) \/ WriteAt(c) PROVE Same
  BY <1>3 DEF Lookup, OpenFile, PutIfFresh, PutRefused, WriteAtClosed, WriteAt
<1>4. ASSUME NEW c \in Conns,
             StableSync(c) \/ StableDetach(c) \/ StableClosed(c) \/ Wait(c) \/ WriteReply(c) PROVE Same
  BY <1>4 DEF StableSync, StableDetach, StableClosed, Wait, WriteReply
<1>5. ASSUME NEW c \in Conns,
             CommitGet(c) \/ ReadGet(c) \/ VisitSync(c) \/ VisitDetach(c) \/ VisitClosed(c) PROVE Same
  BY <1>5 DEF CommitGet, ReadGet, VisitSync, VisitDetach, VisitClosed
<1>6. ASSUME NEW c \in Conns,
             VisitAwait(c) \/ DropConn(c) \/ VisitDone(c) \/ CommitByPath(c) PROVE Same
  BY <1>6 DEF VisitAwait, DropConn, VisitDone, CommitByPath
<1>7. ASSUME NEW h \in Handles, EvictFlush(h) \/ Finish(h) \/ FireLoss(h) PROVE Same
  BY <1>7 DEF EvictFlush, Finish, FireLoss
<1>8. ASSUME NEW c \in Conns, ReadAwait(c) PROVE Same
  BY <1>8 DEF ReadAwait
<1>9. ASSUME NEW c \in Conns, CommitReply(c) PROVE Same
  BY <1>9 DEF CommitReply
<1> HIDE DEF Same, replyVars
<1>z. Same
  BY SMTT(30), <1>1, <1>2, <1>3, <1>4, <1>5, <1>6, <1>7, <1>8, <1>9 DEF Next, Serving, Flushing
<1> QED
  BY <1>z DEF Same

\* A COMMIT replies OK only when what it covers is durable or reported.
LEMMA CommitCoversStep ==
  ASSUME IInv, Next
  PROVE  CommitCovers'
<1>1. durable \subseteq durable' /\ reported \subseteq reported' /\ CommitCovers
  BY MonotoneStep DEF IInv
<1>2. ASSUME NEW c \in Conns, CommitReply(c) PROVE CommitCovers'
  <2>1. committed' = committed \cup req[c].snap /\ pc[c] = "reply" /\ req[c].op = "commit"
    BY <1>2 DEF CommitReply
  <2>2. req[c].snap \subseteq durable \cup reported
    BY <2>1 DEF IInv, SnapInv
  <2> QED
    BY <1>1, <2>1, <2>2 DEF CommitCovers
<1> QED
  BY <1>1, <1>2, VouchStep DEF CommitCovers

\* A READ goes on only when what it covers is durable or reported.
LEMMA ReadCoversStep ==
  ASSUME IInv, Next
  PROVE  ReadCovers'
<1>1. durable \subseteq durable' /\ reported \subseteq reported' /\ ReadCovers
  BY MonotoneStep DEF IInv
<1>2. ASSUME NEW c \in Conns, ReadAwait(c) PROVE ReadCovers'
  <2>1. /\ pc[c] = "rawait" /\ pending[req[c].key] = {}
        /\ readOK' = readOK \/ (req[c].key \notin errs /\ readOK' = readOK \cup req[c].snap)
    BY <1>2 DEF ReadAwait
  <2>2. ASSUME req[c].key \notin errs, NEW w \in req[c].snap PROVE w \in durable \cup reported
    <3>1. req[c].op = "read" /\ ~req[c].err /\ req[c].todo = {}
      BY <2>1 DEF IInv, ControlInv
    <3>2. w \in Writes
      BY <3>1, SnapTypes
    <3>3. ack[w] # Nil /\ KeyOf[w] = req[c].key /\ \A g \in Handles : w \notin buf[g]
      BY <2>1, <3>1 DEF IInv, SnapInv
    <3>4. Placed(w)
      BY <3>2, <3>3 DEF IInv, AckInv
    <3> QED
      BY <2>1, <2>2, <3>2, <3>3, <3>4, Quiescent
  <2> QED
    BY <1>1, <2>1, <2>2 DEF ReadCovers
<1> QED
  BY <1>1, <1>2, VouchStep DEF ReadCovers

\* A stable WRITE replies OK only when its data is durable or reported.
LEMMA StableCoversStep ==
  ASSUME IInv, Next
  PROVE  StableCovers'
<1> SUFFICES ASSUME NEW w \in Writes, ack'[w] # Nil, ack'[w].how = "stable"
             PROVE  w \in durable' \cup reported'
  BY DEF StableCovers, StableAcked
<1> DEFINE Held == \/ ack[w] # Nil /\ ack[w].how = "stable"
                   \/ w \in durable \cup reported
<1>a. TypeOK /\ ControlInv /\ WriteInv
  BY DEF IInv
<1>b. ASSUME NEW c \in Conns, TellClient(c) \/ ack' = ack PROVE Held
  <2>1. CASE ack'[w] = [ack[w] EXCEPT !.how = "redo"] /\ ack[w] # Nil
    <3>1. ack[w] \in Acks
      BY <1>a, <2>1 DEF TypeOK
    <3>2. ack'[w].how = "redo"
      BY <2>1, <3>1 DEF Acks
    <3> QED
      BY <3>2
  <2> QED
    BY <1>b, <2>1 DEF TellClient
<1> USE DEF TypeOK, replyVars
<1>1. ASSUME NEW c \in Conns, Connect(c) \/ Drain(c) \/ Unregister(c) \/ SweepIdle(c) PROVE Held
  BY <1>1 DEF Connect, Drain, Unregister, SweepIdle
<1>2. ASSUME NEW c \in Conns, Requesting(c) PROVE Held
  BY <1>2 DEF Requesting, StartWrite, StartBroadcast
<1>3. ASSUME NEW c \in Conns,
             Lookup(c) \/ OpenFile(c) \/ PutIfFresh(c) \/ PutRefused(c) \/ WriteAtClosed(c) \/ WriteAt(c) PROVE Held
  BY <1>3 DEF Lookup, OpenFile, PutIfFresh, PutRefused, WriteAtClosed, WriteAt
<1>4. ASSUME NEW c \in Conns,
             StableSync(c) \/ StableDetach(c) \/ StableClosed(c) PROVE Held
  BY <1>4 DEF StableSync, StableDetach, StableClosed
<1>5. ASSUME NEW c \in Conns,
             CommitGet(c) \/ ReadGet(c) \/ VisitSync(c) \/ VisitDetach(c) \/ VisitClosed(c) PROVE Held
  BY <1>5 DEF CommitGet, ReadGet, VisitSync, VisitDetach, VisitClosed
<1>6. ASSUME NEW c \in Conns,
             VisitAwait(c) \/ DropConn(c) \/ ReadAwait(c) \/ CommitReply(c) PROVE Held
  BY <1>6 DEF VisitAwait, DropConn, ReadAwait, CommitReply
<1>7. ASSUME NEW h \in Handles, EvictFlush(h) \/ Finish(h) \/ FireLoss(h) PROVE Held
  BY <1>7 DEF EvictFlush, Finish, FireLoss
<1>8. ASSUME NEW c \in Conns, Wait(c) PROVE Held
  BY <1>b, <1>8 DEF Wait
<1>9. ASSUME NEW c \in Conns, VisitDone(c) PROVE Held
  BY <1>b, <1>9 DEF VisitDone
<1>10. ASSUME NEW c \in Conns, CommitByPath(c) PROVE Held
  BY <1>b, <1>10 DEF CommitByPath
<1>11. ASSUME NEW c \in Conns, WriteReply(c) PROVE Held
  <2>1. req[c].w \in Writes /\ ack[req[c].w] = Nil
    BY <1>a, <1>11 DEF WriteReply, ControlInv, WriteInv
  <2>2. CASE w = req[c].w
    <3>1. ack'[w].how = req[c].op /\ pc[c] = "reply"
      BY <1>a, <1>11, <2>1, <2>2 DEF WriteReply
    <3>2. req[c].op = "stable" => w \in durable \cup reported
      BY <1>a, <1>11, <2>2, <3>1 DEF WriteReply, WriteInv
    <3> QED
      BY <3>1, <3>2
  <2>3. CASE w # req[c].w
    BY <1>a, <1>11, <2>1, <2>3 DEF WriteReply
  <2> QED
    BY <2>2, <2>3
<1> HIDE DEF Held, TypeOK, replyVars
<1>z. Held
  BY SMTT(30), <1>1, <1>2, <1>3, <1>4, <1>5, <1>6, <1>7, <1>8, <1>9, <1>10, <1>11 DEF Next, Serving, Flushing
<1> QED
  BY <1>z, MonotoneStep DEF Held, IInv, StableCovers, StableAcked

-----------------------------------------------------------------------------
\* The inductive invariant holds initially.
LEMMA InitIInv ==
  ASSUME Init
  PROVE  IInv
<1>1. NoReq \in Requests
  BY NoReqType
<1>2. TypeOK
  BY <1>1 DEF Init, TypeOK, PCs
<1>3. ControlInv /\ WriteInv /\ SnapInv
  BY DEF Init, NoReq, ControlInv, WriteInv, SnapInv
<1>4. CachedInv /\ PrivateInv /\ NoOrphanFd
  BY DEF Init, CachedInv, PrivateInv, NoOrphanFd
<1>5. MarkerInv /\ BufferInv /\ LossInv /\ AckInv
  BY NilAssumption DEF Init, MarkerInv, BufferInv, LossInv, AckInv
<1>6. CommitCovers /\ ReadCovers /\ StableCovers
  BY DEF Init, CommitCovers, ReadCovers, StableCovers, StableAcked
<1> QED
  BY <1>2, <1>3, <1>4, <1>5, <1>6 DEF IInv

\* A stuttering step changes none of its parts.
LEMMA StutterIInv ==
  ASSUME IInv, UNCHANGED vars
  PROVE  IInv'
<1> USE DEF vars, cacheVars, fdVars, trackVars, flushVars, diskVars, replyVars
<1>1. TypeOK'
  BY DEF IInv, TypeOK
<1>2. ControlInv'
  <2>1. ControlInv /\ pc' = pc /\ req' = req
    BY DEF IInv
  <2> QED
    BY SMT, <2>1 DEF ControlInv
<1>3. CachedInv' /\ PrivateInv'
  BY SMTT(30) DEF IInv, CachedInv, PrivateInv
<1>4. MarkerInv' /\ BufferInv' /\ NoOrphanFd' /\ LossInv'
  BY SMT DEF IInv, MarkerInv, BufferInv, NoOrphanFd, LossInv
<1>5. AckInv'
  BY DEF IInv, AckInv, Placed
<1>6. WriteInv'
  BY SMTT(30) DEF IInv, WriteInv, Placed
<1>7. SnapInv'
  BY SMT DEF IInv, SnapInv
<1>8. CommitCovers' /\ ReadCovers' /\ StableCovers'
  BY DEF IInv, CommitCovers, ReadCovers, StableCovers, StableAcked
<1> QED
  BY SMTT(30), <1>1, <1>2, <1>3, <1>4, <1>5, <1>6, <1>7, <1>8 DEF IInv

\* IInv is an inductive invariant of the write path: every connection, file,
\* fd and WRITE, whatever their number.
THEOREM Invariance == Spec => []IInv
<1>1. Init => IInv
  BY InitIInv
<1>2. IInv /\ [Next]_vars => IInv'
  <2>1. ASSUME IInv, Next PROVE IInv'
    BY <2>1, TypeStep, ControlStep, CachedStep, PrivateStep, MarkerStep, BufferStep, OrphanStep,
       LossStep, AckStep, WriteStep, SnapStep, CommitCoversStep, ReadCoversStep, StableCoversStep
    DEF IInv
  <2> QED
    BY <2>1, StutterIInv
<1> QED
  BY <1>1, <1>2, PTL DEF Spec

\* The variables of the caches, the tracker and the request goroutines keep
\* their types.
THEOREM TypeCorrect == Spec => []TypeOK
<1>1. IInv => TypeOK
  BY DEF IInv
<1> QED
  BY <1>1, Invariance, PTL

\* An OK COMMIT (onCommit) vouches only for data that is durable or whose loss an
\* error reply for that file has surfaced.
THEOREM CommitSafe == Spec => []CommitCovers
<1>1. IInv => CommitCovers
  BY DEF IInv
<1> QED
  BY <1>1, Invariance, PTL

\* A READ that passes flushDirtyHandleAll sees what was acknowledged before it.
THEOREM ReadSafe == Spec => []ReadCovers
<1>1. IInv => ReadCovers
  BY DEF IInv
<1> QED
  BY <1>1, Invariance, PTL

\* An OK stable WRITE (onWrite) is durable or its loss has been surfaced.
THEOREM StableSafe == Spec => []StableCovers
<1>1. IInv => StableCovers
  BY DEF IInv
<1> QED
  BY <1>1, Invariance, PTL

\* No fd leaks: every open fd is cached by a live connection, being closed, or
\* held by the request that opened it.
THEOREM NoLeak == Spec => []NoOrphanFd
<1>1. IInv => NoOrphanFd
  BY DEF IInv
<1> QED
  BY <1>1, Invariance, PTL

\* A loss is never forgotten before a reply surfaces it (finish, wait).
THEOREM LossKept == Spec => []LossRecorded
<1>1. IInv => LossRecorded
  <2> SUFFICES ASSUME IInv, NEW w \in lost \ reported, NEW h \in lossy, hkey[h] = KeyOf[w]
               PROVE  h \in pending[KeyOf[w]] /\ flush[h] = "finish"
    BY DEF IInv, LossInv, LossRecorded
  <2>1. w \in Writes /\ KeyOf[w] \in Keys /\ h \in Handles
    BY KeyOfAssumption DEF IInv, TypeOK
  <2> QED
    BY <2>1 DEF IInv, MarkerInv
<1> QED
  BY <1>1, Invariance, PTL

\* Unflushed data is always cached or announced by a marker, so that no COMMIT
\* can miss it (begin inside the critical section that removes the entry).
THEOREM Reachable == Spec => []BufferedReachable
<1>1. IInv => BufferedReachable
  <2> SUFFICES ASSUME IInv, NEW h \in Handles, buf[h] # {}
               PROVE  /\ h \in dirty /\ h \notin closed
                      /\ (\E c \in Conns : entries[c][hkey[h]] = h) \/ h \in pending[hkey[h]]
    BY DEF BufferedReachable
  <2>1. h \in dirty /\ h \notin closed /\ hkey[h] \in Keys /\ hkey[h] # Nil
    BY NilAssumption DEF IInv, BufferInv
  <2>2. ~\E c \in Conns : pc[c] = "publish" /\ req[c].h = h
    BY <2>1 DEF IInv, PrivateInv
  <2> QED
    BY <2>1, <2>2 DEF IInv, NoOrphanFd, MarkerInv
<1> QED
  BY <1>1, Invariance, PTL

\* The handlers of WriteDurability see the tracker as a barrier: whatever the caches do,
\* a COMMIT, READ or stable WRITE passes wait or await only when no flush of its file
\* is in flight, and no recorded loss disappears otherwise.
THEOREM Refinement == Spec => ImplementsBarrier
<1>1. Init => Barrier!Init
  BY DEF Init, Barrier!Init
<1>2. IInv /\ [Next]_vars => [Barrier!Next]_(Barrier!vars)
  <2> SUFFICES ASSUME IInv, [Next]_vars PROVE Barrier!Next \/ UNCHANGED Barrier!vars
    OBVIOUS
  <2>1. CASE UNCHANGED vars
    BY <2>1 DEF vars, trackVars, Barrier!vars
  <2>2. CASE Next
    BY <2>2, BarrierStep
  <2> QED
    BY <2>1, <2>2
<1> QED
  BY <1>1, <1>2, Invariance, PTL DEF Spec, ImplementsBarrier, Barrier!Spec
=============================================================================
