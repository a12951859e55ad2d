--------------------------- MODULE WriteDurability ---------------------------
(***************************************************************************)
(* Durability of NFSv3 writes across the connections of one server: the    *)
(* per-connection write caches (handlecache.go), the mount-wide commit     *)
(* tracker and write verifier (committracker.go, server.go), and the       *)
(* handlers that drive them: WRITE, COMMIT, the flush a READ performs      *)
(* first, the broadcast drop of SETATTR/CREATE/REMOVE/RENAME and of a      *)
(* handle eviction, the idle sweeper, and the drain on disconnect.         *)
(*                                                                         *)
(* Each region the code runs under one lock is one action; goroutines      *)
(* interleave between them.  A connection serves one request at a time.    *)
(*                                                                         *)
(* Data: a WRITE is an id.  buf[h] holds the ids written through fd h and  *)
(* not yet flushed; a successful Sync or Close moves them to durable; a    *)
(* failed Close of a dirty fd moves them to lost; a failed Sync leaves     *)
(* them buffered.  lastUsed is abstracted: any entry may be the oldest,    *)
(* any set of entries may be idle.                                         *)
(***************************************************************************)
EXTENDS Integers, FiniteSets

CONSTANTS
  Conns,    \* connections (nconnect or several clients)
  Keys,     \* opaque NFS file handles
  Handles,  \* identities of the fds that OpenFile returns
  Writes,   \* ids of WRITE requests, each sent at most once
  KeyOf,    \* the file handle each WRITE is for
  MaxSize,  \* writeCache.maxSize
  HasSync,  \* whether the backend's billy.File implements Sync
  Workload, \* kinds of requests the clients send
  MaxOps,   \* bound on COMMIT, READ and drop requests
  Nil

ASSUME KeyOfAssumption == KeyOf \in [Writes -> Keys]

\* What an OK reply to a WRITE tells its client; "redo" once an error took it back.
Acks == [conn : Conns, verf : Nat, how : {"unstable", "stable", "redo"}]

ASSUME NilAssumption ==
  /\ Nil \notin Handles /\ Nil \notin Keys /\ Nil \notin Conns
  /\ Nil \notin Writes /\ Nil \notin Acks
ASSUME BoundsAssumption == MaxOps \in Nat /\ MaxSize \in Nat /\ HasSync \in BOOLEAN

VARIABLES
  phase,    \* life of each connection: serve, drain, unregister
  wc,       \* connections whose write cache exists (conn.wc # nil)
  entries,  \* writeCache.entries of each connection
  gen,      \* writeCache.gen of each connection
  hkey,     \* key an fd was opened for, Nil when not opened
  buf, dirty, closed,   \* unflushed ids and flags of each cachedHandle
  lossy,    \* fds whose Close failed while dirty, until finish records it
  pending, errs,        \* commitTracker: markers (named by their fd) and losses
  flush, by,            \* the detaching goroutine's progress with a detached fd
  verf,     \* the write verifier
  durable, lost,        \* ids on stable storage; ids dropped by a failed Close
  reported, \* lost ids whose recorded error some reply has surfaced
  pc, req,  \* each connection's request goroutine and its locals
  sent,     \* WRITEs sent so far
  ops,      \* COMMIT, READ and drop requests so far
  ack,      \* OK replies to WRITEs: connection, verifier and stability
  committed, readOK,    \* ids a COMMIT / a READ that replied OK vouched for
  trusted, settled      \* ids the writing client may forget (verifiers matched)

cacheVars == <<wc, entries, gen>>
fdVars    == <<hkey, buf, dirty, closed, lossy>>
trackVars == <<pending, errs>>
flushVars == <<flush, by>>
diskVars  == <<durable, lost, reported>>
replyVars == <<ack, committed, readOK, trusted, settled>>
vars == <<phase, cacheVars, fdVars, trackVars, flushVars, verf, diskVars,
          pc, req, sent, ops, replyVars>>

Procs == Conns \X {"serve", "sweep"}
Serve(c) == <<c, "serve">>
Sweeper(c) == <<c, "sweep">>

NoReq == [op |-> "none", key |-> Nil, w |-> Nil, h |-> Nil, gen |-> 0, tries |-> 0,
          todo |-> {}, tgt |-> Nil, found |-> FALSE, err |-> FALSE, snap |-> {}]

Requests ==
  [op : {"none", "unstable", "stable", "commit", "read", "drop"},
   key : Keys \cup {Nil}, w : Writes \cup {Nil}, h : Handles \cup {Nil},
   gen : Nat, tries : 0..1, todo : SUBSET Conns, tgt : Conns \cup {Nil},
   found : BOOLEAN, err : BOOLEAN, snap : SUBSET Writes]

PCs == {"idle", "lookup", "open", "publish", "write", "sync", "detach", "closed",
        "visit", "vsync", "vdetach", "vclosed", "vawait", "rawait",
        "wait", "path", "reply"}

TypeOK ==
  /\ phase \in [Conns -> {"new", "up", "draining", "gone"}]
  /\ wc \subseteq Conns
  /\ entries \in [Conns -> [Keys -> Handles \cup {Nil}]]
  /\ gen \in [Conns -> Nat]
  /\ hkey \in [Handles -> Keys \cup {Nil}]
  /\ buf \in [Handles -> SUBSET Writes]
  /\ dirty \subseteq Handles /\ closed \subseteq Handles
  /\ lossy \subseteq Handles
  /\ pending \in [Keys -> SUBSET Handles] /\ errs \subseteq Keys
  /\ flush \in [Handles -> {"none", "close", "finish", "rotate"}]
  /\ by \in [Handles -> Procs \cup {Nil}]
  /\ verf \in Nat
  /\ durable \subseteq Writes /\ lost \subseteq Writes /\ reported \subseteq Writes
  /\ pc \in [Conns -> PCs] /\ req \in [Conns -> Requests]
  /\ sent \subseteq Writes /\ ops \in Nat
  /\ ack \in [Writes -> Acks \cup {Nil}]
  /\ committed \subseteq Writes /\ readOK \subseteq Writes
  /\ trusted \subseteq Writes /\ settled \subseteq Writes
Init ==
  /\ phase = [c \in Conns |-> "new"]
  /\ wc = {}
  /\ entries = [c \in Conns |-> [k \in Keys |-> Nil]]
  /\ gen = [c \in Conns |-> 0]
  /\ hkey = [h \in Handles |-> Nil]
  /\ buf = [h \in Handles |-> {}]
  /\ dirty = {} /\ closed = {} /\ lossy = {}
  /\ pending = [k \in Keys |-> {}] /\ errs = {}
  /\ flush = [h \in Handles |-> "none"] /\ by = [h \in Handles |-> Nil]
  /\ verf = 0
  /\ durable = {} /\ lost = {} /\ reported = {}
  /\ pc = [c \in Conns |-> "idle"] /\ req = [c \in Conns |-> NoReq]
  /\ sent = {} /\ ops = 0
  /\ ack = [w \in Writes |-> Nil]
  /\ committed = {} /\ readOK = {} /\ trusted = {} /\ settled = {}

-----------------------------------------------------------------------------
(* Detaching fds and the flush that follows.                               *)

\* Live connections, as registerConn and unregisterConn keep them.
Registered == {c \in Conns : phase[c] \in {"up", "draining"}}

CachedIn(c) == {entries[c][k] : k \in Keys} \ {Nil}

\* A goroutine is busy while an fd it detached is still on its way through
\* evictFlush, finish and the loss callback.
Busy(p) == \E h \in Handles : by[h] = p /\ flush[h] # "none"

\* Mutation: the fd leaves the cache before begin announces its flush.
DetachUnannounced(S, p) ==
  /\ UNCHANGED pending
  /\ flush' = [h \in Handles |-> IF h \in S THEN "close" ELSE flush[h]]
  /\ by' = [h \in Handles |-> IF h \in S THEN p ELSE by[h]]

\* begin(key) for every fd of S, in the critical section that removes it.
Detach(S, p) ==
  /\ pending' = [k \in Keys |-> pending[k] \cup {h \in S : hkey[h] = k}]
  /\ flush' = [h \in Handles |-> IF h \in S THEN "close" ELSE flush[h]]
  /\ by' = [h \in Handles |-> IF h \in S THEN p ELSE by[h]]

\* A successful Sync of fd h.
SyncFd(h) ==
  /\ durable' = durable \cup buf[h]
  /\ buf' = [buf EXCEPT ![h] = {}]
  /\ dirty' = dirty \ {h}

\* cachedHandle.evictFlush: Close of a detached fd, under its own lock.  A
\* goroutine with several fds to flush takes them one at a time.  COMMIT, READ
\* and stable WRITE look at the error even if nothing was dirty.
EvictFlush(h) ==
  /\ flush[h] = "close"
  /\ \A o \in Handles : by[o] = by[h] => flush[o] \in {"none", "close"}
  /\ \E fails \in BOOLEAN :
       /\ h \in closed => ~fails
       /\ req' = [c \in Conns |-> IF fails /\ by[h] = Serve(c) /\ pc[c] \in {"closed", "vclosed"}
                                  THEN [req[c] EXCEPT !.err = TRUE] ELSE req[c]]
       /\ lossy' = IF fails /\ h \in dirty THEN lossy \cup {h} ELSE lossy
       /\ durable' = IF fails THEN durable ELSE durable \cup buf[h]
       /\ lost' = IF fails THEN lost \cup buf[h] ELSE lost
  /\ closed' = closed \cup {h}
  /\ dirty' = dirty \ {h}
  /\ buf' = [buf EXCEPT ![h] = {}]
  /\ flush' = [flush EXCEPT ![h] = "finish"]
  /\ UNCHANGED <<phase, cacheVars, hkey, trackVars, by, verf, reported, pc,
                 sent, ops, replyVars>>

\* Mutation: finish removes the marker and does not record the error.
FinishForgets(h) ==
  /\ flush[h] = "finish"
  /\ pending' = [k \in Keys |-> pending[k] \ {h}]
  /\ flush' = [flush EXCEPT ![h] = IF h \in lossy THEN "rotate" ELSE "none"]
  /\ by' = [by EXCEPT ![h] = IF h \in lossy THEN @ ELSE Nil]
  /\ lossy' = lossy \ {h}
  /\ UNCHANGED <<phase, cacheVars, hkey, buf, dirty, closed, errs, verf, diskVars, pc, req,
                 sent, ops, replyVars>>

\* Mutation: finish records the error of a lossy flush and returns without
\* removing the marker.
FinishKeepsMarker(h) ==
  /\ flush[h] = "finish"
  /\ errs' = IF h \in lossy THEN errs \cup {hkey[h]} ELSE errs
  /\ pending' = IF h \in lossy THEN pending ELSE [k \in Keys |-> pending[k] \ {h}]
  /\ flush' = [flush EXCEPT ![h] = IF h \in lossy THEN "rotate" ELSE "none"]
  /\ by' = [by EXCEPT ![h] = IF h \in lossy THEN @ ELSE Nil]
  /\ lossy' = lossy \ {h}
  /\ UNCHANGED <<phase, cacheVars, hkey, buf, dirty, closed, verf, diskVars, pc, req,
                 sent, ops, replyVars>>

\* commitTracker.finish, its critical section: the loss is recorded and the
\* marker removed together.  Waiting goroutines see the result from here on.
Finish(h) ==
  /\ flush[h] = "finish"
  /\ errs' = IF h \in lossy THEN errs \cup {hkey[h]} ELSE errs
  /\ pending' = [k \in Keys |-> pending[k] \ {h}]
  /\ flush' = [flush EXCEPT ![h] = IF h \in lossy THEN "rotate" ELSE "none"]
  /\ by' = [by EXCEPT ![h] = IF h \in lossy THEN @ ELSE Nil]
  /\ lossy' = lossy \ {h}
  /\ UNCHANGED <<phase, cacheVars, hkey, buf, dirty, closed, verf, diskVars, pc, req, sent, ops, replyVars>>

\* commitTracker.fireLoss, after the lock is released: rotateWriteVerifier.
FireLoss(h) ==
  /\ flush[h] = "rotate"
  /\ verf' = verf + 1
  /\ flush' = [flush EXCEPT ![h] = "none"] /\ by' = [by EXCEPT ![h] = Nil]
  /\ UNCHANGED <<phase, cacheVars, fdVars, trackVars, diskVars, pc, req, sent, ops, replyVars>>

-----------------------------------------------------------------------------
(* Connections and their sweepers.                                         *)

Connect(c) ==
  /\ phase[c] = "new"
  /\ phase' = [phase EXCEPT ![c] = "up"]
  /\ UNCHANGED <<cacheVars, fdVars, trackVars, flushVars, verf, diskVars, pc, req,
                 sent, ops, replyVars>>

\* Mutation: Close forgets the entries and does not flush them.
DrainForgets(c) ==
  /\ phase[c] = "up" /\ pc[c] = "idle" /\ ~Busy(Serve(c))
  /\ phase' = [phase EXCEPT ![c] = "draining"]
  /\ entries' = [entries EXCEPT ![c] = [k \in Keys |-> Nil]]
  /\ UNCHANGED <<wc, gen, fdVars, trackVars, flushVars, verf, diskVars, pc, req, sent, ops,
                 replyVars>>

\* serve returns: drainCaches detaches every fd (writeCache.Close) ...
Drain(c) ==
  /\ phase[c] = "up" /\ pc[c] = "idle" /\ ~Busy(Serve(c))
  /\ phase' = [phase EXCEPT ![c] = "draining"]
  /\ Detach(CachedIn(c), Serve(c))
  /\ entries' = [entries EXCEPT ![c] = [k \in Keys |-> Nil]]
  /\ UNCHANGED <<wc, gen, fdVars, errs, verf, diskVars, pc, req, sent, ops, replyVars>>

\* ... and only once they are flushed does unregisterConn run.
Unregister(c) ==
  /\ phase[c] = "draining" /\ ~Busy(Serve(c))
  /\ phase' = [phase EXCEPT ![c] = "gone"]
  /\ UNCHANGED <<cacheVars, fdVars, trackVars, flushVars, verf, diskVars, pc, req,
                 sent, ops, replyVars>>

\* writeCache.sweepIdle on the sweeper goroutine, which Close stops.
SweepIdle(c) ==
  /\ phase[c] = "up" /\ ~Busy(Sweeper(c))
  /\ \E S \in SUBSET CachedIn(c) :
       /\ S # {}
       /\ Detach(S, Sweeper(c))
       /\ entries' = [entries EXCEPT ![c] =
            [k \in Keys |-> IF entries[c][k] \in S THEN Nil ELSE entries[c][k]]]
  /\ UNCHANGED <<phase, wc, gen, fdVars, errs, verf, diskVars, pc, req, sent, ops, replyVars>>

-----------------------------------------------------------------------------
(* Steps of a connection's request goroutine.                              *)

Ready(c) == phase[c] = "up" /\ pc[c] = "idle" /\ ~Busy(Serve(c))

Goto(c, label) == pc' = [pc EXCEPT ![c] = label]

\* The handler returns; its reply (or error) goes to the client.
Return(c) == Goto(c, "idle") /\ req' = [req EXCEPT ![c] = NoReq]

---------------------------------- (* WRITE *) ------------------------------

\* onWrite up to cachedWrite.  A WRITE refused by the checks before that point
\* changes nothing and is not modelled.
StartWrite(c, w, how) ==
  /\ Ready(c) /\ w \notin sent
  /\ sent' = sent \cup {w}
  /\ wc' = wc \cup {c}
  /\ req' = [req EXCEPT ![c] = [NoReq EXCEPT !.op = how, !.key = KeyOf[w], !.w = w]]
  /\ Goto(c, "lookup")
  /\ UNCHANGED <<phase, entries, gen, fdVars, trackVars, flushVars, verf, diskVars,
                 ops, replyVars>>

\* get, and on a miss sampleGen.  Only this goroutine adds entries to its
\* cache, so a miss is still a miss when gen is sampled.
Lookup(c) ==
  LET h == entries[c][req[c].key] IN
  /\ pc[c] = "lookup"
  /\ IF h = Nil
     THEN Goto(c, "open") /\ req' = [req EXCEPT ![c].gen = gen[c]]
     ELSE Goto(c, "write") /\ req' = [req EXCEPT ![c].h = h]
  /\ UNCHANGED <<phase, cacheVars, fdVars, trackVars, flushVars, verf, diskVars,
                 sent, ops, replyVars>>

OpenFile(c) ==
  /\ pc[c] = "open"
  /\ \/ \E h \in Handles :
          /\ hkey[h] = Nil
          /\ hkey' = [hkey EXCEPT ![h] = req[c].key]
          /\ req' = [req EXCEPT ![c].h = h]
          /\ Goto(c, "publish")
     \/ Return(c) /\ UNCHANGED hkey
  /\ UNCHANGED <<phase, cacheVars, buf, dirty, closed, lossy, trackVars,
                 flushVars, verf, diskVars, sent, ops, replyVars>>

\* putIfFresh publishes the fd; in a full cache publishLocked detaches a victim
\* in the same critical section.
PutIfFresh(c) ==
  LET k == req[c].key IN
  /\ pc[c] = "publish"
  /\ gen[c] = req[c].gen /\ entries[c][k] = Nil
  /\ \E V \in SUBSET CachedIn(c) :
       /\ IF Cardinality(CachedIn(c)) >= MaxSize THEN \E v \in CachedIn(c) : V = {v} ELSE V = {}
       /\ Detach(V, Serve(c))
       /\ entries' = [entries EXCEPT ![c] = [j \in Keys |->
            IF j = k THEN req[c].h ELSE IF entries[c][j] \in V THEN Nil ELSE entries[c][j]]]
  /\ Goto(c, "write")
  /\ UNCHANGED <<phase, wc, gen, fdVars, errs, verf, diskVars, req, sent, ops, replyVars>>

\* Mutation: the loop of cachedWrite has no bound.
RetryUnbounded(c) ==
  Goto(c, "lookup") /\ req' = [req EXCEPT ![c].tries = @ + 1, ![c].h = Nil]

\* The loop of cachedWrite goes round once more, or gives up with errHandleClosed.
Retry(c) ==
  IF req[c].tries = 0
  THEN Goto(c, "lookup") /\ req' = [req EXCEPT ![c].tries = 1, ![c].h = Nil]
  ELSE Return(c)

\* Mutation: the fd that putIfFresh refused is not closed.
PutRefusedLeaks(c) ==
  /\ pc[c] = "publish"
  /\ gen[c] # req[c].gen \/ entries[c][req[c].key] # Nil
  /\ Retry(c)
  /\ UNCHANGED <<phase, cacheVars, fdVars, trackVars, flushVars, verf, diskVars, sent, ops,
                 replyVars>>

\* putIfFresh refuses: an invalidation ran since gen was sampled.  closeFlush
\* closes the fd, through which nothing was written.
PutRefused(c) ==
  /\ pc[c] = "publish"
  /\ gen[c] # req[c].gen \/ entries[c][req[c].key] # Nil
  /\ closed' = closed \cup {req[c].h}
  /\ Retry(c)
  /\ UNCHANGED <<phase, cacheVars, hkey, buf, dirty, lossy, trackVars,
                 flushVars, verf, diskVars, sent, ops, replyVars>>

\* writeAt on an fd closed under the goroutine's feet; removeIf drops the entry
\* only if it still is that fd.
WriteAtClosed(c) ==
  LET k == req[c].key IN
  /\ pc[c] = "write" /\ ~Busy(Serve(c)) /\ req[c].h \in closed
  /\ entries' = [entries EXCEPT ![c][k] = IF @ = req[c].h THEN Nil ELSE @]
  /\ Retry(c)
  /\ UNCHANGED <<phase, wc, gen, fdVars, trackVars, flushVars, verf, diskVars,
                 sent, ops, replyVars>>

\* writeAt: the file may take the data, take some of it and fail, or fail.
WriteAt(c) ==
  LET h == req[c].h IN
  /\ pc[c] = "write" /\ ~Busy(Serve(c)) /\ h \notin closed
  /\ \/ /\ buf' = [buf EXCEPT ![h] = @ \cup {req[c].w}]
        /\ dirty' = dirty \cup {h}
        /\ \/ Goto(c, IF req[c].op = "stable" THEN "sync" ELSE "reply") /\ UNCHANGED req
           \/ Return(c)
     \/ Return(c) /\ UNCHANGED <<buf, dirty>>
  /\ UNCHANGED <<phase, cacheVars, hkey, closed, lossy, trackVars,
                 flushVars, verf, diskVars, sent, ops, replyVars>>

\* Mutation: an fd closed meanwhile counts as synced.
StableSyncTrusts(c) ==
  LET h == req[c].h IN
  /\ pc[c] = "sync"
  /\ \/ h \in closed /\ Goto(c, "reply") /\ UNCHANGED <<buf, dirty, durable, req>>
     \/ h \notin closed /\ SyncFd(h) /\ Goto(c, "reply") /\ UNCHANGED req
  /\ UNCHANGED <<phase, cacheVars, hkey, closed, lossy, trackVars, flushVars,
                 verf, lost, reported, sent, ops, replyVars>>

\* A dataSync/fileSync WRITE syncs before replying (onWrite's switch).  Without
\* Sync it goes on to close the fd; if the fd was closed meanwhile it consults
\* the tracker.
StableSync(c) ==
  LET h == req[c].h IN
  /\ pc[c] = "sync"
  /\ \/ h \in closed /\ Goto(c, "wait") /\ UNCHANGED <<buf, dirty, durable, req>>
     \/ /\ h \notin closed /\ HasSync
        /\ \/ SyncFd(h) /\ Goto(c, "reply") /\ UNCHANGED req
           \/ Return(c) /\ UNCHANGED <<buf, dirty, durable>>
     \/ /\ h \notin closed /\ ~HasSync
        /\ Goto(c, "detach") /\ UNCHANGED <<buf, dirty, durable, req>>
  /\ UNCHANGED <<phase, cacheVars, hkey, closed, lossy, trackVars, flushVars,
                 verf, lost, reported, sent, ops, replyVars>>

\* Mutation: with no fd cached any more the WRITE counts as stable.
StableDetachTrusts(c) ==
  LET k == req[c].key IN
  /\ pc[c] = "detach"
  /\ IF entries[c][k] = Nil
     THEN Goto(c, "reply") /\ UNCHANGED <<entries, pending, flushVars, req>>
     ELSE /\ Detach({entries[c][k]}, Serve(c))
          /\ entries' = [entries EXCEPT ![c][k] = Nil]
          /\ Goto(c, "closed") /\ UNCHANGED req
  /\ UNCHANGED <<phase, wc, gen, fdVars, errs, verf, diskVars, sent, ops, replyVars>>

\* removeAndTrack on the goroutine's own cache.
StableDetach(c) ==
  LET k == req[c].key IN
  /\ pc[c] = "detach"
  /\ IF entries[c][k] = Nil
     THEN Goto(c, "wait") /\ UNCHANGED <<entries, pending, flushVars, req>>
     ELSE /\ Detach({entries[c][k]}, Serve(c))
          /\ entries' = [entries EXCEPT ![c][k] = Nil]
          /\ Goto(c, "closed") /\ UNCHANGED req
  /\ UNCHANGED <<phase, wc, gen, fdVars, errs, verf, diskVars, sent, ops, replyVars>>

StableClosed(c) ==
  /\ pc[c] = "closed" /\ ~Busy(Serve(c))
  /\ IF req[c].err THEN Return(c) ELSE Goto(c, "wait") /\ UNCHANGED req
  /\ UNCHANGED <<phase, cacheVars, fdVars, trackVars, flushVars, verf, diskVars,
                 sent, ops, replyVars>>

\* A COMMIT or stable WRITE that fails tells its client that what it wrote to the
\* file, unstable and on this connection, has to be written again (history).
TellClient(c) ==
  ack' = [w \in Writes |->
    IF ack[w] # Nil /\ ack[w].conn = c /\ ack[w].how = "unstable" /\ KeyOf[w] = req[c].key
    THEN [ack[w] EXCEPT !.how = "redo"] ELSE ack[w]]

\* Mutation: wait takes the recorded error and does not wait.
WaitNotBlocking(c) ==
  LET k == req[c].key IN
  /\ pc[c] = "wait"
  /\ errs' = errs \ {k}
  /\ IF k \in errs
     THEN /\ reported' = reported \cup {w \in lost : KeyOf[w] = k}
          /\ TellClient(c) /\ Return(c)
     ELSE /\ Goto(c, IF req[c].op = "commit" /\ ~req[c].found THEN "path" ELSE "reply")
          /\ UNCHANGED <<reported, ack, req>>
  /\ UNCHANGED <<phase, cacheVars, fdVars, pending, flushVars, verf, durable, lost,
                 sent, ops, committed, readOK, trusted, settled>>

\* commitTracker.wait: passes once no flush of the key is in flight, and takes
\* the recorded loss with it.  Used by COMMIT and by a stable WRITE.
Wait(c) ==
  LET k == req[c].key IN
  /\ pc[c] = "wait" /\ pending[k] = {}
  /\ errs' = errs \ {k}
  /\ IF k \in errs
     THEN /\ reported' = reported \cup {w \in lost : KeyOf[w] = k}
          /\ TellClient(c) /\ Return(c)
     ELSE /\ Goto(c, IF req[c].op = "commit" /\ ~req[c].found THEN "path" ELSE "reply")
          /\ UNCHANGED <<reported, ack, req>>
  /\ UNCHANGED <<phase, cacheVars, fdVars, pending, flushVars, verf, durable, lost,
                 sent, ops, committed, readOK, trusted, settled>>

\* The OK reply to a WRITE, stamped with the verifier current now.
WriteReply(c) ==
  /\ pc[c] = "reply" /\ req[c].op \in {"unstable", "stable"}
  /\ ack' = [ack EXCEPT ![req[c].w] = [conn |-> c, verf |-> verf, how |-> req[c].op]]
  /\ Return(c)
  /\ UNCHANGED <<phase, cacheVars, fdVars, trackVars, flushVars, verf, diskVars,
                 sent, ops, committed, readOK, trusted, settled>>

------------------------- (* COMMIT, READ and drops *) ----------------------

\* Mutation: only the connection that carries the request is visited.
StartOwnConn(c, k, op) ==
  /\ Ready(c) /\ ops < MaxOps
  /\ ops' = ops + 1
  /\ req' = [req EXCEPT ![c] = [NoReq EXCEPT !.op = op, !.key = k, !.todo = {c},
               !.snap = IF op = "drop" THEN {} ELSE {w \in Writes : ack[w] # Nil /\ KeyOf[w] = k}]]
  /\ Goto(c, "visit")
  /\ UNCHANGED <<phase, cacheVars, fdVars, trackVars, flushVars, verf, diskVars,
                 sent, replyVars>>

\* A COMMIT, the flush of a READ, or a drop begins with a snapshot of the live
\* connections.  snap (history) holds the WRITEs acknowledged for the file
\* before the request was sent.
StartBroadcast(c, k, op) ==
  /\ Ready(c) /\ ops < MaxOps
  /\ ops' = ops + 1
  /\ req' = [req EXCEPT ![c] = [NoReq EXCEPT !.op = op, !.key = k, !.todo = Registered,
               !.snap = IF op = "drop" THEN {} ELSE {w \in Writes : ack[w] # Nil /\ KeyOf[w] = k}]]
  /\ Goto(c, "visit")
  /\ UNCHANGED <<phase, cacheVars, fdVars, trackVars, flushVars, verf, diskVars,
                 sent, replyVars>>

\* The broadcast loop moves on to another connection.
NextConn(c, failed) ==
  /\ Goto(c, "visit")
  /\ req' = [req EXCEPT ![c].todo = @ \ {req[c].tgt}, ![c].tgt = Nil, ![c].h = Nil,
                        ![c].err = @ \/ failed]

\* conn.flushHandle: get on the visited connection's cache.
CommitGet(c) ==
  /\ pc[c] = "visit" /\ req[c].op = "commit"
  /\ \E t \in req[c].todo :
       LET h == entries[t][req[c].key] IN
       IF h = Nil
       THEN req' = [req EXCEPT ![c].todo = @ \ {t}] /\ UNCHANGED pc
       ELSE /\ req' = [req EXCEPT ![c].tgt = t, ![c].h = h, ![c].found = TRUE]
            /\ Goto(c, "vsync")
  /\ UNCHANGED <<phase, cacheVars, fdVars, trackVars, flushVars, verf, diskVars,
                 sent, ops, replyVars>>

\* conn.flushDirtyHandle and writeCache.flushDirty: get; with no fd cached there
\* may be one just detached, so the tracker is consulted.
ReadGet(c) ==
  /\ pc[c] = "visit" /\ req[c].op = "read"
  /\ \E t \in req[c].todo :
       LET h == entries[t][req[c].key] IN
       \/ /\ t \notin wc
          /\ req' = [req EXCEPT ![c].todo = @ \ {t}] /\ UNCHANGED pc
       \/ /\ t \in wc
          /\ req' = [req EXCEPT ![c].tgt = t, ![c].h = h]
          /\ Goto(c, IF h = Nil THEN "vawait" ELSE "vsync")
  /\ UNCHANGED <<phase, cacheVars, fdVars, trackVars, flushVars, verf, diskVars,
                 sent, ops, replyVars>>

\* cachedHandle.sync for COMMIT, syncIfDirty for READ, on the fd found.
VisitSync(c) ==
  LET h == req[c].h
      skip == req[c].op = "read" /\ h \notin dirty IN
  /\ pc[c] = "vsync"
  /\ \/ /\ h \in closed
        /\ IF req[c].op = "read" THEN Goto(c, "vawait") /\ UNCHANGED req ELSE NextConn(c, FALSE)
        /\ UNCHANGED <<buf, dirty, durable>>
     \/ /\ h \notin closed /\ skip
        /\ NextConn(c, FALSE) /\ UNCHANGED <<buf, dirty, durable>>
     \/ /\ h \notin closed /\ ~skip /\ HasSync
        /\ \/ SyncFd(h) /\ NextConn(c, FALSE)
           \/ NextConn(c, TRUE) /\ UNCHANGED <<buf, dirty, durable>>
     \/ /\ h \notin closed /\ ~skip /\ ~HasSync
        /\ Goto(c, "vdetach") /\ UNCHANGED <<buf, dirty, durable, req>>
  /\ UNCHANGED <<phase, cacheVars, hkey, closed, lossy, trackVars, flushVars,
                 verf, lost, reported, sent, ops, replyVars>>

\* No Sync: removeAndTrack takes whatever fd the visited cache holds now, which
\* may not be the one found before.
VisitDetach(c) ==
  LET t == req[c].tgt
      d == entries[t][req[c].key] IN
  /\ pc[c] = "vdetach"
  /\ IF d = Nil
     THEN NextConn(c, FALSE) /\ UNCHANGED <<entries, pending, flushVars>>
     ELSE /\ Detach({d}, Serve(c))
          /\ entries' = [entries EXCEPT ![t][req[c].key] = Nil]
          /\ Goto(c, "vclosed") /\ UNCHANGED req
  /\ UNCHANGED <<phase, wc, gen, fdVars, errs, verf, diskVars, sent, ops, replyVars>>

VisitClosed(c) ==
  /\ pc[c] = "vclosed" /\ ~Busy(Serve(c))
  /\ NextConn(c, FALSE)
  /\ UNCHANGED <<phase, cacheVars, fdVars, trackVars, flushVars, verf, diskVars,
                 sent, ops, replyVars>>

\* Mutation: flushDirty looks at the recorded error and does not wait.
VisitAwaitPeeks(c) ==
  /\ pc[c] = "vawait"
  /\ NextConn(c, req[c].key \in errs)
  /\ UNCHANGED <<phase, cacheVars, fdVars, trackVars, flushVars, verf, diskVars,
                 sent, ops, replyVars>>

\* commitTracker.await inside flushDirty: like wait, but the loss stays recorded.
VisitAwait(c) ==
  /\ pc[c] = "vawait" /\ pending[req[c].key] = {}
  /\ NextConn(c, req[c].key \in errs)
  /\ UNCHANGED <<phase, cacheVars, fdVars, trackVars, flushVars, verf, diskVars,
                 sent, ops, replyVars>>

\* conn.dropHandle: writeCache.invalidate, then the flush of what it detached.
DropConn(c) ==
  /\ pc[c] = "visit" /\ req[c].op = "drop" /\ ~Busy(Serve(c))
  /\ \E t \in req[c].todo :
       LET d == entries[t][req[c].key] IN
       /\ gen' = IF t \in wc THEN [gen EXCEPT ![t] = @ + 1] ELSE gen
       /\ Detach({d} \ {Nil}, Serve(c))
       /\ entries' = [entries EXCEPT ![t][req[c].key] = Nil]
       /\ req' = [req EXCEPT ![c].todo = @ \ {t}]
  /\ UNCHANGED <<phase, wc, fdVars, errs, verf, diskVars, pc, sent, ops, replyVars>>

\* The loop is over: flushHandleAll, flushDirtyHandleAll or dropHandleAll goes on.
VisitDone(c) ==
  /\ pc[c] = "visit" /\ req[c].todo = {} /\ ~Busy(Serve(c))
  /\ IF req[c].err \/ req[c].op = "drop"
     THEN Return(c)
     ELSE Goto(c, IF req[c].op = "read" THEN "rawait" ELSE "wait") /\ UNCHANGED req
  /\ IF req[c].err /\ req[c].op = "commit" THEN TellClient(c) ELSE UNCHANGED ack
  /\ UNCHANGED <<phase, cacheVars, fdVars, trackVars, flushVars, verf, diskVars,
                 sent, ops, committed, readOK, trusted, settled>>

\* Mutation: a READ waits and ignores what await returns.
ReadAwaitIgnores(c) ==
  /\ pc[c] = "rawait" /\ pending[req[c].key] = {}
  /\ readOK' = readOK \cup req[c].snap
  /\ Return(c)
  /\ UNCHANGED <<phase, cacheVars, fdVars, trackVars, flushVars, verf, diskVars,
                 sent, ops, ack, committed, trusted, settled>>

\* The await that ends flushDirtyHandleAll; without a loss the READ may go on
\* to a read-only fd, which sees what is durable.
ReadAwait(c) ==
  LET k == req[c].key IN
  /\ pc[c] = "rawait" /\ pending[k] = {}
  /\ readOK' = IF k \in errs THEN readOK ELSE readOK \cup req[c].snap
  /\ Return(c)
  /\ UNCHANGED <<phase, cacheVars, fdVars, trackVars, flushVars, verf, diskVars,
                 sent, ops, ack, committed, trusted, settled>>

\* commitByPath, when no connection held an fd: it flushes nothing of ours and
\* may fail.
CommitByPath(c) ==
  /\ pc[c] = "path"
  /\ \/ Goto(c, "reply") /\ UNCHANGED <<req, ack>>
     \/ Return(c) /\ TellClient(c)
  /\ UNCHANGED <<phase, cacheVars, fdVars, trackVars, flushVars, verf, diskVars,
                 sent, ops, committed, readOK, trusted, settled>>

\* The OK reply to a COMMIT.  The client that sent the WRITEs on this connection
\* forgets the ones whose verifier matches: they are trusted, and settled if no
\* verifier rotation was still to come.
CommitReply(c) ==
  LET own == {w \in req[c].snap :
                ack[w].conn = c /\ ack[w].verf = verf /\ ack[w].how = "unstable"} IN
  /\ pc[c] = "reply" /\ req[c].op = "commit"
  /\ committed' = committed \cup req[c].snap
  /\ trusted' = trusted \cup own
  /\ settled' = IF \E h \in Handles : flush[h] = "rotate" THEN settled ELSE settled \cup own
  /\ Return(c)
  /\ UNCHANGED <<phase, cacheVars, fdVars, trackVars, flushVars, verf, diskVars,
                 sent, ops, ack, readOK>>

-----------------------------------------------------------------------------
Requesting(c) ==
  \/ \E w \in Writes, how \in {"unstable", "stable"} \cap Workload : StartWrite(c, w, how)
  \/ \E k \in Keys, op \in {"commit", "read", "drop"} \cap Workload : StartBroadcast(c, k, op)

Serving(c) ==
  \/ Lookup(c) \/ OpenFile(c) \/ PutIfFresh(c) \/ PutRefused(c)
  \/ WriteAtClosed(c) \/ WriteAt(c) \/ StableSync(c) \/ StableDetach(c)
  \/ StableClosed(c) \/ Wait(c) \/ WriteReply(c)
  \/ CommitGet(c) \/ ReadGet(c) \/ VisitSync(c) \/ VisitDetach(c)
  \/ VisitClosed(c) \/ VisitAwait(c) \/ DropConn(c) \/ VisitDone(c)
  \/ ReadAwait(c) \/ CommitByPath(c) \/ CommitReply(c)

Flushing(h) == EvictFlush(h) \/ Finish(h) \/ FireLoss(h)

Next ==
  \/ \E c \in Conns : \/ Connect(c) \/ Drain(c) \/ Unregister(c) \/ SweepIdle(c)
                      \/ Requesting(c) \/ Serving(c)
  \/ \E h \in Handles : Flushing(h)

Spec == Init /\ [][Next]_vars

-----------------------------------------------------------------------------
(* What the server promises.                                               *)

StableAcked == {w \in Writes : ack[w] # Nil /\ ack[w].how = "stable"}

\* A loss no reply has surfaced yet is still recorded in errs, or is about to
\* be by a flush whose marker is pending (committracker.go finish and wait).
LossRecorded ==
  \A w \in lost \ reported :
    \/ KeyOf[w] \in errs
    \/ \E h \in pending[KeyOf[w]] : h \in lossy /\ flush[h] = "finish"

\* Unflushed data is always reachable by a COMMIT: its fd is open and dirty, and
\* either cached under its key or announced by a pending marker (begin runs in
\* the critical section that removes the entry).
BufferedReachable ==
  \A h \in Handles : buf[h] # {} =>
    /\ h \in dirty /\ h \notin closed
    /\ (\E c \in Conns : entries[c][hkey[h]] = h) \/ h \in pending[hkey[h]]

\* Every open fd has an owner that will close it: a cache entry of a connection
\* still to be drained, a flush under way, or the request that just opened it
\* (removeIf, removeAndTrack and drain orphan none).
NoOrphanFd ==
  \A h \in Handles : hkey[h] # Nil /\ h \notin closed =>
    \/ \E c \in Conns : entries[c][hkey[h]] = h /\ phase[c] = "up"
    \/ flush[h] = "close"
    \/ \E c \in Conns : pc[c] = "publish" /\ req[c].h = h

\* A COMMIT that replied OK covers every WRITE acknowledged for the file before
\* it was sent: the data is durable, or its loss was surfaced by an error reply
\* for that file (onCommit, flushHandleAll, wait).
CommitCovers == committed \subseteq durable \cup reported

\* A READ that passed flushDirtyHandleAll sees every WRITE acknowledged before
\* it was sent, unless a COMMIT or stable WRITE already reported its loss.
ReadCovers == readOK \subseteq durable \cup reported

\* A stable WRITE acknowledged OK is durable or its loss was surfaced by an
\* error reply for the same file (onWrite's sync switch).
StableCovers == StableAcked \subseteq durable \cup reported

\* Every request a connection has begun is answered, and every drain ends: no
\* goroutine waits on a flush that waits on it.
RequestsEnd ==
  \A c \in Conns : /\ pc[c] # "idle" ~> pc[c] = "idle"
                   /\ phase[c] = "draining" ~> phase[c] = "gone"

\* Goroutines that can run do run; clients need not send anything, and Close,
\* Sync and OpenFile return.
FairSpec ==
  /\ Spec
  /\ \A c \in Conns : WF_vars(Serving(c)) /\ WF_vars(Unregister(c))
  /\ \A h \in Handles : WF_vars(Flushing(h))

\* For the handlers the tracker is the barrier CommitBarrier describes: whatever
\* the caches do, a COMMIT, READ or stable WRITE gets through its wait or await
\* only when no flush of its file is in flight, and no loss vanishes otherwise.
Barrier == INSTANCE CommitBarrier WITH
  Flights <- Handles, Waiters <- Conns, inflight <- pending,
  waiting <- [c \in Conns |-> IF pc[c] \in {"wait", "vawait", "rawait"} THEN req[c].key ELSE Nil]

ImplementsBarrier == Barrier!Spec

-----------------------------------------------------------------------------
(* What the comments promise beyond that, and the code does not deliver.   *)

\* A dataSync/fileSync WRITE that replied OK is on stable storage.
StableMeansDurable == StableAcked \subseteq durable

\* A client never forgets data that was lost: the WRITE's verifier matched the
\* one in the reply to its COMMIT.
TrustedMeansDurable == trusted \subseteq durable

\* The same, counting only COMMIT replies sent when no verifier rotation was
\* under way.
SettledMeansDurable == settled \subseteq durable

-----------------------------------------------------------------------------
(* The inductive invariant behind CommitCovers, ReadCovers and StableCovers. *)

\* Which operation runs at which label, and which of its locals are set there.
ControlInv ==
  \A c \in Conns :
    /\ pc[c] = "idle" <=> req[c].op = "none"
    /\ req[c].op # "none" => req[c].key \in Keys
    /\ req[c].op \in {"unstable", "stable"} =>
         req[c].w \in Writes /\ req[c].todo = {} /\ (req[c].err => pc[c] = "closed")
    /\ pc[c] \in {"publish", "write", "sync", "vsync"} => req[c].h \in Handles
    /\ pc[c] \in {"vsync", "vdetach", "vclosed", "vawait"} => req[c].tgt \in Conns
    /\ pc[c] \in {"lookup", "open", "publish", "write"} => req[c].op \in {"unstable", "stable"}
    /\ pc[c] \in {"sync", "detach", "closed"} => req[c].op = "stable"
    /\ pc[c] \in {"visit", "vsync", "vdetach", "vclosed", "vawait"}
         => req[c].op \in {"commit", "read", "drop"}
    /\ pc[c] = "wait" => req[c].op \in {"commit", "stable"}
    /\ pc[c] = "rawait" => req[c].op = "read"
    /\ pc[c] = "path" => req[c].op = "commit"
    /\ pc[c] = "reply" => req[c].op \in {"commit", "unstable", "stable"}
    /\ pc[c] \in {"wait", "rawait", "path", "reply"} => ~req[c].err /\ req[c].todo = {}

\* A cached fd is open, filed under its own key in one live connection, and
\* not being flushed.
CachedInv ==
  \A c \in Conns, k \in Keys : entries[c][k] # Nil =>
    LET h == entries[c][k] IN
    /\ phase[c] = "up" /\ c \in wc
    /\ hkey[h] = k /\ h \notin closed /\ flush[h] = "none"
    /\ \A d \in Conns : entries[d][k] = h => d = c

\* An fd not yet published is open, empty, and known to one request only.
PrivateInv ==
  \A c \in Conns : pc[c] = "publish" =>
    LET h == req[c].h IN
    /\ hkey[h] = req[c].key /\ h \notin closed /\ flush[h] = "none"
    /\ h \notin dirty
    /\ \A d \in Conns : /\ entries[d][req[c].key] # h
                        /\ pc[d] = "publish" /\ req[d].h = h => d = c

\* Markers are pending exactly while a detached fd is being closed and recorded.
MarkerInv ==
  \A h \in Handles :
    /\ \A k \in Keys : h \in pending[k] <=> flush[h] \in {"close", "finish"} /\ hkey[h] = k
    /\ flush[h] = "close" => h \notin closed
    /\ flush[h] \in {"finish", "rotate"} => h \in closed
    /\ flush[h] # "none" => hkey[h] \in Keys
    /\ h \in lossy => flush[h] = "finish"
    /\ hkey[h] = Nil => h \notin closed

\* Buffered ids sit in open, dirty fds of their own file.
BufferInv ==
  \A h \in Handles :
    /\ h \in dirty <=> buf[h] # {}
    /\ \A w \in buf[h] : KeyOf[w] = hkey[h] /\ w \in sent
    /\ h \in dirty => h \notin closed /\ hkey[h] \in Keys

\* LossRecorded, in the terms of MarkerInv.
LossInv ==
  \A w \in lost \ reported :
    \/ KeyOf[w] \in errs
    \/ \E h \in lossy : hkey[h] = KeyOf[w]

Placed(w) == w \in durable \cup lost \/ \E h \in Handles : w \in buf[h]

AckInv == \A w \in Writes : ack[w] # Nil => w \in sent /\ Placed(w)

\* A WRITE under way: its id is new, and the fd it holds is its connection's.
WriteInv ==
  \A c \in Conns : req[c].op \in {"unstable", "stable"} =>
    LET w == req[c].w
        k == req[c].key
        h == req[c].h IN
    /\ phase[c] = "up" /\ c \in wc /\ w \in sent /\ k = KeyOf[w] /\ ack[w] = Nil
    /\ \A d \in Conns : req[d].op \in {"unstable", "stable"} /\ req[d].w = w => d = c
    /\ pc[c] = "write" => /\ hkey[h] = k
                          /\ h \in closed \/ flush[h] = "close" \/ entries[c][k] = h
    /\ IF pc[c] \in {"lookup", "open", "publish", "write"}
       THEN \A g \in Handles : w \notin buf[g] ELSE Placed(w)
    /\ pc[c] = "sync" => /\ h \in closed \/ w \in durable \cup buf[h]
                         /\ \A g \in Handles : w \in buf[g] => g = h
    /\ pc[c] \in {"sync", "detach"} =>
         \A g \in Handles : w \in buf[g] => entries[c][k] = g \/ g \in pending[k]
    /\ pc[c] \in {"closed", "wait"} => \A g \in Handles : w \in buf[g] => g \in pending[k]
    /\ pc[c] = "reply" /\ req[c].op = "stable" => w \in durable \cup reported

\* What is left to flush of the WRITEs a COMMIT or READ must cover is pending, or
\* cached in a connection the broadcast has still to visit.
SnapInv ==
  \A c \in Conns : req[c].op \in {"commit", "read"} =>
    LET k == req[c].key
        rest == req[c].todo \ (IF pc[c] \in {"vclosed", "vawait"} THEN {req[c].tgt} ELSE {}) IN
    \A w \in req[c].snap :
      /\ ack[w] # Nil /\ KeyOf[w] = k
      /\ pc[c] \in {"path", "reply"} => w \in durable \cup reported
      /\ ~req[c].err => \A g \in Handles : w \in buf[g] =>
           \/ g \in pending[k]
           \/ \E t \in rest : /\ entries[t][k] = g
                              /\ pc[c] = "vsync" /\ t = req[c].tgt => req[c].h = g

IInv ==
  /\ TypeOK /\ ControlInv /\ CachedInv /\ PrivateInv /\ MarkerInv /\ BufferInv
  /\ NoOrphanFd /\ LossInv /\ AckInv /\ WriteInv /\ SnapInv
  /\ CommitCovers /\ ReadCovers /\ StableCovers

=============================================================================
