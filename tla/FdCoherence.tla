---------------------------- MODULE FdCoherence -----------------------------
(***************************************************************************)
(* Cached fds against changes of the file: the read and write caches of    *)
(* each connection (readcache.go, handlecache.go) under READ and WRITE,    *)
(* while SETATTR and CREATE change the file's mode and size and drop every *)
(* cached fd before and after.  Backends check permissions at open, and    *)
(* may keep written data in the fd until it is synced or closed.           *)
(*                                                                         *)
(* One file.  Its attributes are a version that every change increments;   *)
(* an fd keeps the version it was opened under.  Its contents are the ids  *)
(* of the WRITEs present; a truncation empties them.                       *)
(***************************************************************************)
EXTENDS Integers, Sequences, FiniteSets

CONSTANTS
  Conns,      \* connections, all of them registered
  Fds,        \* identities of the fds that Open and OpenFile return
  Writes,     \* ids of WRITEs, each sent at most once
  Workload,   \* kinds of changes: setattr, create
  MaxUses, MaxChanges,   \* bounds on READs and WRITEs, and on SETATTRs and CREATEs
  Nil

ASSUME FdNil == Nil \notin Fds /\ Nil \notin Conns /\ Nil \notin Writes /\ Nil \notin Nat
ASSUME ChangeKinds == Workload \subseteq {"setattr", "create"}

Kinds == {"r", "w"}
Caches == Conns \X Kinds

\* Mutation: truncations drop the cached fds only afterwards.
PlanDropsLate == [setattr |-> <<"lstat", "mode", "owner", "size", "drop">>,
                  create  |-> <<"create", "drop", "lstat", "mode", "owner", "size", "drop">>]

\* What each request does between its first step and its reply.  "create" is
\* CREATE of a file that exists, in unchecked mode.
Plan == [setattr |-> <<"drop", "lstat", "mode", "owner", "size", "drop">>,
         create  |-> <<"drop", "create", "drop", "lstat", "mode", "owner", "size", "drop">>]
Stages == {"drop", "lstat", "mode", "owner", "size", "create", "again"}

VARIABLES
  ver, content,         \* the file: attribute version, ids present
  fver, fbuf, fclosed,  \* fds: version at open (or Nil), unflushed ids, closed
  entry, gen,           \* the caches: fd or Nil, invalidation generation
  evicting, \* fds detached by the sweeper, by the LRU or by a drain, not yet closed
  pc, req,  \* each connection's request goroutine and its locals
  sent, reads, changes, \* requests so far
  acked,    \* WRITEs acknowledged
  okVer,    \* newest version a change that replied OK made
  dead,     \* WRITEs acknowledged before a truncation that replied OK was sent
  raced     \* WRITEs in fds detached and not yet closed while the file was truncated

fdVars    == <<fver, fbuf, fclosed>>
cacheVars == <<entry, gen, evicting>>
boundVars == <<sent, reads, changes>>
histVars  == <<acked, okVer, dead, raced>>
vars == <<ver, content, fdVars, cacheVars, pc, req, boundVars, histVars>>

NoReq == [kind |-> "none", fd |-> Nil, gen |-> 0, att |-> 0, again |-> FALSE, w |-> Nil,
          floor |-> 0, plan |-> <<>>, todo |-> {}, tgt |-> Nil, ver |-> 0,
          before |-> {}, cut |-> FALSE]

Requests ==
  [kind : Kinds \cup {"none", "change"}, fd : Fds \cup {Nil}, gen : Nat, att : 0..1,
   again : BOOLEAN, w : Writes \cup {Nil}, floor : Nat, plan : Seq(Stages),
   todo : SUBSET Conns, tgt : Conns \cup {Nil}, ver : Nat, before : SUBSET Writes,
   cut : BOOLEAN]

TypeOK ==
  /\ ver \in Nat /\ content \subseteq Writes
  /\ fver \in [Fds -> Nat \cup {Nil}] /\ fbuf \in [Fds -> SUBSET Writes] /\ fclosed \subseteq Fds
  /\ entry \in [Caches -> Fds \cup {Nil}] /\ gen \in [Caches -> Nat]
  /\ evicting \subseteq Fds
  /\ pc \in [Conns -> {"idle", "get", "open", "put", "use", "drop", "dropr", "closew",
                       "closer", "lstat", "mode", "owner", "size", "create", "again"}]
  /\ req \in [Conns -> Requests]
  /\ sent \subseteq Writes /\ reads \in Nat /\ changes \in Nat
  /\ acked \subseteq Writes /\ okVer \in Nat 
  /\ dead \subseteq Writes /\ raced \subseteq Writes

Init ==
  /\ ver = 0 /\ content = {}
  /\ fver = [h \in Fds |-> Nil] /\ fbuf = [h \in Fds |-> {}] /\ fclosed = {}
  /\ entry = [x \in Caches |-> Nil] /\ gen = [x \in Caches |-> 0] /\ evicting = {}
  /\ pc = [c \in Conns |-> "idle"] /\ req = [c \in Conns |-> NoReq]
  /\ sent = {} /\ reads = 0 /\ changes = 0
  /\ acked = {} /\ okVer = 0 /\ dead = {} /\ raced = {}

Goto(c, label) == pc' = [pc EXCEPT ![c] = label]
Return(c) == Goto(c, "idle") /\ req' = [req EXCEPT ![c] = NoReq]

MaxOf(m, n) == IF m >= n THEN m ELSE n

\* Close of fd h.  What it still buffers reaches the file, or is lost with the
\* error (WriteDurability follows that error).
CloseFd(h) ==
  /\ fclosed' = fclosed \cup {h}
  /\ fbuf' = [fbuf EXCEPT ![h] = {}]
  /\ content' = content \cup fbuf[h] \/ content' = content

-----------------------------------------------------------------------------
(* READ and WRITE.                                                         *)

StartRead(c) ==
  /\ pc[c] = "idle" /\ reads + Cardinality(sent) < MaxUses
  /\ reads' = reads + 1
  /\ req' = [req EXCEPT ![c] = [NoReq EXCEPT !.kind = "r", !.floor = okVer]]
  /\ Goto(c, "get")
  /\ UNCHANGED <<ver, content, fdVars, cacheVars, sent, changes, histVars>>

StartWrite(c, w) ==
  /\ pc[c] = "idle" /\ w \notin sent /\ reads + Cardinality(sent) < MaxUses
  /\ sent' = sent \cup {w}
  /\ req' = [req EXCEPT ![c] = [NoReq EXCEPT !.kind = "w", !.w = w, !.floor = okVer]]
  /\ Goto(c, "get")
  /\ UNCHANGED <<ver, content, fdVars, cacheVars, reads, changes, histVars>>

Own(c) == <<c, req[c].kind>>

\* get, and on a miss sampleGen.
Get(c) ==
  /\ pc[c] = "get"
  /\ IF entry[Own(c)] = Nil
     THEN Goto(c, "open") /\ req' = [req EXCEPT ![c].gen = gen[Own(c)]]
     ELSE Goto(c, "use") /\ req' = [req EXCEPT ![c].fd = entry[Own(c)]]
  /\ UNCHANGED <<ver, content, fdVars, cacheVars, boundVars, histVars>>

Open(c) ==
  /\ pc[c] = "open"
  /\ \/ \E h \in Fds :
          /\ fver[h] = Nil
          /\ fver' = [fver EXCEPT ![h] = ver]
          /\ req' = [req EXCEPT ![c].fd = h]
          /\ Goto(c, "put")
     \/ Return(c) /\ UNCHANGED fver
  /\ UNCHANGED <<ver, content, fbuf, fclosed, cacheVars, boundVars, histVars>>

\* Mutation: the loop has no bound.
RetryUnbounded(c) == Goto(c, "get") /\ req' = [req EXCEPT ![c].att = @ + 1, ![c].fd = Nil]

\* The loops of cachedWrite and readHandleFor: one more attempt, then an error.
Retry(c) ==
  IF req[c].att = 0
  THEN Goto(c, "get") /\ req' = [req EXCEPT ![c].att = 1, ![c].fd = Nil]
  ELSE Return(c)

\* Mutation: put, without a look at the generation.
PutAnyway(c) ==
  /\ pc[c] = "put"
  /\ entry[Own(c)] = Nil
  /\ entry' = [entry EXCEPT ![Own(c)] = req[c].fd]
  /\ Goto(c, "use")
  /\ UNCHANGED <<ver, content, fdVars, gen, evicting, req, boundVars, histVars>>

PutIfFresh(c) ==
  /\ pc[c] = "put"
  /\ gen[Own(c)] = req[c].gen /\ entry[Own(c)] = Nil
  /\ entry' = [entry EXCEPT ![Own(c)] = req[c].fd]
  /\ Goto(c, "use")
  /\ UNCHANGED <<ver, content, fdVars, gen, evicting, req, boundVars, histVars>>

PutRefused(c) ==
  /\ pc[c] = "put"
  /\ gen[Own(c)] # req[c].gen \/ entry[Own(c)] # Nil
  /\ fclosed' = fclosed \cup {req[c].fd}
  /\ Retry(c)
  /\ UNCHANGED <<ver, content, fver, fbuf, cacheVars, boundVars, histVars>>

RemoveIf(x, h) == entry' = [entry EXCEPT ![x] = IF @ = h THEN Nil ELSE @]

\* The fd was closed meanwhile: removeIf, and the request starts over.  onRead does so
\* once, with a second call of readHandleFor and its two attempts, and then gives up.
UseClosed(c) ==
  /\ pc[c] = "use" /\ req[c].fd \in fclosed
  /\ IF req[c].again
     THEN Return(c) /\ UNCHANGED entry
     ELSE /\ RemoveIf(Own(c), req[c].fd)
          /\ IF req[c].kind = "w"
             THEN Retry(c)
             ELSE /\ Goto(c, "get")
                  /\ req' = [req EXCEPT ![c].again = TRUE, ![c].att = 0, ![c].fd = Nil]
  /\ UNCHANGED <<ver, content, fdVars, gen, evicting, boundVars, histVars>>

\* readAt, or writeAt with its reply.  Either may fail, writeAt after some of the
\* data was taken.
Use(c) ==
  /\ pc[c] = "use" /\ req[c].fd \notin fclosed
  /\ \/ /\ req[c].kind = "w"
        /\ fbuf' = [fbuf EXCEPT ![req[c].fd] = @ \cup {req[c].w}]
        /\ acked' = acked \cup {req[c].w} \/ acked' = acked
     \/ UNCHANGED <<fbuf, acked>>
  /\ Return(c)
  /\ UNCHANGED <<ver, content, fver, fclosed, cacheVars, boundVars, okVer, dead, raced>>

\* A COMMIT, or the flush before a READ, syncs a cached fd (WriteDurability).
Sync(h) ==
  /\ h \notin fclosed /\ fbuf[h] # {} /\ \E x \in Caches : entry[x] = h
  /\ content' = content \cup fbuf[h]
  /\ fbuf' = [fbuf EXCEPT ![h] = {}]
  /\ UNCHANGED <<ver, fver, fclosed, cacheVars, pc, req, boundVars, histVars>>

\* sweepIdle, evictOldestLocked or drainCaches takes an fd out of a cache, and
\* closes it after the lock is released.
Evict(x) ==
  /\ entry[x] # Nil
  /\ evicting' = evicting \cup {entry[x]}
  /\ entry' = [entry EXCEPT ![x] = Nil]
  /\ UNCHANGED <<ver, content, fdVars, gen, pc, req, boundVars, histVars>>

CloseEvicted(h) ==
  /\ h \in evicting
  /\ CloseFd(h)
  /\ evicting' = evicting \ {h}
  /\ UNCHANGED <<ver, fver, entry, gen, pc, req, boundVars, histVars>>

-----------------------------------------------------------------------------
(* SETATTR and CREATE.                                                     *)

\* The handler goes on with plan p; after its last stage it replies OK.
GoOn(c, p, r) ==
  IF p = <<>>
  THEN /\ Return(c)
       /\ okVer' = MaxOf(okVer, r.ver)
       /\ dead' = IF r.cut THEN dead \cup r.before ELSE dead
  ELSE /\ Goto(c, Head(p))
       /\ req' = [req EXCEPT ![c] = [r EXCEPT !.plan = p, !.tgt = Nil, !.fd = Nil,
                                     !.todo = IF Head(p) = "drop" THEN Conns ELSE {}]]
       /\ UNCHANGED <<okVer, dead>>

\* The handler returns an error, whatever it has changed so far.
Fail(c) == Return(c) /\ UNCHANGED <<okVer, dead>>

StartChange(c, op) ==
  /\ pc[c] = "idle" /\ changes < MaxChanges
  /\ changes' = changes + 1
  /\ GoOn(c, Plan[op], [NoReq EXCEPT !.kind = "change", !.before = acked])
  /\ UNCHANGED <<ver, content, fdVars, cacheVars, sent, reads, acked, raced>>

\* Mutation: the fd is taken out of the write cache and not closed.
DropWNoClose(c) ==
  /\ pc[c] = "drop"
  /\ \E t \in req[c].todo :
       /\ gen' = [gen EXCEPT ![<<t, "w">>] = @ + 1]
       /\ entry' = [entry EXCEPT ![<<t, "w">>] = Nil]
       /\ req' = [req EXCEPT ![c].todo = @ \ {t}, ![c].tgt = t]
       /\ Goto(c, "dropr")
  /\ UNCHANGED <<ver, content, fdVars, evicting, boundVars, histVars>>

\* dropHandleAll visits the next connection; dropHandle invalidates its write
\* cache, closing the fd it held, and then its read cache.
DropW(c) ==
  /\ pc[c] = "drop"
  /\ \E t \in req[c].todo :
       LET h == entry[<<t, "w">>] IN
       /\ gen' = [gen EXCEPT ![<<t, "w">>] = @ + 1]
       /\ entry' = [entry EXCEPT ![<<t, "w">>] = Nil]
       /\ req' = [req EXCEPT ![c].todo = @ \ {t}, ![c].tgt = t, ![c].fd = h]
       /\ Goto(c, IF h = Nil THEN "dropr" ELSE "closew")
  /\ UNCHANGED <<ver, content, fdVars, evicting, boundVars, histVars>>

DropR(c) ==
  LET x == <<req[c].tgt, "r">>
      h == entry[x] IN
  /\ pc[c] = "dropr"
  /\ gen' = [gen EXCEPT ![x] = @ + 1]
  /\ entry' = [entry EXCEPT ![x] = Nil]
  /\ req' = [req EXCEPT ![c].fd = h]
  /\ Goto(c, IF h = Nil THEN "drop" ELSE "closer")
  /\ UNCHANGED <<ver, content, fdVars, evicting, boundVars, histVars>>

CloseDropped(c) ==
  /\ pc[c] \in {"closew", "closer"}
  /\ CloseFd(req[c].fd)
  /\ Goto(c, IF pc[c] = "closew" THEN "dropr" ELSE "drop")
  /\ req' = [req EXCEPT ![c].fd = Nil]
  /\ UNCHANGED <<ver, fver, cacheVars, boundVars, histVars>>

DropDone(c) ==
  /\ pc[c] = "drop" /\ req[c].todo = {}
  /\ GoOn(c, Tail(req[c].plan), req[c])
  /\ UNCHANGED <<ver, content, fdVars, cacheVars, boundVars, acked, raced>>

\* Apply begins with Lstat.  Of its errors some end the request; with any other Apply
\* returns nil, and the handler goes on to its last drop as if all were done.
Lstat(c) ==
  /\ pc[c] = "lstat"
  /\ \/ GoOn(c, Tail(req[c].plan), req[c])
     \/ GoOn(c, <<"drop">>, req[c])
     \/ Fail(c)
  /\ UNCHANGED <<ver, content, fdVars, cacheVars, boundVars, acked, raced>>

\* Apply's Chmod, and then its Lchown: done, not needed, or refused.
Mode(c) ==
  /\ pc[c] \in {"mode", "owner"}
  /\ \/ ver' = ver + 1 /\ GoOn(c, Tail(req[c].plan), [req[c] EXCEPT !.ver = ver'])
     \/ UNCHANGED ver /\ (GoOn(c, Tail(req[c].plan), req[c]) \/ Fail(c))
  /\ UNCHANGED <<content, fdVars, cacheVars, boundVars, acked, raced>>

\* fds out of the caches and not yet closed.
Detached == evicting \cup {req[c].fd : c \in {d \in Conns : pc[d] = "closew"}}

\* The file is cut.  A detached fd still holds what it buffers.
Cut ==
  /\ ver' = ver + 1
  /\ content' = {}
  /\ raced' = raced \cup UNION {fbuf[h] : h \in Detached}

CutReq(c) == [req[c] EXCEPT !.ver = ver', !.cut = TRUE]

\* Apply's SetSize, if asked for: OpenFile and Truncate, either of which may fail, and Close,
\* whose failure comes too late, like that of Chtimes.
Size(c) ==
  /\ pc[c] = "size"
  /\ \/ Cut /\ (GoOn(c, Tail(req[c].plan), CutReq(c)) \/ Fail(c))
     \/ /\ UNCHANGED <<ver, content, raced>>
        /\ GoOn(c, Tail(req[c].plan), req[c]) \/ Fail(c)
  /\ UNCHANGED <<fdVars, cacheVars, boundVars, acked>>

\* fs.Create truncates, and the Close after it may fail.  If Create fails, dropAndRetry
\* drops once more and tries again, unless the file does not exist.
Create(c) ==
  /\ pc[c] \in {"create", "again"}
  /\ \/ Cut /\ (GoOn(c, Tail(req[c].plan), CutReq(c)) \/ Fail(c))
     \/ /\ UNCHANGED <<ver, content, raced>>
        /\ \/ pc[c] = "create" /\ GoOn(c, <<"drop", "again">> \o Tail(req[c].plan), req[c])
           \/ Fail(c)
  /\ UNCHANGED <<fdVars, cacheVars, boundVars, acked>>

-----------------------------------------------------------------------------
Next ==
  \/ \E c \in Conns : \/ StartRead(c) \/ (\E w \in Writes : StartWrite(c, w))
                      \/ Get(c) \/ Open(c) \/ PutIfFresh(c) \/ PutRefused(c)
                      \/ UseClosed(c) \/ Use(c)
                      \/ (\E op \in Workload : StartChange(c, op))
                      \/ DropW(c) \/ DropR(c) \/ CloseDropped(c) \/ DropDone(c)
                      \/ Lstat(c) \/ Mode(c) \/ Size(c) \/ Create(c)
  \/ \E x \in Caches : Evict(x)
  \/ \E h \in Fds : Sync(h) \/ CloseEvicted(h)

Spec == Init /\ [][Next]_vars

-----------------------------------------------------------------------------
\* A READ or WRITE sent after a SETATTR or CREATE replied OK never goes through an
\* fd opened before that change: the drop after Apply and putIfFresh leave none.
FreshUse ==
  \A c \in Conns : pc[c] = "use" => req[c].fd \in fclosed \/ fver[req[c].fd] >= req[c].floor

\* The goroutine of c alone has fd h: it opened h, or took it out of a cache.
Holds(c, h) == pc[c] \in {"put", "closew", "closer"} /\ req[c].fd = h

IsOpen(h) == fver[h] # Nil /\ h \notin fclosed

\* Fd h is in a cache, or a goroutine is about to publish or close it.
Owned(h) ==
  \/ \E x \in Caches : entry[x] = h
  \/ h \in evicting
  \/ \E c \in Conns : Holds(c, h)

\* Every open fd has an owner: removeIf and invalidate leave none open that nobody
\* will close.
FdOwned == \A h \in Fds : IsOpen(h) => Owned(h)

\* What was acknowledged before a truncation was sent does not come back after it
\* replied OK, unless its fd was detached, and not yet closed, while the file was cut.
CutIsFinal == content \cap dead \subseteq raced

\* The same without exception (the comment above the first drop of onSetAttr:
\* pending unstable writes are flushed before the truncate, "not racing them").
NoResurrection == content \cap dead = {}

-----------------------------------------------------------------------------
(* Why the properties hold: an inductive invariant (FdCoherenceProofs).    *)

Dropping == {"drop", "dropr", "closew", "closer"}
Applying == {"lstat", "mode", "owner", "size", "create", "again"}

\* A change goes through its stages in order, and a drop is the last of them.
EndsInDrop(p) == p # <<>> /\ p[Len(p)] = "drop"
Control(l, r) ==
  /\ l = "idle" => r.kind = "none"
  /\ l \in {"get", "open", "put", "use"} => r.kind \in Kinds
  /\ r.kind = "w" => r.w \in Writes
  /\ l \in {"put", "use", "closew", "closer"} => r.fd \in Fds
  /\ l \in Dropping \cup Applying => r.kind = "change" /\ EndsInDrop(r.plan)
  /\ l \in Dropping => Head(r.plan) = "drop"
  /\ l \in Applying => Head(r.plan) = l /\ r.todo = {}
  /\ l \in {"dropr", "closew", "closer"} => r.tgt \in Conns \ r.todo
ControlInv == \A c \in Conns : Control(pc[c], req[c])

\* An fd has one owner at most, and is open while it has one.
SoleOwner(h) ==
  /\ h \in fclosed => fver[h] # Nil
  /\ \A x \in Caches : entry[x] = h =>
       IsOpen(h) /\ h \notin evicting /\ \A y \in Caches : entry[y] = h => y = x
  /\ h \in evicting => IsOpen(h)
  /\ \A c \in Conns : Holds(c, h) =>
       /\ IsOpen(h) /\ h \notin evicting /\ \A x \in Caches : entry[x] # h
       /\ \A d \in Conns : Holds(d, h) => d = c
OwnerInv == \A h \in Fds : SoleOwner(h)

\* A WRITE is acknowledged once, at its end.
SentInv ==
  /\ acked \subseteq sent /\ dead \subseteq acked
  /\ \A c \in Conns :
       /\ req[c].before \subseteq acked
       /\ req[c].kind = "w" =>
            /\ req[c].w \in sent \ acked
            /\ \A d \in Conns : req[d].kind = "w" /\ req[d].w = req[c].w => d = c

VersionInv ==
  /\ okVer <= ver
  /\ \A c \in Conns :
       /\ req[c].floor <= okVer /\ req[c].ver <= ver
       /\ pc[c] \in {"open", "put"} => req[c].gen <= gen[Own(c)]
       /\ pc[c] = "use" => fver[req[c].fd] # Nil /\ fver[req[c].fd] >= req[c].floor

\* fd h is in cache x, or putIfFresh would still admit it.
Serves(x, h) ==
  \/ entry[x] = h
  \/ /\ pc[x[1]] = "put" /\ req[x[1]].kind = x[2] /\ req[x[1]].fd = h
     /\ gen[x] = req[x[1]].gen

\* c's drop has invalidated cache x.
Visited(c, x) ==
  /\ pc[c] \in Dropping /\ x[1] \notin req[c].todo
  /\ pc[c] \in {"closew", "dropr"} /\ x[1] = req[c].tgt => x[2] = "w"

\* What a cache holds is as new as the changes that replied OK, and as those whose
\* drop has passed it.
FreshInv ==
  \A x \in Caches : \A h \in Fds : Serves(x, h) =>
    fver[h] >= okVer /\ \A c \in Conns : Visited(c, x) => fver[h] >= req[c].ver

\* fd h may buffer data: it is in a write cache, or was detached and is still open.
Buffering(h) == h \in Detached \/ \E t \in Conns : entry[<<t, "w">>] = h

BufferInv ==
  /\ \A h \in Fds : fbuf[h] # {} => Buffering(h)
  /\ \A c \in Conns : pc[c] = "use" /\ req[c].kind = "w" =>
       req[c].fd \in fclosed \/ Buffering(req[c].fd)

\* Some fd, or the file, has the data of w.
Alive(w) == w \in content \/ \E h \in Fds : w \in fbuf[h]

\* What was acknowledged before a change is in no write cache its drop has passed;
\* once the change has cut the file, only the WRITEs in raced may come back.
CutInv ==
  /\ \A w \in dead : Alive(w) => w \in raced
  /\ \A c \in Conns : req[c].kind = "change" =>
       /\ \A t \in Conns \ req[c].todo : \A h \in Fds :
            entry[<<t, "w">>] = h => fbuf[h] \cap req[c].before = {}
       /\ req[c].cut => \A w \in req[c].before : Alive(w) => w \in raced

\* The inductive invariant.
IInv ==
  /\ TypeOK /\ ControlInv /\ OwnerInv /\ FdOwned /\ SentInv /\ VersionInv /\ FreshInv
  /\ BufferInv /\ CutInv
=============================================================================
