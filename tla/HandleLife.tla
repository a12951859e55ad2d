----------------------------- MODULE HandleLife ------------------------------
(***************************************************************************)
(* File handles from LOOKUP to REMOVE: the handle cache of CachingHandler  *)
(* (helpers/cachinghandler.go) with its reverse map and eviction callback, *)
(* the operations that mint handles (LOOKUP, CREATE, REMOVE) and the ones  *)
(* that invalidate them (REMOVE, RENAME), and the fds that READ and WRITE  *)
(* cache under a handle meanwhile.                                         *)
(*                                                                         *)
(* A handler is a list of steps, one per lock region or backend call; a    *)
(* step may push further steps in front of the rest.  The read and write   *)
(* cache of a connection are one cache here (FdCoherence tells them apart).*)
(* Which entry the LRU evicts is left open.                                *)
(***************************************************************************)
EXTENDS Integers, Sequences, FiniteSets

CONSTANTS
  Conns,    \* connections; each serves one request at a time
  Paths,    \* file names, all in one directory
  Ids,      \* the uuids that serve as handles
  Inodes,   \* identities of files
  Files0,   \* the file at each path in the beginning
  Limit,    \* size of activeHandles
  MaxOps,   \* bound on the requests, each counted with its cost
  Cost,
  Nil

Requests == {"lookup", "create", "remove", "rename", "io"}

ASSUME LifeAssumption ==
  /\ Nil \notin Conns \cup Paths \cup Ids \cup Inodes \cup Requests
  /\ Files0 \in [Paths -> Inodes \cup {Nil}]
  /\ \A p, q \in Paths : Files0[p] = Files0[q] /\ Files0[p] # Nil => p = q
  /\ Limit \in Nat \ {0} /\ MaxOps \in Nat
  /\ Cost \in [Requests -> Nat \ {0}]

VARIABLES
  inode,    \* the file at each path, or Nil
  used,     \* inodes that existed
  active,   \* activeHandles: ids that resolve
  pathOf,   \* the path each id was minted for, Nil for the others
  reverse,  \* reverseHandles: the ids of each path, oldest first
  entry, gen,           \* fd caches: inode cached under an id; generation
  req,      \* each connection's handler
  ops,
  known,    \* ids that a reply has carried to a client
  left,     \* files that left a path by a request that replied OK (history)
  dup,      \* ids of a path that two ids stood for (history)
  late      \* ids that went while a READ or WRITE had resolved them (history)

mapVars == <<active, pathOf, reverse>>
fdVars == <<entry, gen>>
histVars == <<known, left, dup, late>>
vars == <<inode, used, mapVars, fdVars, req, ops, histVars>>

Step(do, arg) == [do |-> do, arg |-> arg, todo |-> IF do = "drop" THEN Conns ELSE {}]
Drop(id) == Step("drop", id)

\* arg Nil stands for the handle the request has found.
Labels == {"lookup", "find", "add", "append", "unmap", "drop", "check", "create",
           "create2", "apply", "remove", "remove2", "kill", "rdrop", "rename", "rename2", "rkill",
           "from", "get", "open", "put", "use"}
Steps == [do : Labels, arg : Paths \cup Ids \cup {Nil}, todo : SUBSET Conns]

NoReq == [op |-> Nil, plan |-> <<>>, id |-> Nil, to |-> Nil, gen |-> 0, ino |-> Nil, att |-> 0,
          gone |-> {}, left |-> {}]

Pairs == Paths \X Inodes

Handlers == [op : Requests \cup {Nil}, plan : Seq(Steps), id : Ids \cup {Nil},
             to : Paths \cup {Nil}, gen : Nat, ino : Inodes \cup {Nil}, att : 0..1,
             gone : SUBSET Pairs, left : SUBSET Pairs]

TypeOK ==
  /\ inode \in [Paths -> Inodes \cup {Nil}] /\ used \subseteq Inodes
  /\ active \subseteq Ids /\ pathOf \in [Ids -> Paths \cup {Nil}]
  /\ reverse \in [Paths -> Seq(Ids)]
  /\ entry \in [Conns -> [Ids -> Inodes \cup {Nil}]] /\ gen \in [Conns -> Nat]
  /\ req \in [Conns -> Handlers]
  /\ ops \in Nat
  /\ known \subseteq Ids /\ left \subseteq Pairs /\ dup \subseteq Ids /\ late \subseteq Ids

Init ==
  /\ inode = Files0 /\ used = {Files0[p] : p \in Paths} \ {Nil}
  /\ active = {} /\ pathOf = [i \in Ids |-> Nil] /\ reverse = [p \in Paths |-> <<>>]
  /\ entry = [c \in Conns |-> [i \in Ids |-> Nil]] /\ gen = [c \in Conns |-> 0]
  /\ req = [c \in Conns |-> NoReq]
  /\ ops = 0 /\ known = {} /\ left = {} /\ dup = {} /\ late = {}

-----------------------------------------------------------------------------
(* Requests and their steps.                                               *)

Begin(c, op, plan, r) ==
  /\ req[c] = NoReq /\ ops + Cost[op] <= MaxOps
  /\ ops' = ops + Cost[op]
  /\ req' = [req EXCEPT ![c] = [r EXCEPT !.op = op, !.plan = plan, !.left = left]]
  /\ UNCHANGED <<inode, used, mapVars, fdVars, histVars>>

Lookup(c, p) == Begin(c, "lookup", <<Step("lookup", p)>>, NoReq)
Create(c, p) == Begin(c, "create", <<Step("check", p)>>, NoReq)
Remove(c, p) ==
  Begin(c, "remove",
        <<Step("find", p), Drop(Nil), Step("remove", p), Step("kill", Nil), Drop(Nil)>>, NoReq)
Rename(c, p, q) ==
  Begin(c, "rename",
        <<Step("rdrop", p), Step("rename", p), Step("rkill", p)>>, [NoReq EXCEPT !.to = q])
ReadOrWrite(c, i) == i \in known /\ Begin(c, "io", <<Step("from", i)>>, NoReq)

At(c, do) == req[c].plan # <<>> /\ Head(req[c].plan).do = do
Arg(c) == Head(req[c].plan).arg
Id(c) == IF Arg(c) = Nil THEN req[c].id ELSE Arg(c)

\* The head of the plan is done and the steps of more come next.  With nothing
\* left the request replies OK.
GoOn(c, more, r) ==
  LET plan == more \o Tail(r.plan) IN
  IF plan = <<>>
  THEN /\ req' = [req EXCEPT ![c] = NoReq]
       /\ left' = left \cup r.gone
       /\ known' = IF r.op \in {"lookup", "create"} THEN known \cup {r.id} ELSE known
  ELSE /\ req' = [req EXCEPT ![c] = [r EXCEPT !.plan = plan]]
       /\ UNCHANGED <<known, left>>

Fail(c) == req' = [req EXCEPT ![c] = NoReq] /\ UNCHANGED <<known, left>>

------------------------- (* The handle cache *) ----------------------------

\* Where a member of S comes first in the sequence.
First(seq, S) == CHOOSE n \in 1..Len(seq) : seq[n] \in S /\ \A m \in 1..(n - 1) : seq[m] \notin S

\* searchReverseCache: the oldest id of the path that still resolves.
Cached(p) ==
  IF \E n \in 1..Len(reverse[p]) : reverse[p][n] \in active
  THEN reverse[p][First(reverse[p], active)]
  ELSE Nil

\* The request still has this step before it.
Has(r, do, i) == \E n \in 1..Len(r.plan) : r.plan[n].do = do /\ r.plan[n].arg = i

\* An id that goes while a request has resolved it and not finished with it.
LateIf(S) ==
  late' = late \cup {i \in S : \E c \in Conns : /\ req[c].id = i
                                                /\ \E do \in {"get", "open", "put", "use"} : At(c, do)}

\* onLookup stats the file before it asks for a handle.
LookupStat(c) ==
  /\ At(c, "lookup")
  /\ IF inode[Arg(c)] = Nil THEN Fail(c) ELSE GoOn(c, <<Step("find", Arg(c))>>, req[c])
  /\ UNCHANGED <<inode, used, mapVars, fdVars, ops, dup, late>>

\* ToHandle: a handle that exists, or a new one.
Find(c) ==
  /\ At(c, "find")
  /\ IF Cached(Arg(c)) # Nil
     THEN GoOn(c, <<>>, [req[c] EXCEPT !.id = Cached(Arg(c))])
     ELSE GoOn(c, <<Step("add", Arg(c))>>, req[c])
  /\ UNCHANGED <<inode, used, mapVars, fdVars, ops, dup, late>>

\* activeHandles.Add, which in a full cache evicts an entry and runs onCacheEvict
\* for it before ToHandle goes on.  An id stands for its path while it resolves, and
\* while a REMOVE that found it is still going to invalidate it.
Add(c) ==
  LET p == Arg(c)
      twins == {i \in Ids : /\ pathOf[i] = p
                            /\ i \in active \/ \E d \in Conns : Has(req[d], "kill", Nil) /\ req[d].id = i} IN
  /\ At(c, "add")
  /\ \E n \in Ids :
       /\ pathOf[n] = Nil
       /\ pathOf' = [pathOf EXCEPT ![n] = p]
       /\ dup' = IF twins = {} THEN dup ELSE dup \cup twins \cup {n}
       /\ IF Cardinality(active) < Limit
          THEN /\ active' = active \cup {n} /\ UNCHANGED late
               /\ GoOn(c, <<Step("append", n)>>, [req[c] EXCEPT !.id = n])
          ELSE \E v \in active :
                 /\ active' = (active \ {v}) \cup {n} /\ LateIf({v})
                 /\ GoOn(c, <<Step("unmap", v), Drop(v), Step("append", n)>>,
                         [req[c] EXCEPT !.id = n])
  /\ UNCHANGED <<inode, used, reverse, fdVars, ops>>

AppendReverse(c) ==
  LET p == pathOf[Arg(c)] IN
  /\ At(c, "append")
  /\ reverse' = [reverse EXCEPT ![p] = Append(@, Arg(c))]
  /\ GoOn(c, <<>>, req[c])
  /\ UNCHANGED <<inode, used, active, pathOf, fdVars, ops, dup, late>>

\* InvalidateHandle: activeHandles.Remove, and onCacheEvict if the id was there.
Kill(c) ==
  /\ At(c, "kill")
  /\ active' = active \ {Id(c)} /\ LateIf({Id(c)})
  /\ GoOn(c, IF Id(c) \in active THEN <<Step("unmap", Id(c)), Drop(Id(c))>> ELSE <<>>, req[c])
  /\ UNCHANGED <<inode, used, pathOf, reverse, fdVars, ops, dup>>

\* Mutation: all ids of the path leave the reverse map.
UnmapPath(c) ==
  /\ At(c, "unmap")
  /\ reverse' = [reverse EXCEPT ![pathOf[Arg(c)]] = <<>>]
  /\ GoOn(c, <<>>, req[c])
  /\ UNCHANGED <<inode, used, active, pathOf, fdVars, ops, dup, late>>

\* evictReverseCache.
Unmap(c) ==
  LET ids == reverse[pathOf[Arg(c)]]
      n == First(ids, {Arg(c)}) IN
  /\ At(c, "unmap")
  /\ IF \E m \in 1..Len(ids) : ids[m] = Arg(c)
     THEN reverse' = [reverse EXCEPT ![pathOf[Arg(c)]] = SubSeq(ids, 1, n - 1) \o SubSeq(ids, n + 1, Len(ids))]
     ELSE UNCHANGED reverse
  /\ GoOn(c, <<>>, req[c])
  /\ UNCHANGED <<inode, used, active, pathOf, fdVars, ops, dup, late>>

\* Mutation: only the connection that carries the request loses its fd.
DropOwn(c) ==
  /\ At(c, "drop")
  /\ gen' = [gen EXCEPT ![c] = @ + 1]
  /\ entry' = [entry EXCEPT ![c][Id(c)] = Nil]
  /\ GoOn(c, <<>>, req[c])
  /\ UNCHANGED <<inode, used, mapVars, ops, dup, late>>

\* notifyEvicted, or a handler's own dropHandleAll: one connection after another
\* loses the fd it cached under the id, and refuses the ones being opened.
DropOne(c) ==
  /\ At(c, "drop")
  /\ \E t \in Head(req[c].plan).todo :
       LET rest == Head(req[c].plan).todo \ {t} IN
       /\ gen' = [gen EXCEPT ![t] = @ + 1]
       /\ entry' = [entry EXCEPT ![t][Id(c)] = Nil]
       /\ GoOn(c, IF rest = {} THEN <<>> ELSE <<[Head(req[c].plan) EXCEPT !.todo = rest]>>, req[c])
  /\ UNCHANGED <<inode, used, mapVars, ops, dup, late>>

------------------- (* CREATE, REMOVE and RENAME *) -------------------------

\* onCreate stats the file: an existing one gets its handle and a drop before it is
\* truncated (or is refused, in guarded mode), a new one gets its handle afterwards.
CreateCheck(c) ==
  LET p == Arg(c) IN
  /\ At(c, "check")
  /\ \/ GoOn(c, IF inode[p] # Nil
                THEN <<Step("find", p), Drop(Nil), Step("create", p), Drop(Nil),
                       Step("apply", p), Drop(Nil)>>
                ELSE <<Step("create", p), Step("find", p), Step("apply", p), Drop(Nil)>>, req[c])
     \/ inode[p] # Nil /\ Fail(c)
  /\ UNCHANGED <<inode, used, mapVars, fdVars, ops, dup, late>>

\* fs.Create under dropAndRetry; afterwards the Close may still fail.
CreateFile(c) ==
  LET p == Arg(c) IN
  /\ At(c, "create") \/ At(c, "create2")
  /\ \/ /\ IF inode[p] # Nil
           THEN UNCHANGED <<inode, used>>
           ELSE \E i \in Inodes \ used : inode' = [inode EXCEPT ![p] = i] /\ used' = used \cup {i}
        /\ GoOn(c, <<>>, req[c]) \/ Fail(c)
     \/ /\ UNCHANGED <<inode, used>>
        /\ IF At(c, "create")
           THEN GoOn(c, (IF req[c].id = Nil THEN <<>> ELSE <<Drop(Nil)>>) \o <<Step("create2", p)>>,
                     req[c])
           ELSE Fail(c)
  /\ UNCHANGED <<mapVars, fdVars, ops, dup, late>>

Apply(c) ==
  /\ At(c, "apply")
  /\ GoOn(c, <<>>, req[c]) \/ Fail(c)
  /\ UNCHANGED <<inode, used, mapVars, fdVars, ops, dup, late>>

\* fs.Remove under dropAndRetry: a backend may refuse to remove a file that is open.
RemoveFile(c) ==
  LET p == Arg(c) IN
  /\ At(c, "remove") \/ At(c, "remove2")
  /\ IF inode[p] = Nil
     THEN Fail(c) /\ UNCHANGED inode
     ELSE \/ /\ inode' = [inode EXCEPT ![p] = Nil]
             /\ GoOn(c, <<>>, [req[c] EXCEPT !.gone = {<<p, inode[p]>>}])
          \/ /\ UNCHANGED inode
             /\ IF At(c, "remove")
                THEN GoOn(c, <<Drop(Nil), Step("remove2", p)>>, req[c])
                ELSE Fail(c)
  /\ UNCHANGED <<used, mapVars, fdVars, ops, dup, late>>

\* resolveHandles: the handles of source and destination, without minting any.
Resolved(c) ==
  LET a == Cached(Arg(c))
      b == Cached(req[c].to) IN
  (IF a = Nil THEN <<>> ELSE <<a>>) \o (IF b \in {Nil, a} THEN <<>> ELSE <<b>>)

RenameDrop(c) ==
  LET hs == Resolved(c) IN
  /\ At(c, "rdrop")
  /\ GoOn(c, [n \in 1..Len(hs) |-> Drop(hs[n])], req[c])
  /\ UNCHANGED <<inode, used, mapVars, fdVars, ops, dup, late>>

\* fs.Rename under dropAndRetry.  The file is at q now, whoever took it from there before.
RenameFile(c) ==
  LET p == Arg(c)
      q == req[c].to
      back == {<<q, inode[p]>>} IN
  /\ At(c, "rename") \/ At(c, "rename2")
  /\ IF inode[p] = Nil
     THEN Fail(c) /\ UNCHANGED inode
     ELSE \/ /\ inode' = IF p = q THEN inode ELSE [inode EXCEPT ![q] = inode[p], ![p] = Nil]
             /\ left' = left \ back /\ UNCHANGED known
             /\ req' = [d \in Conns |->
                  IF d = c
                  THEN [req[c] EXCEPT !.plan = Tail(@), !.left = @ \ back,
                          !.gone = IF p = q THEN {} ELSE {<<p, inode[p]>>, <<q, inode[q]>>} \cap Pairs]
                  ELSE [req[d] EXCEPT !.gone = @ \ back, !.left = @ \ back]]
          \/ /\ UNCHANGED inode
             /\ IF At(c, "rename")
                THEN GoOn(c, <<Step("rdrop", p), Step("rename2", p)>>, req[c])
                ELSE Fail(c)
  /\ UNCHANGED <<used, mapVars, fdVars, ops, dup, late>>

\* Mutation: only the handle of the source is invalidated.
RenameKillSource(c) ==
  LET a == Cached(Arg(c)) IN
  /\ At(c, "rkill")
  /\ GoOn(c, IF a = Nil THEN <<>> ELSE <<Step("kill", a), Drop(a)>>, req[c])
  /\ UNCHANGED <<inode, used, mapVars, fdVars, ops, dup, late>>

RenameKill(c) ==
  LET hs == Resolved(c) IN
  /\ At(c, "rkill")
  /\ GoOn(c, [n \in 1..(2 * Len(hs)) |->
               IF n % 2 = 1 THEN Step("kill", hs[(n + 1) \div 2]) ELSE Drop(hs[n \div 2])], req[c])
  /\ UNCHANGED <<inode, used, mapVars, fdVars, ops, dup, late>>

------------------------- (* READ and WRITE *) ------------------------------

\* FromHandle: from here on the request works with the path.
FromHandle(c) ==
  /\ At(c, "from")
  /\ IF Arg(c) \in active
     THEN GoOn(c, <<Step("get", Nil)>>, [req[c] EXCEPT !.id = Arg(c)])
     ELSE Fail(c)
  /\ UNCHANGED <<inode, used, mapVars, fdVars, ops, dup, late>>

Get(c) ==
  LET i == entry[c][req[c].id] IN
  /\ At(c, "get")
  /\ IF i # Nil
     THEN GoOn(c, <<Step("use", Nil)>>, [req[c] EXCEPT !.ino = i])
     ELSE GoOn(c, <<Step("open", Nil)>>, [req[c] EXCEPT !.gen = gen[c]])
  /\ UNCHANGED <<inode, used, mapVars, fdVars, ops, dup, late>>

Open(c) ==
  LET i == inode[pathOf[req[c].id]] IN
  /\ At(c, "open")
  /\ IF i = Nil THEN Fail(c) ELSE GoOn(c, <<Step("put", Nil)>>, [req[c] EXCEPT !.ino = i])
  /\ UNCHANGED <<inode, used, mapVars, fdVars, ops, dup, late>>

\* Mutation: the loop has no bound.
RetryUnbounded(c) ==
  GoOn(c, <<Step("get", Nil)>>, [req[c] EXCEPT !.att = @ + 1, !.ino = Nil])

\* Another attempt with the path already resolved, or an error, as in cachedWrite (a
\* READ may try more often, see FdCoherence).
Retry(c) ==
  IF req[c].att = 0
  THEN GoOn(c, <<Step("get", Nil)>>, [req[c] EXCEPT !.att = 1, !.ino = Nil])
  ELSE Fail(c)

PutIfFresh(c) ==
  /\ At(c, "put")
  /\ IF gen[c] = req[c].gen
     THEN /\ entry' = [entry EXCEPT ![c][req[c].id] = req[c].ino]
          /\ GoOn(c, <<Step("use", Nil)>>, req[c])
     ELSE Retry(c) /\ UNCHANGED entry
  /\ UNCHANGED <<inode, used, mapVars, gen, ops, dup, late>>

\* The fd may have been dropped meanwhile, and closed by now or not yet.
Use(c) ==
  /\ At(c, "use")
  /\ \/ GoOn(c, <<>>, req[c])
     \/ entry[c][req[c].id] = Nil /\ Retry(c)
  /\ UNCHANGED <<inode, used, mapVars, fdVars, ops, dup, late>>

-----------------------------------------------------------------------------
Next ==
  \E c \in Conns :
    \/ \E p \in Paths : Lookup(c, p) \/ Create(c, p) \/ Remove(c, p) \/ \E q \in Paths : Rename(c, p, q)
    \/ \E i \in Ids : ReadOrWrite(c, i)
    \/ LookupStat(c) \/ Find(c) \/ Add(c) \/ AppendReverse(c) \/ Kill(c) \/ Unmap(c) \/ DropOne(c)
    \/ CreateCheck(c) \/ CreateFile(c) \/ Apply(c) \/ RemoveFile(c)
    \/ RenameDrop(c) \/ RenameFile(c) \/ RenameKill(c)
    \/ FromHandle(c) \/ Get(c) \/ Open(c) \/ PutIfFresh(c) \/ Use(c)

Spec == Init /\ [][Next]_vars

-----------------------------------------------------------------------------
\* Every id that resolves can be found through the reverse map, once the ToHandle
\* that minted it is through: otherwise RENAME would not see it.
ActiveIsFindable ==
  \A i \in active : \/ \E n \in 1..Len(reverse[pathOf[i]]) : reverse[pathOf[i]][n] = i
                    \/ \E c \in Conns : Has(req[c], "append", i)

\* No fd stays cached under an id that was evicted or invalidated
\* (bindHandleEviction), unless a READ or WRITE had resolved the id before.
DeadFdsDropped ==
  \A c \in Conns, i \in Ids :
    entry[c][i] # Nil /\ i \notin active =>
      \/ i \in late
      \/ \E d \in Conns : Has(req[d], "drop", i)

\* A READ or WRITE sent after a REMOVE or RENAME replied OK does not reach, by name,
\* the file that this request took away, unless two handles stood for the name: RENAME
\* invalidates one of them, and REMOVE the one it found before it removed the file.
ServedFileCurrent ==
  \A c \in Conns : At(c, "use") =>
    req[c].id \in dup \/ <<pathOf[req[c].id], req[c].ino>> \notin req[c].left

\* The same without exception: "no stale fd (pointing at the old/replaced inode) is
\* reused afterwards" (onRename).
NoStaleInode ==
  \A c \in Conns : At(c, "use") => <<pathOf[req[c].id], req[c].ino>> \notin req[c].left

-----------------------------------------------------------------------------
(* The inductive invariant behind ActiveIsFindable, DeadFdsDropped and      *)
(* ServedFileCurrent.                                                       *)

Alone == {"lookup", "check", "from", "get", "open", "put", "use"}
OnPath == {"lookup", "find", "add", "check", "create", "create2", "apply", "remove", "remove2",
           "rdrop", "rename", "rename2", "rkill"}
Finding == {"find", "add"}
Removing == {"remove", "remove2"}
Renaming == {"rename", "rename2"}
Serving == {"get", "open", "put", "use"}
Finishing == {"kill", "drop", "rkill"}

\* The steps that cannot fail, and those of them that publish or clean up one id.
Cleaning == {"unmap", "drop", "kill", "append"}
Carries(s) == s.do \in {"unmap", "append"} \/ (s.do \in {"kill", "drop"} /\ s.arg # Nil)

Minted(i) == i \in Ids /\ pathOf[i] # Nil
Listed(i) == \E n \in 1..Len(reverse[pathOf[i]]) : reverse[pathOf[i]][n] = i
Findable(i) == Minted(i) /\ (i \in active => Listed(i))

StepOK(s) ==
  /\ s.do \in OnPath => s.arg \in Paths
  /\ s.do \in Serving => s.arg = Nil
  /\ s.do = "from" => Findable(s.arg)
  /\ Carries(s) => Minted(s.arg)
  /\ s.do = "unmap" => s.arg \notin active

\* What may follow a step in a plan: nothing can fail before an id is cleaned up, and
\* once the backend has changed only the cleaning is left.
Ordered(s, t) ==
  /\ s.do \notin Alone /\ t.do \notin Alone
  /\ Carries(t) => s.do \in Cleaning
  /\ s.do \in Removing \cup Renaming \cup {"kill", "rkill"} => t.do \in Finishing
  /\ s.do \in Finding /\ t.do \in Removing => s.arg = t.arg

PlanOK(plan) ==
  /\ \A n \in 1..Len(plan) : StepOK(plan[n])
  /\ \A m, n \in 1..Len(plan) : m < n => Ordered(plan[m], plan[n])

HeadIn(r, S) == r.plan # <<>> /\ Head(r.plan).do \in S

\* A REMOVE invalidates the handle it found for the file that it removes.
RemoveOK(r) ==
  \A n \in 1..Len(r.plan) : r.plan[n].do \in Removing =>
    /\ Has(r, "kill", Nil)
    /\ HeadIn(r, Finding) \/ (r.id # Nil /\ pathOf[r.id] = r.plan[n].arg)

RenameOK(r) ==
  \A n \in 1..Len(r.plan) :
    /\ r.plan[n].do \in {"rdrop", "rkill"} \cup Renaming => r.to # Nil
    /\ r.plan[n].do \in Renaming => Has(r, "rkill", r.plan[n].arg)

\* The handle a request has found, or is going to find before it replies.
IdOK(r) ==
  /\ r.id # Nil => Minted(r.id) /\ (Findable(r.id) \/ Has(r, "append", r.id))
  /\ r.op \in {"lookup", "create"} /\ r.id = Nil =>
       \E n \in 1..Len(r.plan) : r.plan[n].do \in {"lookup", "check"} \cup Finding

ServeOK(r) ==
  /\ HeadIn(r, Serving) => r.id # Nil /\ Findable(r.id)
  /\ HeadIn(r, {"put", "use"}) => r.ino # Nil

GoneOK(r) ==
  r.gone # {} => \A n \in 1..Len(r.plan) : r.plan[n].do \in Cleaning \cup {"rkill"}

HandlerOK(r) ==
  PlanOK(r.plan) /\ RemoveOK(r) /\ RenameOK(r) /\ IdOK(r) /\ ServeOK(r) /\ GoneOK(r)

MapInv ==
  /\ \A i \in active : Minted(i)
  /\ \A p \in Paths : \A n \in 1..Len(reverse[p]) : pathOf[reverse[p][n]] = p
  /\ \A i \in known : Findable(i)
  /\ \A c \in Conns, i \in Ids : entry[c][i] # Nil => Findable(i)

Dropping(r, c, i) ==
  \E n \in 1..Len(r.plan) : r.plan[n].do = "drop" /\ r.plan[n].arg = i /\ c \in r.plan[n].todo

\* An id that is dead while a request serves it went late, and otherwise its fds are
\* going to be dropped.
DeadInv ==
  /\ \A c \in Conns : HeadIn(req[c], Serving) => req[c].id \in active \cup late
  /\ \A c \in Conns, i \in Ids : entry[c][i] # Nil =>
       i \in active \cup late \/ \E d \in Conns : Dropping(req[d], c, i)

\* What the file system holds did not leave its path, and no file is at two paths.
FileInv ==
  /\ \A p \in Paths : inode[p] # Nil =>
       /\ inode[p] \in used
       /\ <<p, inode[p]>> \notin left
       /\ \A c \in Conns : <<p, inode[p]>> \notin req[c].gone
       /\ \A q \in Paths : inode[q] = inode[p] => q = p
  /\ \A p \in Paths, x \in Inodes :
       <<p, x>> \in left \/ (\E c \in Conns : <<p, x>> \in req[c].gone) => x \in used
  /\ \A c \in Conns : req[c].left \subseteq left

\* The id that alone stands for its path.
Sole(i) == i \in active /\ i \notin dup

SoleInv ==
  /\ \A i, j \in Ids : Sole(i) /\ j \in active /\ pathOf[j] = pathOf[i] => j = i
  /\ \A d \in Conns, i \in Ids :
       Has(req[d], "kill", Nil) /\ req[d].id # Nil /\ Sole(i) /\ pathOf[i] = pathOf[req[d].id]
         => req[d].id = i

\* Connection c has, or is about to have, an fd of file x cached under id i.
Serves(c, i, x) ==
  \/ entry[c][i] = x
  \/ At(c, "put") /\ req[c].id = i /\ req[c].ino = x /\ gen[c] = req[c].gen

\* The request is still going to invalidate id i, the id of path p.
Killing(r, i, p) ==
  \/ Has(r, "kill", i)
  \/ Has(r, "kill", Nil) /\ r.id = i
  \/ \E n \in 1..Len(r.plan) : r.plan[n].do = "rkill" /\ p \in {r.plan[n].arg, r.to}

\* A file that left a path is not served under the id that stands for the path once
\* the request has replied; before, the request is still going to invalidate the id.
ServedInv ==
  \A c \in Conns, i \in Ids, x \in Inodes : Sole(i) /\ Serves(c, i, x) =>
    /\ <<pathOf[i], x>> \notin left
    /\ \A d \in Conns : <<pathOf[i], x>> \in req[d].gone => Killing(req[d], i, pathOf[i])

\* What a request that was sent after such a reply finds in the cache, and has found.
ReaderInv ==
  \A c \in Conns :
    /\ HeadIn(req[c], Serving) =>
         req[c].id \in dup \/ <<pathOf[req[c].id], entry[c][req[c].id]>> \notin req[c].left
    /\ HeadIn(req[c], {"put", "use"}) =>
         req[c].id \in dup \/ <<pathOf[req[c].id], req[c].ino>> \notin req[c].left

\* The generation that a request remembers is not ahead of the cache's.
GenInv == \A c \in Conns : HeadIn(req[c], {"open", "put"}) => req[c].gen <= gen[c]

IInv ==
  /\ TypeOK /\ (\A c \in Conns : HandlerOK(req[c])) /\ MapInv /\ ActiveIsFindable
  /\ DeadInv /\ FileInv /\ SoleInv /\ ServedInv /\ ReaderInv /\ GenInv
=============================================================================
