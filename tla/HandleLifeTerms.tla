-------------------------- MODULE HandleLifeTerms ---------------------------
(***************************************************************************)
(* The terms in which the proofs about HandleLife speak of a step: what it *)
(* does to the request that takes it, to the handles and to what the plans *)
(* of the requests hold.                                                   *)
(***************************************************************************)
EXTENDS HandleLife

\* What happens to the handles that exist in any step: they keep their path, do not come
\* back once they are gone, and can be found while they resolve once they could.
Grows ==
  /\ \A i : Minted(i) => Minted(i)' /\ pathOf'[i] = pathOf[i] /\ (i \in active' => i \in active)
  /\ \A i : Findable(i) => Findable(i)'
  /\ dup \subseteq dup'

-----------------------------------------------------------------------------
(* What a step does to the request.                                         *)

Sets(c, q) == req' = [req EXCEPT ![c] = q]

\* What the others rely on: the drops and the entries in the reverse map that are planned,
\* the ids that a REMOVE is going to invalidate, the invalidations that are due before the
\* reply.
DropsStay(o, q) == \A t \in Conns, i \in Ids : Dropping(o, t, i) => Dropping(q, t, i)
AppendsStay(o, q) == \A i : Has(o, "append", i) => Has(q, "append", i) \/ Findable(i)'
KillOld(o, q) == Has(q, "kill", Nil) /\ q.id # Nil => Has(o, "kill", Nil) /\ q.id = o.id
KillsStay(o, q) ==
  q.gone \subseteq o.gone /\ (q.gone # {} => \A i, p : Killing(o, i, p) => Killing(q, i, p))
NotServing(q) == ~ HeadIn(q, Serving) /\ ~ HeadIn(q, {"put", "use"})
KnownOK == \A i \in known' : i \in known \/ Findable(i)'
LeftOK(o) == left' = left \/ (left' = left \cup o.gone /\ \A i, p : ~ Killing(o, i, p))

\* A step that only goes on.
Plain(c, o, q) ==
  /\ Sets(c, q) /\ HandlerOK(q)' /\ KnownOK /\ KillOld(o, q) /\ NotServing(q) /\ q.left \subseteq o.left
  /\ AppendsStay(o, q)
  /\ Head(o.plan).do # "drop" => DropsStay(o, q)
  /\ Head(o.plan).do \notin {"kill", "rkill"} => KillsStay(o, q) /\ LeftOK(o)

Calm(c) == Grows /\ \E q \in Handlers : Plain(c, req[c], q)

\* A step that finds a handle: Plain, except that the handle is new to the request.
Goes(c, o, q) ==
  /\ Sets(c, q) /\ HandlerOK(q)' /\ KnownOK /\ NotServing(q) /\ q.left \subseteq o.left
  /\ DropsStay(o, q) /\ AppendsStay(o, q) /\ KillsStay(o, q) /\ LeftOK(o)

\* What a new handle does to the cache: it takes the place of v, or of none.
Mints(c, q, n, v) ==
  LET p == Arg(c) IN
  /\ n \in Ids /\ v \in Ids \cup {Nil} /\ p \in Paths /\ pathOf[n] = Nil
  /\ pathOf' = [pathOf EXCEPT ![n] = p]
  /\ active' = (active \ {v}) \cup {n}
  /\ \A i \in Ids : pathOf[i] = p /\ (i \in active \/ \E d \in Conns : Has(req[d], "kill", Nil) /\ req[d].id = i)
       => i \in dup' /\ n \in dup'
  /\ dup \subseteq dup' /\ dup' \subseteq Ids
  /\ late' = late \/ LateIf({v})
  /\ v \in active => LateIf({v}) /\ \A t \in Conns : Dropping(q, t, v)
  /\ q.id = n /\ Has(q, "append", n)
  /\ UNCHANGED <<inode, used, reverse, fdVars, ops>>

\* The reverse map lists ids of the path.
RevOK == /\ reverse \in [Paths -> Seq(Ids)]
         /\ \A p \in Paths : \A n \in 1..Len(reverse[p]) : pathOf[reverse[p][n]] = p

\* The invalidations of other ids stay due.
KillsBut(o, q, i) ==
  /\ q.gone \subseteq o.gone
  /\ q.gone # {} => \A j \in Ids : \A p : j # i /\ Killing(o, j, p) => Killing(q, j, p)
LeftBut(o, i) ==
  left' = left \/ (left' = left \cup o.gone /\ \A j \in Ids : \A p : j # i => ~ Killing(o, j, p))

Kills(c, o, q, i) ==
  /\ Plain(c, o, q) /\ Head(o.plan).do = "kill" /\ i \in Ids \cup {Nil}
  /\ active' = active \ {i} /\ LateIf({i})
  /\ i \in active => \A t \in Conns : Dropping(q, t, i)
  /\ KillsBut(o, q, i) /\ LeftBut(o, i)

\* The drops of other ids, and from other connections, stay planned.
DropsBut(o, q, t, i) ==
  \A d \in Conns, j \in Ids : Dropping(o, d, j) => Dropping(q, d, j) \/ (d = t /\ j = i)

Drops(c, o, q, t, i) ==
  /\ Plain(c, o, q) /\ Head(o.plan).do = "drop" /\ i \in Ids \cup {Nil} /\ t \in Conns
  /\ gen' = [gen EXCEPT ![t] = @ + 1]
  /\ entry' = [entry EXCEPT ![t][i] = Nil]
  /\ DropsBut(o, q, t, i)

\* A file leaves path p, by a REMOVE that is going to invalidate its handle.
Removes(c, o, q, p) ==
  /\ Sets(c, q) /\ HandlerOK(q)' /\ UNCHANGED <<known, left>> /\ KillOld(o, q) /\ NotServing(q)
  /\ q.left = o.left /\ DropsStay(o, q) /\ AppendsStay(o, q)
  /\ o.gone = {} /\ q.gone = {<<p, inode[p]>>} /\ Has(q, "kill", Nil) /\ q.id \in Ids /\ pathOf[q.id] = p
  /\ p \in Paths /\ inode[p] # Nil /\ inode' = [inode EXCEPT ![p] = Nil]

\* The ids that RENAME is going to invalidate: the one of each path that is found.
Rekills(o, q, p, x) ==
  /\ Head(o.plan).do = "rkill" /\ p \in Paths /\ x \in Paths /\ q.gone \subseteq o.gone
  /\ q.gone # {} => \A j, y : Killing(o, j, y) =>
       Killing(q, j, y) \/ (y \in {p, x} /\ (Cached(y) # Nil => Has(q, "kill", Cached(y))))
  /\ \/ left' = left
     \/ left' = left \cup o.gone /\ \A j, y : Killing(o, j, y) => y \in {p, x} /\ Cached(y) = Nil

\* The file at p is renamed to x.
Renames(c, o, q, p, x) ==
  LET back == {<<x, inode[p]>>} IN
  /\ p \in Paths /\ x \in Paths /\ inode[p] # Nil /\ o.gone = {}
  /\ inode' = IF p = x THEN inode ELSE [inode EXCEPT ![x] = inode[p], ![p] = Nil]
  /\ left' = left \ back /\ known' = known
  /\ req' = [d \in Conns |-> IF d = c THEN q ELSE [req[d] EXCEPT !.gone = @ \ back, !.left = @ \ back]]
  /\ HandlerOK(q)' /\ KillOld(o, q) /\ NotServing(q) /\ DropsStay(o, q) /\ AppendsStay(o, q)
  /\ q.left = o.left \ back /\ Has(q, "rkill", p) /\ q.to = x
  /\ q.gone = IF p = x THEN {} ELSE {<<p, inode[p]>>, <<x, inode[x]>>} \cap Pairs

\* The request goes on with a step of READ or WRITE.
Working(c, o, q, do) ==
  /\ Sets(c, q) /\ HandlerOK(q)' /\ UNCHANGED <<known, left>> /\ q.left = o.left /\ q.gone = {}
  /\ q.plan # <<>> /\ Head(q.plan).do = do /\ ~ Has(q, "kill", Nil)
  /\ \A n \in 1..Len(q.plan) : q.plan[n].do = do
  /\ DropsStay(o, q) /\ AppendsStay(o, q)

-----------------------------------------------------------------------------
(* What a step of connection c has to respect, conjunct by conjunct.        *)

\* The request of another connection, which only its histories may lose files.
Kept(r, s) ==
  /\ s.plan = r.plan /\ s.id = r.id /\ s.ino = r.ino /\ s.gen = r.gen /\ s.op = r.op /\ s.to = r.to
  /\ s.gone \subseteq r.gone /\ s.left \subseteq r.left

\* The request of connection c becomes q.
Turn(c, q) ==
  /\ q \in Handlers /\ req' \in [Conns -> Handlers] /\ req'[c] = q
  /\ \A d \in Conns : d # c => Kept(req[d], req'[d])

\* The handles.
Maps(c, q) ==
  /\ Turn(c, q) /\ Grows /\ HandlerOK(q)' /\ KnownOK /\ RevOK' /\ AppendsStay(req[c], q)
  /\ \A i \in active' : Minted(i) \/ Has(q, "append", i)
  /\ \A d \in Conns, i \in Ids : entry'[d][i] # Nil => entry[d][i] # Nil \/ Findable(i)'

\* The fds of ids that are gone.
LateOK ==
  /\ late \subseteq late'
  /\ \A d \in Conns : HeadIn(req[d], Serving) /\ req[d].id \in active => req[d].id \in active' \cup late'
Dies(c, q) ==
  /\ Turn(c, q) /\ LateOK
  /\ HeadIn(q, Serving) => (q.id = req[c].id /\ HeadIn(req[c], Serving)) \/ q.id \in active'
  /\ \A d \in Conns, i \in Ids : entry'[d][i] # Nil =>
       /\ i \in active => i \in active' \/ Dropping(q, d, i)
       /\ Dropping(req[c], d, i) => Dropping(q, d, i)
       /\ entry[d][i] # Nil \/ (HeadIn(req[c], Serving) /\ req[c].id = i)

\* The files, in a step that leaves them alone.
FilesSame(c, q) ==
  /\ Turn(c, q) /\ UNCHANGED <<inode, used>>
  /\ left \subseteq left' /\ left' \subseteq left \cup req[c].gone
  /\ q.gone \subseteq req[c].gone /\ q.left \subseteq left

\* The ids that alone stand for their path, in a step that mints none.
Stands(c, q) ==
  /\ Turn(c, q) /\ Grows
  /\ \A i \in active' : Minted(i)
  /\ KillOld(req[c], q) \/ q.id \in active'

\* The fd caches: an fd comes in only by PutIfFresh, from a file that was opened.
Caches(c, q) ==
  /\ \A d \in Conns, i \in Ids :
       entry'[d][i] \in {entry[d][i], Nil} \/ (d = c /\ Serves(c, i, entry'[c][i]))
  /\ \A d \in Conns : gen'[d] = gen[d] \/ gen'[d] = gen[d] + 1
  /\ HeadIn(q, {"put"}) =>
       HeadIn(req[c], Serving) /\ q.id = req[c].id /\ q.ino = inode[pathOf[q.id]]

\* The invalidations that are due.
Due(c, q) ==
  \A i \in Ids, x \in Inodes : Sole(i) /\ i \in active' /\ Findable(i) =>
    LET y == <<pathOf[i], x>> IN
    /\ y \in q.gone /\ (y \in req[c].gone => Killing(req[c], i, pathOf[i])) => Killing(q, i, pathOf[i])
    /\ y \in left' => y \in left \/ (y \in req[c].gone /\ ~ Killing(req[c], i, pathOf[i]))

\* What the request of c reads after the step.
Reads(c, q) ==
  /\ HeadIn(q, Serving) => q.id \in dup' \/ <<pathOf'[q.id], entry'[c][q.id]>> \notin q.left
  /\ HeadIn(q, {"put", "use"}) => q.id \in dup' \/ <<pathOf'[q.id], q.ino>> \notin q.left
  /\ HeadIn(q, {"open", "put"}) => q.gen <= gen'[c]

-----------------------------------------------------------------------------
(* The kinds of steps.                                                      *)

\* All that a step has to respect.
Respects(c, q) ==
  /\ Maps(c, q) /\ Dies(c, q) /\ Caches(c, q) /\ Due(c, q) /\ Reads(c, q)
  /\ left' \subseteq left \cup req[c].gone

\* The types of what a step may change but for the request.
Types ==
  /\ inode' \in [Paths -> Inodes \cup {Nil}] /\ used' \subseteq Inodes
  /\ active' \subseteq Ids /\ pathOf' \in [Ids -> Paths \cup {Nil}]
  /\ entry' \in [Conns -> [Ids -> Inodes \cup {Nil}]] /\ gen' \in [Conns -> Nat]
  /\ ops' \in Nat /\ dup' \subseteq Ids /\ late' \subseteq Ids

\* The handles and fds that stay.
Still == UNCHANGED <<active, pathOf, entry, gen, dup, late>>

\* A step of READ or WRITE that goes on with another.
Reading(c, q, do) ==
  /\ do \in Serving /\ Working(c, req[c], q, do) /\ Grows
  /\ (HeadIn(req[c], Serving) /\ q.id = req[c].id) \/ q.id \in active
  /\ Caches(c, q) /\ Reads(c, q)
  /\ entry' \in [Conns -> [Ids -> Inodes \cup {Nil}]]
  /\ \A d \in Conns, i \in Ids :
       entry'[d][i] # Nil => entry[d][i] # Nil \/ (HeadIn(req[c], Serving) /\ req[c].id = i)
  /\ UNCHANGED <<inode, used, mapVars, gen, ops, dup, late>>

-----------------------------------------------------------------------------
(* The beginning of a request.                                              *)

Starts(c, q) ==
  /\ req[c] = NoReq /\ Sets(c, q) /\ HandlerOK(q)' /\ NotServing(q)
  /\ q.id = Nil /\ q.gone = {} /\ q.left = left
  /\ ops' \in Nat /\ UNCHANGED <<inode, used, mapVars, fdVars, histVars>>
=============================================================================
