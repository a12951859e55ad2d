-------------------------- MODULE HandleLifeLemmas --------------------------
(***************************************************************************)
(* Lemmas about HandleLife, in the terms of HandleLifeTerms: steps that do *)
(* what the terms say keep the inductive invariant, conjunct by conjunct;  *)
(* what a step does to the plan of its request and to the handles; what    *)
(* LOOKUP, CREATE and REMOVE do, and the eviction of handles.              *)
(***************************************************************************)
EXTENDS HandleLifeTerms, TLAPS, WellFoundedInduction

\* Leaves are for Zenon; those about numbers and sequences name SMT.
USE Zenon

\* A handler that differs in its histories only.
LEMMA OnlyHistory ==
  ASSUME NEW r, NEW q, HandlerOK(r)', q.plan = r.plan, q.id = r.id, q.op = r.op, q.to = r.to,
         q.ino = r.ino, q.gone \subseteq r.gone
  PROVE  HandlerOK(q)'
<1>1. PlanOK(q.plan)' BY DEF HandlerOK
<1>2. RemoveOK(q)' BY DEF HandlerOK, RemoveOK, Has, HeadIn
<1>3. RenameOK(q)'
  <2>1. RenameOK(r) BY DEF HandlerOK, RenameOK, Has
  <2>2. \A do, i : Has(r, do, i) <=> Has(q, do, i) BY DEF Has
  <2>3. RenameOK(q) BY <2>1, <2>2 DEF RenameOK
  <2> QED BY <2>3 DEF RenameOK, Has
<1>4. IdOK(q)' BY DEF HandlerOK, IdOK, Has
<1>5. ServeOK(q)' BY DEF HandlerOK, ServeOK, HeadIn
<1>6. GoneOK(q)' BY DEF HandlerOK, GoneOK
<1> QED BY <1>1, <1>2, <1>3, <1>4, <1>5, <1>6 DEF HandlerOK

\* As it does in most steps.
LEMMA SetTurn ==
  ASSUME req \in [Conns -> Handlers], NEW c \in Conns, NEW q \in Handlers, Sets(c, q)
  PROVE  Turn(c, q)
<1>1. /\ req' \in [Conns -> Handlers] /\ req'[c] = q
      /\ \A d \in Conns : d # c => req'[d] = req[d]
  BY DEF Sets
<1> QED BY <1>1 DEF Turn, Kept

\* Every handler is in order, every id that resolves can be found, and the maps agree.
LEMMA HandlesKept ==
  ASSUME IInv, NEW c \in Conns, NEW q, Maps(c, q)
  PROVE  (\A d \in Conns : HandlerOK(req[d]))' /\ MapInv' /\ ActiveIsFindable'
<1>1. Turn(c, q) /\ Grows /\ HandlerOK(q)' /\ KnownOK /\ RevOK' /\ AppendsStay(req[c], q)
  BY DEF Maps
<1>o. ASSUME NEW r, HandlerOK(r) PROVE HandlerOK(r)'
  <2>1. ASSUME NEW s, StepOK(s) PROVE StepOK(s)'
    <3>1. s.do = "unmap" => Minted(s.arg) BY <2>1 DEF StepOK, Carries
    <3> QED BY <1>1, <2>1, <3>1 DEF StepOK, Grows
  <2>2. PlanOK(r.plan)' BY <1>o, <2>1 DEF PlanOK, HandlerOK
  <2>3. RemoveOK(r)'
    <3>1. r.id # Nil => pathOf'[r.id] = pathOf[r.id] BY <1>1, <1>o DEF HandlerOK, IdOK, Grows
    <3> QED BY <1>o, <3>1 DEF HandlerOK, RemoveOK, Has, HeadIn
  <2>4. IdOK(r)' /\ ServeOK(r)' BY <1>1, <1>o DEF HandlerOK, IdOK, ServeOK, Grows, Has, HeadIn
  <2> QED BY <1>o, <2>2, <2>3, <2>4 DEF HandlerOK, RenameOK, GoneOK, Has
<1>2. ASSUME NEW d \in Conns PROVE HandlerOK(req[d])'
  <2>1. CASE d = c BY <1>1, <2>1 DEF Turn
  <2>2. CASE d # c
    <3>1. PICK r : r = req[d] OBVIOUS
    <3>2. PICK s : s = req'[d] OBVIOUS
    <3>3. HandlerOK(r)' BY <1>1, <3>1, <1>o DEF IInv
    <3>4. Kept(r, s) BY <1>1, <2>2, <3>1, <3>2 DEF Turn
    <3>5. HandlerOK(s)' BY <3>3, <3>4, OnlyHistory DEF Kept
    <3> QED BY <3>2, <3>5
  <2> QED BY <2>1, <2>2
<1>3. ASSUME NEW i \in active' PROVE Minted(i)'
  <2>1. CASE Minted(i) BY <1>1, <2>1 DEF Grows
  <2>2. CASE Has(q, "append", i)
    <3>1. PICK n \in 1..Len(q.plan) : q.plan[n].do = "append" /\ q.plan[n].arg = i BY <2>2 DEF Has
    <3>2. StepOK(q.plan[n])' BY <1>1 DEF HandlerOK, PlanOK
    <3> QED BY <3>1, <3>2 DEF StepOK, Carries
  <2> QED BY <2>1, <2>2 DEF Maps
<1>4. MapInv'
  <2>1. \A i \in known' : Findable(i)' BY <1>1 DEF KnownOK, IInv, MapInv, Grows
  <2>2. \A d \in Conns, i \in Ids : entry'[d][i] # Nil => Findable(i)'
    BY <1>1 DEF Maps, IInv, MapInv, Grows
  <2> QED BY <1>1, <1>3, <2>1, <2>2 DEF MapInv, RevOK
<1>5. ASSUME NEW i \in active'
      PROVE  \/ \E n \in 1..Len(reverse'[pathOf'[i]]) : reverse'[pathOf'[i]][n] = i
             \/ \E d \in Conns : Has(req'[d], "append", i)
  <2>1. CASE Minted(i)
    <3>1. i \in active BY <1>1, <2>1 DEF Grows
    <3>2. CASE Findable(i)
      <4>1. Findable(i)' BY <1>1, <3>2 DEF Grows
      <4> QED BY <4>1 DEF Findable, Listed
    <3>3. CASE ~ Findable(i)
      <4>1. PICK d \in Conns : Has(req[d], "append", i)
        BY <2>1, <3>1, <3>3 DEF IInv, ActiveIsFindable, Findable, Listed
      <4>2. CASE d = c
        <5>1. Has(q, "append", i) \/ Findable(i)' BY <1>1, <4>1, <4>2 DEF AppendsStay
        <5> QED BY <1>1, <5>1 DEF Turn, Findable, Listed
      <4>3. CASE d # c
        <5>1. req'[d].plan = req[d].plan BY <1>1, <4>3 DEF Turn, Kept
        <5> QED BY <4>1, <5>1 DEF Has
      <4> QED BY <4>2, <4>3
    <3> QED BY <3>2, <3>3
  <2>2. CASE Has(q, "append", i) BY <1>1, <2>2 DEF Turn
  <2> QED BY <2>1, <2>2 DEF Maps
<1>6. ActiveIsFindable' BY <1>5 DEF ActiveIsFindable, Has
<1> QED BY <1>2, <1>4, <1>6

\* They are dropped.
LEMMA DeadKept ==
  ASSUME IInv, NEW c \in Conns, NEW q, Dies(c, q)
  PROVE  DeadInv'
<1>0. DeadInv BY DEF IInv
<1>1. ASSUME NEW d \in Conns, HeadIn(req[d], Serving) PROVE req[d].id \in active' \cup late'
  BY <1>0, <1>1 DEF DeadInv, Dies, LateOK
<1>2. ASSUME NEW d \in Conns, HeadIn(req'[d], Serving) PROVE req'[d].id \in active' \cup late'
  <2>1. CASE d = c BY <1>1, <1>2, <2>1 DEF Dies, Turn
  <2>2. CASE d # c
    <3>1. req'[d].plan = req[d].plan /\ req'[d].id = req[d].id BY <2>2 DEF Dies, Turn, Kept
    <3> QED BY <1>1, <1>2, <3>1 DEF HeadIn
  <2> QED BY <2>1, <2>2
<1>3. ASSUME NEW d \in Conns, NEW i \in Ids, entry'[d][i] # Nil
      PROVE  i \in active' \cup late' \/ \E e \in Conns : Dropping(req'[e], d, i)
  <2>1. /\ i \in active => i \in active' \/ Dropping(q, d, i)
        /\ Dropping(req[c], d, i) => Dropping(q, d, i)
        /\ entry[d][i] # Nil \/ (HeadIn(req[c], Serving) /\ req[c].id = i)
    BY <1>3 DEF Dies
  <2>2. CASE HeadIn(req[c], Serving) /\ req[c].id = i BY <1>1, <2>2
  <2>3. CASE i \in active BY <2>1, <2>3 DEF Dies, Turn
  <2>4. CASE i \in late BY <2>4 DEF Dies, LateOK
  <2>5. CASE entry[d][i] # Nil /\ i \notin active \cup late
    <3>1. PICK e \in Conns : Dropping(req[e], d, i) BY <1>0, <2>5 DEF DeadInv
    <3>2. CASE e = c BY <2>1, <3>1, <3>2 DEF Dies, Turn
    <3>3. CASE e # c
      <4>1. req'[e].plan = req[e].plan BY <3>3 DEF Dies, Turn, Kept
      <4> QED BY <3>1, <4>1 DEF Dropping
    <3> QED BY <3>2, <3>3
  <2> QED BY <2>1, <2>2, <2>3, <2>4, <2>5
<1> QED BY <1>2, <1>3 DEF DeadInv, HeadIn, Dropping

\* They have not left their paths.
LEMMA FilesKept ==
  ASSUME IInv, NEW c \in Conns, NEW q, FilesSame(c, q)
  PROVE  FileInv'
<1>0. FileInv BY DEF IInv
<1>1. ASSUME NEW d \in Conns PROVE req'[d].gone \subseteq req[d].gone /\ req'[d].left \subseteq left'
  <2>1. req[d].left \subseteq left BY <1>0 DEF FileInv
  <2>2. CASE d = c BY <2>2 DEF FilesSame, Turn
  <2>3. CASE d # c BY <2>1, <2>3 DEF FilesSame, Turn, Kept
  <2> QED BY <2>2, <2>3
<1>2. ASSUME NEW p \in Paths, inode[p] # Nil
      PROVE  <<p, inode[p]>> \notin left' /\ \A d \in Conns : <<p, inode[p]>> \notin req'[d].gone
  <2>1. <<p, inode[p]>> \notin left /\ \A d \in Conns : <<p, inode[p]>> \notin req[d].gone
    BY <1>0, <1>2 DEF FileInv
  <2> QED BY <1>1, <2>1 DEF FilesSame
<1>3. ASSUME NEW p \in Paths, NEW x \in Inodes, <<p, x>> \in left' \/ (\E d \in Conns : <<p, x>> \in req'[d].gone)
      PROVE  x \in used
  <2>1. <<p, x>> \in left \/ (\E d \in Conns : <<p, x>> \in req[d].gone) BY <1>1, <1>3 DEF FilesSame
  <2> QED BY <1>0, <2>1 DEF FileInv
<1>4. UNCHANGED <<inode, used>> BY DEF FilesSame
<1>5. \A p \in Paths : inode'[p] # Nil =>
       /\ inode'[p] \in used'
       /\ <<p, inode'[p]>> \notin left'
       /\ \A d \in Conns : <<p, inode'[p]>> \notin req'[d].gone
       /\ \A y \in Paths : inode'[y] = inode'[p] => y = p
  BY <1>0, <1>2, <1>4 DEF FileInv
<1> QED BY <1>1, <1>3, <1>4, <1>5 DEF FileInv

\* They still do.
LEMMA SoleKept ==
  ASSUME IInv, NEW c \in Conns, NEW q, Stands(c, q)
  PROVE  SoleInv'
<1>0. SoleInv BY DEF IInv
<1>1. ASSUME NEW i \in active' PROVE i \in active /\ Minted(i) /\ pathOf'[i] = pathOf[i]
  BY DEF Stands, Grows
<1>2. ASSUME NEW i \in Ids, i \in active', i \notin dup' PROVE Sole(i)
  BY <1>1, <1>2 DEF Stands, Grows, Sole
<1>3. ASSUME NEW i \in Ids, NEW j \in Ids, i \in active', i \notin dup', j \in active', pathOf'[j] = pathOf'[i]
      PROVE  j = i
  <2>1. Sole(i) /\ j \in active /\ pathOf[j] = pathOf[i] BY <1>1, <1>2, <1>3
  <2> QED BY <1>0, <2>1 DEF SoleInv
<1>4. ASSUME NEW d \in Conns, NEW i \in Ids, Has(req[d], "kill", Nil), req[d].id # Nil, i \in active', i \notin dup',
             pathOf'[i] = pathOf'[req[d].id]
      PROVE  req[d].id = i
  <2>1. Minted(req[d].id) BY <1>4 DEF IInv, HandlerOK, IdOK
  <2>2. Sole(i) /\ pathOf[i] = pathOf[req[d].id] BY <1>1, <1>2, <1>4, <2>1 DEF Stands, Grows
  <2> QED BY <1>0, <1>4, <2>2 DEF SoleInv
<1>5. ASSUME NEW d \in Conns, NEW i \in Ids, Has(req'[d], "kill", Nil), req'[d].id # Nil, i \in active', i \notin dup',
             pathOf'[i] = pathOf'[req'[d].id]
      PROVE  req'[d].id = i
  <2>1. CASE d # c
    <3>1. req'[d].plan = req[d].plan /\ req'[d].id = req[d].id BY <2>1 DEF Stands, Turn, Kept
    <3>2. Has(req[d], "kill", Nil) BY <1>5, <3>1 DEF Has
    <3> QED BY <1>4, <1>5, <3>1, <3>2
  <2>2. CASE d = c /\ KillOld(req[c], q)
    <3>1. Has(req[c], "kill", Nil) /\ q.id = req[c].id BY <1>5, <2>2 DEF KillOld, Stands, Turn
    <3> QED BY <1>4, <1>5, <2>2, <3>1 DEF Stands, Turn
  <2>3. CASE d = c /\ q.id \in active'
    <3>1. q.id \in Ids BY <1>1, <2>3 DEF Minted
    <3> QED BY <1>3, <1>5, <2>3, <3>1 DEF Stands, Turn
  <2> QED BY <2>1, <2>2, <2>3 DEF Stands
<1>6. \A i, j \in Ids : Sole(i)' /\ j \in active' /\ pathOf'[j] = pathOf'[i] => j = i
  BY <1>3 DEF Sole
<1>7. \A d \in Conns, i \in Ids :
        Has(req[d], "kill", Nil)' /\ req'[d].id # Nil /\ Sole(i)' /\ pathOf'[i] = pathOf'[req'[d].id] => req'[d].id = i
  BY <1>5 DEF Sole, Has
<1> QED BY <1>6, <1>7 DEF SoleInv

\* What is served was served before, or has just been opened.
LEMMA Served ==
  ASSUME IInv, NEW c \in Conns, NEW q, Turn(c, q), Caches(c, q),
         NEW d \in Conns, NEW i \in Ids, NEW x \in Inodes, Serves(d, i, x)'
  PROVE  Findable(i) /\ (Serves(d, i, x) \/ x = inode[pathOf[i]])
<1>0. x # Nil /\ TypeOK /\ ServeOK(req[d]) /\ ServeOK(req[c]) BY LifeAssumption DEF IInv, HandlerOK
<1>1. ASSUME Serves(d, i, x) PROVE Findable(i)
  <2>1. CASE entry[d][i] = x BY <1>0, <2>1 DEF IInv, MapInv
  <2>2. CASE At(d, "put") /\ req[d].id = i BY <1>0, <2>2 DEF ServeOK, HeadIn, At, Serving
  <2> QED BY <1>1, <2>1, <2>2 DEF Serves
<1>2. CASE entry'[d][i] = x
  <2>1. Serves(d, i, x) BY <1>0, <1>2 DEF Caches, Serves
  <2> QED BY <1>1, <2>1
<1>3. CASE At(d, "put")' /\ req'[d].id = i /\ req'[d].ino = x /\ gen'[d] = req'[d].gen
  <2>1. CASE d = c
    <3>1. HeadIn(q, {"put"}) /\ q.id = i /\ q.ino = x BY <1>3, <2>1 DEF Turn, At, HeadIn
    <3>2. HeadIn(req[c], Serving) /\ req[c].id = i /\ x = inode[pathOf[i]] BY <3>1 DEF Caches
    <3> QED BY <1>0, <3>2 DEF ServeOK
  <2>2. CASE d # c
    <3>1. /\ req'[d].plan = req[d].plan /\ req[d].id = i /\ req[d].ino = x /\ req'[d].gen = req[d].gen
      BY <1>3, <2>2 DEF Turn, Kept
    <3>2. At(d, "put") BY <1>3, <3>1 DEF At
    <3>3. req[d].gen <= gen[d] BY <3>2 DEF IInv, GenInv, HeadIn, At
    <3>4. gen[d] \in Nat /\ req[d].gen \in Nat
      <4>1. gen[d] \in Nat /\ req[d] \in Handlers BY <1>0 DEF TypeOK
      <4> QED BY <4>1 DEF Handlers
    <3>5. gen'[d] = gen[d] \/ gen'[d] = gen[d] + 1 BY DEF Caches
    <3>6. gen'[d] = req[d].gen BY <1>3, <3>1
    <3>7. gen[d] = req[d].gen
      <4>1. PICK a, b, g : a = gen[d] /\ b = gen'[d] /\ g = req[d].gen OBVIOUS
      <4>2. a \in Nat /\ g \in Nat /\ g <= a /\ (b = a \/ b = a + 1) /\ b = g BY <3>3, <3>4, <3>5, <3>6, <4>1
      <4>3. a = g BY SMT, <4>2
      <4> QED BY <4>1, <4>3
    <3>8. Serves(d, i, x) BY <3>1, <3>2, <3>7 DEF Serves
    <3> QED BY <1>1, <3>8
  <2> QED BY <2>1, <2>2
<1> QED BY <1>2, <1>3 DEF Serves

\* No file that left its path is served under the id that stands for the path.
LEMMA ServedKept ==
  ASSUME IInv, NEW c \in Conns, NEW q, Turn(c, q), Grows, Caches(c, q), Due(c, q)
  PROVE  ServedInv'
<1> SUFFICES ASSUME NEW d \in Conns, NEW i \in Ids, NEW x \in Inodes, Sole(i)', Serves(d, i, x)'
             PROVE  /\ <<pathOf'[i], x>> \notin left'
                    /\ \A e \in Conns : <<pathOf'[i], x>> \in req'[e].gone => Killing(req[e], i, pathOf[i])'
  BY DEF ServedInv
<1>1. Findable(i) /\ (Serves(d, i, x) \/ x = inode[pathOf[i]]) BY Served
<1>2. Minted(i) /\ pathOf'[i] = pathOf[i] /\ i \in active' /\ Sole(i)
  BY <1>1 DEF Findable, Grows, Sole
<1>3. PICK p : p = pathOf[i] OBVIOUS
<1>4. PICK y : y = <<p, x>> OBVIOUS
<1>5. y \notin left /\ \A e \in Conns : y \in req[e].gone => Killing(req[e], i, p)
  <2>1. CASE Serves(d, i, x) BY <1>2, <1>3, <1>4, <2>1 DEF IInv, ServedInv
  <2>2. CASE x = inode[pathOf[i]]
    <3>1. p \in Paths /\ inode[p] # Nil BY <1>2, <1>3, <2>2, LifeAssumption DEF IInv, TypeOK, Minted
    <3> QED BY <1>3, <1>4, <2>2, <3>1 DEF IInv, FileInv
  <2> QED BY <1>1, <2>1, <2>2
<1>6. /\ y \in q.gone => Killing(q, i, p)
      /\ y \notin left'
  BY <1>1, <1>2, <1>3, <1>4, <1>5 DEF Due
<1>7. ASSUME NEW e \in Conns, y \in req'[e].gone PROVE Killing(req'[e], i, p)
  <2>1. CASE e = c BY <1>6, <1>7, <2>1 DEF Turn
  <2>2. CASE e # c
    <3>1. Kept(req[e], req'[e]) BY <2>2 DEF Turn
    <3>2. Killing(req[e], i, p) BY <1>5, <1>7, <3>1 DEF Kept
    <3> QED BY <3>1, <3>2 DEF Kept, Killing, Has
  <2> QED BY <2>1, <2>2
<1>8. ASSUME NEW e \in Conns, y \in req'[e].gone PROVE Killing(req[e], i, pathOf[i])'
  <2>1. pathOf'[i] = p BY <1>2, <1>3
  <2> QED BY <1>7, <1>8, <2>1 DEF Killing, Has
<1> QED BY <1>2, <1>3, <1>4, <1>6, <1>8

\* The others read what they did.
LEMMA ReaderKept ==
  ASSUME IInv, NEW c \in Conns, NEW q, Turn(c, q), Grows, Caches(c, q), Reads(c, q)
  PROVE  ReaderInv' /\ GenInv'
<1>1. ASSUME NEW d \in Conns, d # c
      PROVE  /\ HeadIn(req'[d], Serving) =>
                  req'[d].id \in dup' \/ <<pathOf'[req'[d].id], entry'[d][req'[d].id]>> \notin req'[d].left
             /\ HeadIn(req'[d], {"put", "use"}) =>
                  req'[d].id \in dup' \/ <<pathOf'[req'[d].id], req'[d].ino>> \notin req'[d].left
             /\ HeadIn(req'[d], {"open", "put"}) => req'[d].gen <= gen'[d]
  <2>1. Kept(req[d], req'[d]) BY <1>1 DEF Turn
  <2>2. PICK i : i = req[d].id OBVIOUS
  <2>3. \A S : HeadIn(req'[d], S) => HeadIn(req[d], S) BY <2>1 DEF Kept, HeadIn
  <2>4. HeadIn(req'[d], Serving) => i \in Ids /\ pathOf'[i] = pathOf[i]
    BY <2>2, <2>3 DEF IInv, HandlerOK, ServeOK, Findable, Minted, Grows
  <2>5. \A S : HeadIn(req'[d], S) /\ S \subseteq Serving => HeadIn(req'[d], Serving) BY DEF HeadIn
  <2>6. {"put", "use"} \subseteq Serving BY DEF Serving
  <2>7. dup \subseteq dup' /\ req'[d].id = i /\ req'[d].ino = req[d].ino /\ req'[d].left \subseteq req[d].left
    BY <2>1, <2>2 DEF Kept, Grows
  <2>8. i \in Ids => entry'[d][i] \in {entry[d][i], Nil} BY <1>1 DEF Caches
  <2>9. req'[d].left \subseteq Pairs
    <3>1. req'[d] \in Handlers BY DEF Turn
    <3> QED BY <3>1 DEF Handlers
  <2>10. \A p : <<p, Nil>> \notin Pairs BY LifeAssumption DEF Pairs
  <2>11. HeadIn(req'[d], Serving) => i \in dup' \/ <<pathOf'[i], entry'[d][i]>> \notin req'[d].left
    <3>1. HeadIn(req[d], Serving) => i \in dup \/ <<pathOf[i], entry[d][i]>> \notin req[d].left
      BY <2>2 DEF IInv, ReaderInv
    <3> QED BY <2>3, <2>4, <2>7, <2>8, <2>9, <2>10, <3>1
  <2>12. HeadIn(req'[d], {"put", "use"}) => i \in dup' \/ <<pathOf'[i], req'[d].ino>> \notin req'[d].left
    <3>1. HeadIn(req[d], {"put", "use"}) => i \in dup \/ <<pathOf[i], req[d].ino>> \notin req[d].left
      BY <2>2 DEF IInv, ReaderInv
    <3> QED BY <2>3, <2>4, <2>5, <2>6, <2>7, <3>1
  <2>13. HeadIn(req'[d], {"open", "put"}) => req'[d].gen <= gen'[d]
    <3> SUFFICES ASSUME HeadIn(req'[d], {"open", "put"}) PROVE req'[d].gen <= gen'[d] BY SMT
    <3>1. PICK a, b, g : a = gen[d] /\ b = gen'[d] /\ g = req[d].gen OBVIOUS
    <3>2. g <= a BY <2>3, <3>1 DEF IInv, GenInv
    <3>3. a \in Nat /\ g \in Nat
      <4>1. gen[d] \in Nat /\ req[d] \in Handlers BY DEF IInv, TypeOK
      <4> QED BY <3>1, <4>1 DEF Handlers
    <3>4. b = a \/ b = a + 1 BY <3>1 DEF Caches
    <3>5. g <= b BY SMT, <3>2, <3>3, <3>4
    <3>6. req'[d].gen = g BY <2>1, <3>1 DEF Kept
    <3> QED BY <3>1, <3>5, <3>6
  <2> QED BY <2>7, <2>11, <2>12, <2>13
<1>2. req'[c] = q BY DEF Turn
<1>3. ASSUME NEW d \in Conns
      PROVE  /\ HeadIn(req'[d], Serving) =>
                  req'[d].id \in dup' \/ <<pathOf'[req'[d].id], entry'[d][req'[d].id]>> \notin req'[d].left
             /\ HeadIn(req'[d], {"put", "use"}) =>
                  req'[d].id \in dup' \/ <<pathOf'[req'[d].id], req'[d].ino>> \notin req'[d].left
             /\ HeadIn(req'[d], {"open", "put"}) => req'[d].gen <= gen'[d]
  BY <1>1, <1>2 DEF Reads
<1> QED BY <1>3 DEF ReaderInv, GenInv, HeadIn

\* It is enough.
LEMMA Inductive ==
  ASSUME IInv, NEW c \in Conns, NEW q, Respects(c, q), Types, FileInv', SoleInv'
  PROVE  IInv'
<1>1. Maps(c, q) /\ Dies(c, q) /\ Caches(c, q) /\ Due(c, q) /\ Reads(c, q) BY DEF Respects
<1>2. Turn(c, q) /\ Grows /\ RevOK' BY <1>1 DEF Maps
<1>3. (\A d \in Conns : HandlerOK(req[d]))' /\ MapInv' /\ ActiveIsFindable' BY <1>1, HandlesKept
<1>4. DeadInv' BY <1>1, DeadKept
<1>5. ServedInv' BY <1>1, <1>2, ServedKept
<1>6. ReaderInv' /\ GenInv' BY <1>1, <1>2, ReaderKept
<1>7. TypeOK'
  <2>1. known' \subseteq Ids BY <1>3 DEF MapInv, Findable, Minted
  <2>2. left' \subseteq Pairs
    <3>1. req[c] \in Handlers /\ left \subseteq Pairs BY DEF IInv, TypeOK
    <3>2. req[c].gone \subseteq Pairs BY <3>1 DEF Handlers
    <3> QED BY <3>1, <3>2 DEF Respects
  <2>3. req' \in [Conns -> Handlers] /\ reverse' \in [Paths -> Seq(Ids)] BY <1>2 DEF Turn, RevOK
  <2> QED BY <2>1, <2>2, <2>3 DEF Types, TypeOK
<1> QED BY <1>3, <1>4, <1>5, <1>6, <1>7 DEF IInv

\* A reverse map that stays.
LEMMA RevSame ==
  ASSUME IInv, Grows, reverse' = reverse
  PROVE  RevOK'
<1>1. ASSUME NEW p \in Paths, NEW n \in 1..Len(reverse[p]) PROVE pathOf'[reverse[p][n]] = p
  <2>1. reverse[p] \in Seq(Ids) /\ pathOf[reverse[p][n]] = p BY DEF IInv, TypeOK, MapInv
  <2>2. reverse[p][n] \in Ids BY SMT, <2>1
  <2>3. Minted(reverse[p][n]) BY <2>1, <2>2, LifeAssumption DEF Minted
  <2> QED BY <2>1, <2>3 DEF Grows
<1> QED BY <1>1 DEF RevOK, IInv, TypeOK

\* A step that leaves them alone, and the invalidations that are due.
LEMMA GoesKept ==
  ASSUME IInv, NEW c \in Conns, NEW q \in Handlers, Goes(c, req[c], q), Grows, Still, RevOK'
  PROVE  Respects(c, q)
<1>1. Turn(c, q) BY SetTurn DEF Goes, IInv, TypeOK
<1>2. active' = active /\ pathOf' = pathOf /\ entry' = entry /\ gen' = gen /\ dup' = dup /\ late' = late
  BY DEF Still
<1>3. Maps(c, q) BY <1>1, <1>2 DEF Maps, Goes, IInv, MapInv
<1>4. Dies(c, q) BY <1>1, <1>2 DEF Dies, LateOK, Goes, NotServing, DropsStay
<1>5. ~ HeadIn(q, Serving) /\ ~ HeadIn(q, {"put", "use"}) /\ ~ HeadIn(q, {"put"}) /\ ~ HeadIn(q, {"open", "put"})
  BY DEF Goes, NotServing, HeadIn, Serving
<1>6. Caches(c, q) /\ Reads(c, q) BY <1>2, <1>5 DEF Caches, Reads
<1>7. Due(c, q) BY DEF Due, Goes, KillsStay, LeftOK
<1>8. left' \subseteq left \cup req[c].gone BY DEF Goes, LeftOK
<1> QED BY <1>3, <1>4, <1>6, <1>7, <1>8 DEF Respects

\* The files, if it leaves them alone too.
LEMMA GoesFiles ==
  ASSUME IInv, NEW c \in Conns, NEW q \in Handlers, Goes(c, req[c], q), UNCHANGED <<inode, used>>
  PROVE  FileInv'
<1>1. Turn(c, q) BY SetTurn DEF Goes, IInv, TypeOK
<1>2. FilesSame(c, q) BY <1>1 DEF FilesSame, Goes, KillsStay, LeftOK, IInv, FileInv
<1> QED BY <1>2, FilesKept

\* A step that only goes on is one.
LEMMA PlainGoes ==
  ASSUME IInv, NEW c \in Conns, NEW q \in Handlers, Plain(c, req[c], q), Grows, Still, RevOK',
         Head(req[c].plan).do \notin {"drop", "kill", "rkill"}
  PROVE  Goes(c, req[c], q) /\ Respects(c, q) /\ SoleInv'
<1>1. Goes(c, req[c], q) BY DEF Plain, Goes
<1>2. Turn(c, q) BY SetTurn DEF Plain, IInv, TypeOK
<1>3. Stands(c, q) BY <1>2 DEF Stands, Plain, Still, IInv, MapInv
<1> QED BY <1>1, <1>3, GoesKept, SoleKept

\* The types of a step that leaves the handles and fds alone.
LEMMA StillTypes ==
  ASSUME IInv, Still, inode' \in [Paths -> Inodes \cup {Nil}], used' \subseteq Inodes, ops' \in Nat
  PROVE  Types
  BY DEF Types, Still, IInv, TypeOK

\* A step that changes nothing but the request, and the reverse map,
LEMMA CalmKept ==
  ASSUME IInv, NEW c \in Conns, Calm(c), Still, RevOK', UNCHANGED <<inode, used, ops>>,
         Head(req[c].plan).do \notin {"drop", "kill", "rkill"}
  PROVE  IInv'
<1>1. PICK q \in Handlers : Plain(c, req[c], q) BY DEF Calm
<1>2. Goes(c, req[c], q) /\ Respects(c, q) /\ SoleInv' BY <1>1, PlainGoes DEF Calm
<1>3. FileInv' BY <1>2, GoesFiles
<1>4. Types BY StillTypes DEF IInv, TypeOK
<1> QED BY <1>2, <1>3, <1>4, Inductive

\* or creates a file,
LEMMA CreateKept ==
  ASSUME IInv, NEW c \in Conns, Calm(c), Still, RevOK', ops' = ops,
         Head(req[c].plan).do \in {"create", "create2"},
         NEW p \in Paths, inode[p] = Nil, NEW n \in Inodes \ used,
         inode' = [inode EXCEPT ![p] = n], used' = used \cup {n}
  PROVE  IInv'
<1>1. PICK q \in Handlers : Plain(c, req[c], q) BY DEF Calm
<1>2. Goes(c, req[c], q) /\ Respects(c, q) /\ SoleInv' BY <1>1, PlainGoes DEF Calm
<1>3. Types BY StillTypes DEF IInv, TypeOK
<1>4. n \in Inodes /\ n \notin used /\ n # Nil BY LifeAssumption
<1>5. inode \in [Paths -> Inodes \cup {Nil}] BY DEF IInv, TypeOK
<1>6. inode'[p] = n /\ \A y \in Paths : y # p => inode'[y] = inode[y] BY <1>5
<1>7. \A y \in Paths : inode[y] # n BY <1>4 DEF IInv, FileInv
<1>8. Turn(c, q) BY <1>2 DEF Respects, Maps
<1>9. ASSUME NEW d \in Conns PROVE req'[d].gone \subseteq req[d].gone /\ req'[d].left \subseteq left'
  <2>1. req[d].left \subseteq left /\ left \subseteq left' BY <1>2 DEF IInv, FileInv, Goes, LeftOK
  <2>2. CASE d = c BY <1>2, <1>8, <2>1, <2>2 DEF Goes, KillsStay, Turn
  <2>3. CASE d # c BY <1>8, <2>1, <2>3 DEF Turn, Kept
  <2> QED BY <2>2, <2>3
<1>10. left' \subseteq left \cup req[c].gone BY <1>2 DEF Respects
<1>11. ASSUME NEW y \in Paths, NEW x \in Inodes, <<y, x>> \in left' \/ (\E d \in Conns : <<y, x>> \in req'[d].gone)
       PROVE  x \in used
  <2>1. <<y, x>> \in left \/ (\E d \in Conns : <<y, x>> \in req[d].gone) BY <1>9, <1>10, <1>11
  <2> QED BY <2>1 DEF IInv, FileInv
<1>12. ASSUME NEW y \in Paths, inode'[y] # Nil
       PROVE  /\ inode'[y] \in used' /\ <<y, inode'[y]>> \notin left'
              /\ \A d \in Conns : <<y, inode'[y]>> \notin req'[d].gone
              /\ \A z \in Paths : inode'[z] = inode'[y] => z = y
  <2>1. CASE y = p
    <3>1. <<y, n>> \notin left' /\ \A d \in Conns : <<y, n>> \notin req'[d].gone BY <1>4, <1>11
    <3>2. \A z \in Paths : inode'[z] = n => z = p
      <4> SUFFICES ASSUME NEW z \in Paths, inode'[z] = n, z # p PROVE FALSE OBVIOUS
      <4> QED BY <1>6, <1>7
    <3>3. inode'[y] = n /\ n \in used' BY <1>6, <2>1
    <3> QED BY <2>1, <3>1, <3>2, <3>3
  <2>2. CASE y # p
    <3>1. PICK x : x = inode[y] /\ x = inode'[y] BY <1>6, <2>2
    <3>2. /\ x \in used /\ <<y, x>> \notin left /\ \A d \in Conns : <<y, x>> \notin req[d].gone
          /\ \A z \in Paths : inode[z] = x => z = y
      BY <1>12, <3>1 DEF IInv, FileInv
    <3>3. <<y, x>> \notin left' /\ \A d \in Conns : <<y, x>> \notin req'[d].gone BY <1>9, <1>10, <3>2
    <3>4. \A z \in Paths : inode'[z] = x => z = y
      <4> SUFFICES ASSUME NEW z \in Paths, inode'[z] = x PROVE z = y OBVIOUS
      <4>1. x # n BY <1>4, <3>2
      <4>2. z # p BY <1>6, <4>1
      <4> QED BY <1>6, <3>2, <4>2
    <3>5. x \in used' BY <3>2
    <3> QED BY <3>1, <3>3, <3>4, <3>5
  <2> QED BY <2>1, <2>2
<1>13. FileInv' BY <1>9, <1>11, <1>12 DEF FileInv
<1> QED BY <1>2, <1>3, <1>13, Inductive

\* or finds a handle.
LEMMA FindKept ==
  ASSUME IInv, NEW c \in Conns, NEW q \in Handlers, NEW i \in Ids, Goes(c, req[c], q), Grows, Still, RevOK',
         UNCHANGED <<inode, used, ops>>, i \in active, q = NoReq \/ q.id = i
  PROVE  IInv'
<1>1. Respects(c, q) /\ FileInv' BY GoesKept, GoesFiles
<1>2. Types BY StillTypes DEF IInv, TypeOK
<1>3. Turn(c, q) BY <1>1 DEF Respects, Maps
<1>4. KillOld(req[c], q) \/ q.id \in active'
  <2>1. \A n : n \notin 1..Len(<<>>) BY SMT
  <2>2. KillOld(req[c], NoReq) BY <2>1 DEF KillOld, Has, NoReq
  <2> QED BY <2>2 DEF Still
<1>5. Stands(c, q) BY <1>3, <1>4 DEF Stands, Still, IInv, MapInv
<1> QED BY <1>1, <1>2, <1>5, SoleKept, Inductive

\* Only ids that were resolved before are late.
LEMMA LateKept ==
  ASSUME IInv, NEW i, LateIf({i}), active \ {i} \subseteq active'
  PROVE  LateOK /\ late' \subseteq Ids
<1>1. late \subseteq late' BY DEF LateIf
<1>2. ASSUME NEW d \in Conns, HeadIn(req[d], Serving), req[d].id = i PROVE i \in late'
  <2>1. \E do \in {"get", "open", "put", "use"} : At(d, do) BY <1>2 DEF HeadIn, Serving, At
  <2> QED BY <1>2, <2>1 DEF LateIf
<1>3. ASSUME NEW d \in Conns, NEW do \in {"get", "open", "put", "use"}, At(d, do) PROVE req[d].id \in Ids
  <2>1. HeadIn(req[d], Serving) BY <1>3 DEF HeadIn, Serving, At
  <2> QED BY <2>1 DEF IInv, HandlerOK, ServeOK, Findable, Minted
<1>4. late \subseteq Ids BY DEF IInv, TypeOK
<1>5. late' \subseteq Ids BY <1>3, <1>4 DEF LateIf
<1> QED BY <1>1, <1>2, <1>5 DEF LateOK

\* InvalidateHandle takes an id away.
LEMMA KillKept ==
  ASSUME IInv, NEW c \in Conns, NEW q \in Handlers, NEW i, Kills(c, req[c], q, i), Grows,
         UNCHANGED <<inode, used, pathOf, reverse, fdVars, ops, dup>>
  PROVE  IInv'
<1>1. Plain(c, req[c], q) /\ active' = active \ {i} /\ LateIf({i}) BY DEF Kills
<1>2. Turn(c, q) /\ RevOK' BY <1>1, SetTurn, RevSame DEF Plain, IInv, TypeOK
<1>3. /\ inode' = inode /\ used' = used /\ pathOf' = pathOf /\ entry' = entry /\ gen' = gen /\ dup' = dup
      /\ ops' = ops
  BY DEF fdVars
<1>4. Maps(c, q) BY <1>1, <1>2, <1>3 DEF Maps, Plain, IInv, MapInv
<1>5. LateOK /\ late' \subseteq Ids BY <1>1, LateKept
<1>6. Dies(c, q)
  <2>1. DropsStay(req[c], q) /\ NotServing(q) /\ (i \in active => \A t \in Conns : Dropping(q, t, i))
    BY DEF Kills, Plain
  <2> QED BY <1>1, <1>2, <1>3, <1>5, <2>1 DEF Dies, NotServing, DropsStay
<1>7. ~ HeadIn(q, Serving) /\ ~ HeadIn(q, {"put", "use"}) /\ ~ HeadIn(q, {"put"}) /\ ~ HeadIn(q, {"open", "put"})
  BY <1>1 DEF Plain, NotServing, HeadIn, Serving
<1>8. Caches(c, q) /\ Reads(c, q) BY <1>3, <1>7 DEF Caches, Reads
<1>9. Due(c, q) BY <1>1 DEF Due, Kills, KillsBut, LeftBut
<1>10. /\ left' \subseteq left \cup req[c].gone /\ left \subseteq left' /\ q.gone \subseteq req[c].gone
  BY DEF Kills, KillsBut, LeftBut
<1>11. FileInv'
  <2>1. q.left \subseteq left BY <1>1 DEF Plain, IInv, FileInv
  <2>2. FilesSame(c, q) BY <1>2, <1>3, <1>10, <2>1 DEF FilesSame
  <2> QED BY <2>2, FilesKept
<1>12. SoleInv'
  <2>1. Stands(c, q) BY <1>1, <1>2 DEF Stands, Plain, IInv, MapInv
  <2> QED BY <2>1, SoleKept
<1>13. Types BY <1>1, <1>3, <1>5 DEF Types, IInv, TypeOK
<1>14. Respects(c, q) BY <1>4, <1>6, <1>8, <1>9, <1>10 DEF Respects
<1> QED BY <1>11, <1>12, <1>13, <1>14, Inductive

\* dropHandleAll takes an fd away.
LEMMA DropKept ==
  ASSUME IInv, NEW c \in Conns, NEW q \in Handlers, NEW t, NEW i, Drops(c, req[c], q, t, i), Grows,
         UNCHANGED <<inode, used, mapVars, ops, dup, late>>
  PROVE  IInv'
<1>1. /\ Plain(c, req[c], q) /\ DropsBut(req[c], q, t, i) /\ t \in Conns
      /\ gen' = [gen EXCEPT ![t] = @ + 1] /\ entry' = [entry EXCEPT ![t][i] = Nil]
      /\ Head(req[c].plan).do = "drop"
  BY DEF Drops
<1>2. /\ inode' = inode /\ used' = used /\ pathOf' = pathOf /\ active' = active /\ reverse' = reverse
      /\ dup' = dup /\ late' = late /\ ops' = ops
  BY DEF mapVars
<1>3. Turn(c, q) /\ RevOK' BY <1>1, <1>2, SetTurn, RevSame DEF Plain, IInv, TypeOK
<1>4. entry \in [Conns -> [Ids -> Inodes \cup {Nil}]] /\ gen \in [Conns -> Nat] BY DEF IInv, TypeOK
<1>5. /\ entry' \in [Conns -> [Ids -> Inodes \cup {Nil}]]
      /\ \A d \in Conns, j \in Ids : entry'[d][j] = entry[d][j] \/ entry'[d][j] = Nil
      /\ i \in Ids => entry'[t][i] = Nil
  BY <1>1, <1>4
<1>6. gen' \in [Conns -> Nat] /\ \A d \in Conns : gen'[d] = gen[d] \/ gen'[d] = gen[d] + 1
  <2>1. gen[t] + 1 \in Nat
    <3>1. gen[t] \in Nat BY <1>1, <1>4
    <3> QED BY SMT, <3>1
  <2> QED BY <1>1, <1>4, <2>1
<1>7. Maps(c, q) BY <1>1, <1>2, <1>3, <1>5 DEF Maps, Plain, IInv, MapInv
<1>8. Dies(c, q)
  <2>1. LateOK /\ NotServing(q) BY <1>1, <1>2 DEF LateOK, Plain
  <2> QED BY <1>1, <1>2, <1>3, <1>5, <2>1 DEF Dies, NotServing, DropsBut
<1>9. ~ HeadIn(q, Serving) /\ ~ HeadIn(q, {"put", "use"}) /\ ~ HeadIn(q, {"put"}) /\ ~ HeadIn(q, {"open", "put"})
  BY <1>1 DEF Plain, NotServing, HeadIn, Serving
<1>10. Caches(c, q) /\ Reads(c, q) BY <1>5, <1>6, <1>9 DEF Caches, Reads
<1>11. KillsStay(req[c], q) /\ LeftOK(req[c]) BY <1>1 DEF Plain
<1>12. Due(c, q) BY <1>11 DEF Due, KillsStay, LeftOK
<1>13. /\ left' \subseteq left \cup req[c].gone /\ left \subseteq left' /\ q.gone \subseteq req[c].gone
  BY <1>11 DEF LeftOK, KillsStay
<1>14. FileInv'
  <2>1. q.left \subseteq left BY <1>1 DEF Plain, IInv, FileInv
  <2>2. FilesSame(c, q) BY <1>2, <1>3, <1>13, <2>1 DEF FilesSame
  <2> QED BY <2>2, FilesKept
<1>15. SoleInv'
  <2>1. Stands(c, q) BY <1>1, <1>2, <1>3 DEF Stands, Plain, IInv, MapInv
  <2> QED BY <2>1, SoleKept
<1>16. Types BY <1>2, <1>5, <1>6 DEF Types, IInv, TypeOK
<1>17. Respects(c, q) BY <1>7, <1>8, <1>10, <1>12, <1>13 DEF Respects
<1> QED BY <1>14, <1>15, <1>16, <1>17, Inductive

\* RENAME looks for the ids it invalidates: the one that alone stands for a path is found.
LEMMA RekillKept ==
  ASSUME IInv, NEW c \in Conns, NEW q \in Handlers, NEW p, NEW x, Plain(c, req[c], q), Rekills(req[c], q, p, x),
         Grows, UNCHANGED <<inode, used, mapVars, fdVars, ops, dup, late>>,
         \A i \in Ids : Sole(i) /\ Findable(i) => Cached(pathOf[i]) = i
  PROVE  IInv'
<1>1. Still /\ UNCHANGED <<inode, used, ops>> /\ reverse' = reverse BY DEF Still, mapVars, fdVars
<1>2. Turn(c, q) /\ RevOK' BY <1>1, SetTurn, RevSame DEF Plain, IInv, TypeOK
<1>3. active' = active /\ pathOf' = pathOf /\ entry' = entry /\ gen' = gen /\ dup' = dup /\ late' = late
  BY <1>1 DEF Still
<1>4. Maps(c, q) BY <1>2, <1>3 DEF Maps, Plain, IInv, MapInv
<1>5. Dies(c, q)
  <2>1. DropsStay(req[c], q) /\ NotServing(q) BY DEF Plain, Rekills
  <2> QED BY <1>2, <1>3, <2>1 DEF Dies, LateOK, NotServing, DropsStay
<1>6. ~ HeadIn(q, Serving) /\ ~ HeadIn(q, {"put", "use"}) /\ ~ HeadIn(q, {"put"}) /\ ~ HeadIn(q, {"open", "put"})
  BY DEF Plain, NotServing, HeadIn, Serving
<1>7. Caches(c, q) /\ Reads(c, q) BY <1>3, <1>6 DEF Caches, Reads
<1>8. Due(c, q)
  <2> SUFFICES ASSUME NEW i \in Ids, NEW y, Sole(i), Findable(i)
               PROVE  /\ y \in q.gone /\ (y \in req[c].gone => Killing(req[c], i, pathOf[i])) => Killing(q, i, pathOf[i])
                      /\ y \in left' => y \in left \/ (y \in req[c].gone /\ ~ Killing(req[c], i, pathOf[i]))
    BY DEF Due
  <2>1. PICK a : a = pathOf[i] OBVIOUS
  <2>2. Cached(a) = i /\ i # Nil BY <2>1, LifeAssumption
  <2>3. ASSUME y \in q.gone, y \in req[c].gone => Killing(req[c], i, a) PROVE Killing(q, i, a)
    <3>1. Killing(req[c], i, a) /\ q.gone # {} BY <2>3 DEF Rekills
    <3>2. Killing(q, i, a) \/ Has(q, "kill", i) BY <2>2, <3>1 DEF Rekills
    <3> QED BY <3>2 DEF Killing
  <2>4. ASSUME y \in left', y \notin left PROVE y \in req[c].gone /\ ~ Killing(req[c], i, a)
    BY <2>2, <2>4 DEF Rekills
  <2> QED BY <2>1, <2>3, <2>4
<1>9. /\ left' \subseteq left \cup req[c].gone /\ left \subseteq left' /\ q.gone \subseteq req[c].gone
  BY DEF Rekills
<1>10. FileInv'
  <2>1. q.left \subseteq left BY DEF Plain, IInv, FileInv
  <2>2. FilesSame(c, q) BY <1>1, <1>2, <1>9, <2>1 DEF FilesSame
  <2> QED BY <2>2, FilesKept
<1>11. SoleInv'
  <2>1. Stands(c, q) BY <1>2, <1>3 DEF Stands, Plain, IInv, MapInv
  <2> QED BY <2>1, SoleKept
<1>12. Types BY <1>1, StillTypes DEF IInv, TypeOK
<1>13. Respects(c, q) BY <1>4, <1>5, <1>7, <1>8, <1>9 DEF Respects
<1> QED BY <1>10, <1>11, <1>12, <1>13, Inductive

\* ToHandle mints a handle: ids of the same path do not stand for it alone any more.
LEMMA MintSole ==
  ASSUME IInv, NEW c \in Conns, NEW q \in Handlers, NEW n, NEW v, Turn(c, q), Grows, Mints(c, q, n, v)
  PROVE  SoleInv'
<1>1. PICK p \in Paths : p = Arg(c) BY DEF Mints
<1>2. /\ n \in Ids /\ pathOf[n] = Nil /\ pathOf' = [pathOf EXCEPT ![n] = p] /\ active' = (active \ {v}) \cup {n}
      /\ \A i \in Ids : pathOf[i] = p /\ (i \in active \/ \E d \in Conns : Has(req[d], "kill", Nil) /\ req[d].id = i)
           => i \in dup' /\ n \in dup'
      /\ dup \subseteq dup' /\ q.id = n
  BY <1>1 DEF Mints
<1>3. pathOf \in [Ids -> Paths \cup {Nil}] /\ p # Nil /\ SoleInv BY LifeAssumption DEF IInv, TypeOK
<1>4. pathOf'[n] = p /\ \A i \in Ids : i # n => pathOf'[i] = pathOf[i] BY <1>2, <1>3
<1>5. n \notin active BY <1>2 DEF IInv, MapInv, Minted
<1>6. \A i \in active' : i # n => i \in active BY <1>2
<1>7. ASSUME NEW i \in Ids, NEW j \in Ids, i \in active', i \notin dup', j \in active', pathOf'[j] = pathOf'[i]
      PROVE  j = i
  <2>1. CASE i = n /\ j # n
    <3>1. j \in active /\ pathOf[j] = p BY <1>4, <1>6, <1>7, <2>1
    <3> QED BY <1>2, <1>7, <2>1, <3>1
  <2>2. CASE i # n /\ j = n
    <3>1. i \in active /\ pathOf[i] = p BY <1>4, <1>6, <1>7, <2>2
    <3> QED BY <1>2, <1>7, <3>1
  <2>3. CASE i # n /\ j # n
    <3>1. Sole(i) /\ j \in active /\ pathOf[j] = pathOf[i] BY <1>2, <1>4, <1>6, <1>7, <2>3 DEF Sole
    <3> QED BY <1>3, <3>1 DEF SoleInv
  <2> QED BY <2>1, <2>2, <2>3
<1>8. ASSUME NEW d \in Conns, NEW i \in Ids, Has(req[d], "kill", Nil), req[d].id # Nil, i \in active', i \notin dup',
             pathOf'[i] = pathOf'[req[d].id]
      PROVE  req[d].id = i
  <2>1. Minted(req[d].id) BY <1>8 DEF IInv, HandlerOK, IdOK
  <2>2. req[d].id \in Ids /\ req[d].id # n BY <1>2, <2>1 DEF Minted
  <2>3. CASE i = n
    <3>1. pathOf[req[d].id] = p BY <1>4, <1>8, <2>2, <2>3
    <3> QED BY <1>2, <1>8, <2>2, <2>3, <3>1
  <2>4. CASE i # n
    <3>1. Sole(i) /\ pathOf[i] = pathOf[req[d].id] BY <1>2, <1>4, <1>6, <1>8, <2>2, <2>4 DEF Sole
    <3> QED BY <1>3, <1>8, <3>1 DEF SoleInv
  <2> QED BY <2>3, <2>4
<1>9. ASSUME NEW d \in Conns, NEW i \in Ids, Has(req'[d], "kill", Nil), req'[d].id # Nil, i \in active', i \notin dup',
             pathOf'[i] = pathOf'[req'[d].id]
      PROVE  req'[d].id = i
  <2>1. CASE d # c
    <3>1. req'[d].plan = req[d].plan /\ req'[d].id = req[d].id BY <2>1 DEF Turn, Kept
    <3>2. Has(req[d], "kill", Nil) BY <1>9, <3>1 DEF Has
    <3> QED BY <1>8, <1>9, <3>1, <3>2
  <2>2. CASE d = c
    <3>1. req'[d].id = n BY <1>2, <2>2 DEF Turn
    <3>2. n \in active' BY <1>2
    <3>3. n = i BY <1>2, <1>7, <1>9, <3>1, <3>2
    <3> QED BY <3>1, <3>3
  <2> QED BY <2>1, <2>2
<1>10. \A i, j \in Ids : Sole(i)' /\ j \in active' /\ pathOf'[j] = pathOf'[i] => j = i
  BY <1>7 DEF Sole
<1>11. \A d \in Conns, i \in Ids :
        Has(req[d], "kill", Nil)' /\ req'[d].id # Nil /\ Sole(i)' /\ pathOf'[i] = pathOf'[req'[d].id] => req'[d].id = i
  BY <1>9 DEF Sole, Has
<1> QED BY <1>10, <1>11 DEF SoleInv

\* An id that is evicted for it is cleaned up.
LEMMA MintKept ==
  ASSUME IInv, NEW c \in Conns, NEW q \in Handlers, NEW n, NEW v, Goes(c, req[c], q), Grows, Mints(c, q, n, v)
  PROVE  IInv'
<1>1. Turn(c, q) BY SetTurn DEF Goes, IInv, TypeOK
<1>2. /\ n \in Ids /\ active' = (active \ {v}) \cup {n} /\ dup' \subseteq Ids /\ Has(q, "append", n)
      /\ v \in active => LateIf({v}) /\ \A t \in Conns : Dropping(q, t, v)
      /\ late' = late \/ LateIf({v})
      /\ inode' = inode /\ used' = used /\ reverse' = reverse /\ entry' = entry /\ gen' = gen /\ ops' = ops
  BY DEF Mints, fdVars
<1>3. RevOK' BY <1>2, RevSame
<1>4. Maps(c, q) BY <1>1, <1>2, <1>3 DEF Maps, Goes, IInv, MapInv
<1>5. LateOK /\ late' \subseteq Ids
  <2>1. active \ {v} \subseteq active' BY <1>2
  <2>2. CASE LateIf({v}) BY <2>1, <2>2, LateKept
  <2>3. CASE late' = late /\ v \notin active
    <3>1. active \subseteq active' BY <1>2, <2>3
    <3> QED BY <2>3, <3>1 DEF LateOK, IInv, TypeOK
  <2> QED BY <1>2, <2>2, <2>3
<1>6. Dies(c, q)
  <2>1. DropsStay(req[c], q) /\ NotServing(q) BY DEF Goes
  <2>2. \A i \in active : i \in active' \/ \A t \in Conns : Dropping(q, t, i) BY <1>2
  <2> QED BY <1>1, <1>2, <1>5, <2>1, <2>2 DEF Dies, NotServing, DropsStay
<1>7. ~ HeadIn(q, Serving) /\ ~ HeadIn(q, {"put", "use"}) /\ ~ HeadIn(q, {"put"}) /\ ~ HeadIn(q, {"open", "put"})
  BY DEF Goes, NotServing, HeadIn, Serving
<1>8. Caches(c, q) /\ Reads(c, q) BY <1>2, <1>7 DEF Caches, Reads
<1>9. Due(c, q) BY DEF Due, Goes, KillsStay, LeftOK
<1>10. left' \subseteq left \cup req[c].gone BY DEF Goes, LeftOK
<1>11. FileInv' BY <1>2, GoesFiles
<1>12. SoleInv' BY <1>1, MintSole
<1>13. Types
  <2>1. pathOf' \in [Ids -> Paths \cup {Nil}] BY DEF Mints, IInv, TypeOK
  <2> QED BY <1>2, <1>5, <2>1 DEF Types, IInv, TypeOK
<1>14. Respects(c, q) BY <1>4, <1>6, <1>8, <1>9, <1>10 DEF Respects
<1> QED BY <1>11, <1>12, <1>13, <1>14, Inductive

\* fs.Remove: the request is going to invalidate the id that alone stands for the path.
LEMMA RemoveKept ==
  ASSUME IInv, NEW c \in Conns, NEW q \in Handlers, NEW p, Removes(c, req[c], q, p), Grows,
         UNCHANGED <<used, mapVars, fdVars, ops, dup, late>>
  PROVE  IInv'
<1>1. Still /\ UNCHANGED <<used, ops>> /\ reverse' = reverse BY DEF Still, mapVars, fdVars
<1>2. Turn(c, q) /\ RevOK' BY <1>1, SetTurn, RevSame DEF Removes, IInv, TypeOK
<1>3. active' = active /\ pathOf' = pathOf /\ entry' = entry /\ gen' = gen /\ dup' = dup /\ late' = late
  BY <1>1 DEF Still
<1>4. /\ KnownOK /\ left' = left /\ NotServing(q) /\ DropsStay(req[c], q) /\ KillOld(req[c], q) /\ p \in Paths
      /\ q.gone = {<<p, inode[p]>>} /\ q.left = req[c].left
      /\ inode[p] # Nil /\ inode' = [inode EXCEPT ![p] = Nil]
  BY DEF Removes, KnownOK
<1>5. Maps(c, q) BY <1>2, <1>3, <1>4 DEF Maps, Removes, IInv, MapInv
<1>6. Dies(c, q) BY <1>2, <1>3, <1>4 DEF Dies, LateOK, NotServing, DropsStay
<1>7. ~ HeadIn(q, Serving) /\ ~ HeadIn(q, {"put", "use"}) /\ ~ HeadIn(q, {"put"}) /\ ~ HeadIn(q, {"open", "put"})
  BY <1>4 DEF NotServing, HeadIn, Serving
<1>8. Caches(c, q) /\ Reads(c, q) BY <1>3, <1>7 DEF Caches, Reads
<1>9. Due(c, q)
  <2>1. ASSUME NEW i \in Ids, NEW x, Sole(i), <<pathOf[i], x>> \in q.gone PROVE Killing(q, i, pathOf[i])
    <3>1. pathOf[i] = p BY <1>4, <2>1
    <3>2. Has(q, "kill", Nil) /\ q.id # Nil /\ pathOf[q.id] = p BY LifeAssumption DEF Removes
    <3>3. Has(req[c], "kill", Nil) /\ q.id = req[c].id BY <1>4, <3>2 DEF KillOld
    <3>4. q.id = i BY <2>1, <3>1, <3>2, <3>3 DEF IInv, SoleInv
    <3> QED BY <3>2, <3>4 DEF Killing
  <2> QED BY <1>4, <2>1 DEF Due
<1>10. FileInv'
  <2>1. inode \in [Paths -> Inodes \cup {Nil}] /\ FileInv BY DEF IInv, TypeOK
  <2>2. inode'[p] = Nil /\ \A y \in Paths : y # p => inode'[y] = inode[y] BY <1>4, <2>1
  <2>3. ASSUME NEW d \in Conns
        PROVE  req'[d].left \subseteq left' /\ (req'[d].gone \subseteq req[d].gone \/ req'[d].gone = {<<p, inode[p]>>})
    <3>1. req[d].left \subseteq left BY <2>1 DEF FileInv
    <3>2. CASE d = c BY <1>2, <1>4, <3>1, <3>2 DEF Turn
    <3>3. CASE d # c BY <1>2, <1>4, <3>1, <3>3 DEF Turn, Kept
    <3> QED BY <3>2, <3>3
  <2>4. inode[p] \in used BY <1>4, <2>1 DEF FileInv
  <2>5. ASSUME NEW y \in Paths, NEW x \in Inodes, <<y, x>> \in left' \/ (\E d \in Conns : <<y, x>> \in req'[d].gone)
        PROVE  x \in used
    <3>1. \/ <<y, x>> \in left \/ (\E d \in Conns : <<y, x>> \in req[d].gone)
          \/ x = inode[p]
      BY <1>4, <2>3, <2>5
    <3> QED BY <2>1, <2>4, <3>1 DEF FileInv
  <2>6. ASSUME NEW y \in Paths, inode'[y] # Nil
        PROVE  /\ inode'[y] \in used /\ <<y, inode'[y]>> \notin left'
               /\ \A d \in Conns : <<y, inode'[y]>> \notin req'[d].gone
               /\ \A z \in Paths : inode'[z] = inode'[y] => z = y
    <3>1. y # p /\ inode'[y] = inode[y] BY <2>2, <2>6
    <3>2. PICK x : x = inode[y] OBVIOUS
    <3>3. /\ x # Nil /\ x \in used /\ <<y, x>> \notin left /\ \A d \in Conns : <<y, x>> \notin req[d].gone
          /\ \A z \in Paths : inode[z] = x => z = y
      BY <2>1, <2>6, <3>1, <3>2 DEF FileInv
    <3>4. ASSUME NEW d \in Conns PROVE <<y, x>> \notin req'[d].gone
      <4>1. <<y, x>> # <<p, inode[p]>> BY <3>1
      <4> QED BY <2>3, <3>3, <4>1
    <3>5. \A z \in Paths : inode'[z] = x => z = y BY <2>2, <3>3
    <3>6. x = inode'[y] /\ left' = left BY <1>4, <3>1, <3>2
    <3> QED BY <3>3, <3>4, <3>5, <3>6
  <2> QED BY <1>1, <2>3, <2>5, <2>6 DEF FileInv
<1>11. SoleInv'
  <2>1. Stands(c, q) BY <1>2, <1>3, <1>4 DEF Stands, IInv, MapInv
  <2> QED BY <2>1, SoleKept
<1>12. Types
  <2>1. inode' \in [Paths -> Inodes \cup {Nil}] BY <1>4 DEF IInv, TypeOK
  <2> QED BY <1>1, <2>1, StillTypes DEF IInv, TypeOK
<1>13. Respects(c, q) BY <1>4, <1>5, <1>6, <1>8, <1>9 DEF Respects
<1> QED BY <1>10, <1>11, <1>12, <1>13, Inductive

\* fs.Rename: the files.
LEMMA RenameFiles ==
  ASSUME IInv, NEW c \in Conns, NEW q \in Handlers, NEW p, NEW x, Renames(c, req[c], q, p, x), used' = used
  PROVE  FileInv' /\ Turn(c, q) /\ inode' \in [Paths -> Inodes \cup {Nil}]
<1>1. PICK n : n = inode[p] OBVIOUS
<1>2. PICK back : back = <<x, n>> OBVIOUS
<1>3. /\ p \in Paths /\ x \in Paths /\ n # Nil /\ left' = left \ {back}
      /\ inode' = IF p = x THEN inode ELSE [inode EXCEPT ![x] = n, ![p] = Nil]
      /\ req' = [d \in Conns |-> IF d = c THEN q ELSE [req[d] EXCEPT !.gone = @ \ {back}, !.left = @ \ {back}]]
      /\ q.left = req[c].left \ {back}
      /\ q.gone = IF p = x THEN {} ELSE {<<p, n>>, <<x, inode[x]>>} \cap Pairs
  BY <1>1, <1>2 DEF Renames
<1>4. inode \in [Paths -> Inodes \cup {Nil}] /\ FileInv /\ req \in [Conns -> Handlers] BY DEF IInv, TypeOK
<1>5. n \in Inodes /\ n \in used /\ \A y \in Paths : inode[y] = n => y = p
  BY <1>1, <1>3, <1>4 DEF FileInv
<1>6. inode' \in [Paths -> Inodes \cup {Nil}] BY <1>3, <1>4, <1>5
<1>7. /\ inode'[x] = n /\ (p # x => inode'[p] = Nil)
      /\ \A y \in Paths : y # x /\ y # p => inode'[y] = inode[y]
  BY <1>1, <1>3, <1>4
<1>8. ASSUME NEW d \in Conns, d # c
      PROVE  /\ req'[d] \in Handlers /\ Kept(req[d], req'[d])
             /\ req'[d].gone = req[d].gone \ {back} /\ req'[d].left = req[d].left \ {back}
  <2>1. PICK r \in Handlers : r = req[d] BY <1>4
  <2>2. PICK s : s = [r EXCEPT !.gone = @ \ {back}, !.left = @ \ {back}] OBVIOUS
  <2>3. /\ s \in Handlers /\ s.gone = r.gone \ {back} /\ s.left = r.left \ {back}
        /\ s.plan = r.plan /\ s.id = r.id /\ s.ino = r.ino /\ s.gen = r.gen /\ s.op = r.op /\ s.to = r.to
    BY <2>1, <2>2 DEF Handlers
  <2>4. req'[d] = s BY <1>3, <1>8, <2>1, <2>2
  <2>5. Kept(r, s) BY <2>3 DEF Kept
  <2> QED BY <2>1, <2>3, <2>4, <2>5
<1>9. req'[c] = q BY <1>3
<1>10. Turn(c, q)
  <2>1. \A d \in Conns : req'[d] \in Handlers BY <1>8, <1>9
  <2>2. \E f : req' = [d \in Conns |-> f[d]]
    <3>1. PICK f : f = req' OBVIOUS
    <3>2. f = [d \in Conns |-> f[d]] BY <1>3, <3>1
    <3> QED BY <3>1, <3>2
  <2>3. req' \in [Conns -> Handlers] BY <2>1, <2>2
  <2> QED BY <1>8, <1>9, <2>3 DEF Turn
<1>11. ASSUME NEW d \in Conns
       PROVE  /\ req'[d].left \subseteq left' /\ back \notin req'[d].gone
              /\ \A y \in Paths, z \in Inodes : <<y, z>> \in req'[d].gone =>
                   <<y, z>> \in req[d].gone \/ (p # x /\ y \in {p, x} /\ z = inode[y])
  <2>1. req[d].left \subseteq left BY <1>4 DEF FileInv
  <2>2. CASE d # c BY <1>3, <1>8, <2>1, <2>2
  <2>3. CASE d = c
    <3>0. ASSUME NEW y, NEW z, <<y, z>> \in q.gone PROVE p # x /\ y \in {p, x} /\ z = inode[y]
      <4>1. p # x BY <1>3, <3>0
      <4>2. <<y, z>> = <<p, n>> \/ <<y, z>> = <<x, inode[x]>> BY <1>3, <3>0, <4>1
      <4>3. CASE <<y, z>> = <<p, n>>
        <5>1. y = p /\ z = n BY <4>3
        <5> QED BY <1>1, <4>1, <5>1
      <4>4. CASE <<y, z>> = <<x, inode[x]>>
        <5>1. y = x /\ z = inode[x] BY <4>4
        <5> QED BY <4>1, <5>1
      <4> QED BY <4>2, <4>3, <4>4
    <3>1. back \notin q.gone BY <1>2, <1>3, <1>5, <3>0
    <3>2. \A y \in Paths, z \in Inodes : <<y, z>> \in q.gone => p # x /\ y \in {p, x} /\ z = inode[y]
      BY <3>0
    <3> QED BY <1>3, <1>9, <2>1, <2>3, <3>1, <3>2
  <2> QED BY <2>2, <2>3
<1>12. ASSUME NEW y \in Paths, NEW z \in Inodes, <<y, z>> \in left' \/ (\E d \in Conns : <<y, z>> \in req'[d].gone)
       PROVE  z \in used
  <2>1. CASE <<y, z>> \in left BY <1>4, <2>1 DEF FileInv
  <2>2. CASE \E d \in Conns : <<y, z>> \in req'[d].gone
    <3>1. PICK d \in Conns : <<y, z>> \in req'[d].gone BY <2>2
    <3>2. <<y, z>> \in req[d].gone \/ z = inode[y] BY <1>11, <3>1
    <3>3. z # Nil BY LifeAssumption
    <3> QED BY <1>4, <3>2, <3>3 DEF FileInv
  <2> QED BY <1>3, <1>12, <2>1, <2>2
<1>13. ASSUME NEW y \in Paths, inode'[y] # Nil
       PROVE  /\ inode'[y] \in used /\ <<y, inode'[y]>> \notin left'
              /\ \A d \in Conns : <<y, inode'[y]>> \notin req'[d].gone
              /\ \A z \in Paths : inode'[z] = inode'[y] => z = y
  <2>1. CASE y = x
    <3>1. <<x, n>> \notin left' /\ \A d \in Conns : <<x, n>> \notin req'[d].gone BY <1>2, <1>3, <1>11
    <3>2. ASSUME NEW z \in Paths, inode'[z] = n PROVE z = x
      <4>1. z # x => z # p BY <1>3, <1>7, <3>2
      <4>2. z # x => inode[z] = n BY <1>7, <3>2, <4>1
      <4> QED BY <1>5, <4>1, <4>2
    <3>3. inode'[y] = n BY <1>7, <2>1
    <3> QED BY <1>5, <2>1, <3>1, <3>2, <3>3
  <2>2. CASE y # x
    <3>1. y # p /\ inode'[y] = inode[y] BY <1>7, <1>13, <2>2
    <3>2. PICK m : m = inode[y] OBVIOUS
    <3>3. /\ m # Nil /\ m \in used /\ <<y, m>> \notin left /\ \A d \in Conns : <<y, m>> \notin req[d].gone
          /\ \A z \in Paths : inode[z] = m => z = y
      BY <1>4, <1>13, <3>1, <3>2 DEF FileInv
    <3>4. m \in Inodes BY <1>4, <3>2, <3>3
    <3>5. ASSUME NEW d \in Conns PROVE <<y, m>> \notin req'[d].gone BY <1>11, <2>2, <3>1, <3>3, <3>4
    <3>6. ASSUME NEW z \in Paths, inode'[z] = m PROVE z = y
      <4>1. m # n BY <1>5, <3>1, <3>2
      <4>2. z # x BY <1>7, <3>6, <4>1
      <4>3. z # p BY <1>7, <3>3, <3>6, <4>2
      <4> QED BY <1>7, <3>3, <3>6, <4>2, <4>3
    <3>7. m = inode'[y] /\ <<y, m>> \notin left' BY <1>3, <3>1, <3>2, <3>3
    <3> QED BY <3>3, <3>5, <3>6, <3>7
  <2> QED BY <2>1, <2>2
<1>14. FileInv' BY <1>11, <1>12, <1>13 DEF FileInv
<1> QED BY <1>6, <1>10, <1>14

\* The request is going to look for the ids of the two paths.
LEMMA RenameKept ==
  ASSUME IInv, NEW c \in Conns, NEW q \in Handlers, NEW p, NEW x, Renames(c, req[c], q, p, x), Grows,
         UNCHANGED <<used, mapVars, fdVars, ops, dup, late>>
  PROVE  IInv'
<1>1. Still /\ UNCHANGED <<used, ops>> /\ reverse' = reverse BY DEF Still, mapVars, fdVars
<1>2. FileInv' /\ Turn(c, q) /\ RevOK' /\ inode' \in [Paths -> Inodes \cup {Nil}]
  BY <1>1, RenameFiles, RevSame
<1>3. active' = active /\ pathOf' = pathOf /\ entry' = entry /\ gen' = gen /\ dup' = dup /\ late' = late
  BY <1>1 DEF Still
<1>4. /\ KnownOK /\ left' \subseteq left /\ NotServing(q) /\ DropsStay(req[c], q) /\ KillOld(req[c], q)
      /\ HandlerOK(q)' /\ AppendsStay(req[c], q) /\ Has(q, "rkill", p) /\ q.to = x
      /\ \A y \in q.gone : y \in {<<p, inode[p]>>, <<x, inode[x]>>}
  BY DEF Renames, KnownOK
<1>5. Maps(c, q) BY <1>2, <1>3, <1>4 DEF Maps, IInv, MapInv
<1>6. Dies(c, q) BY <1>2, <1>3, <1>4 DEF Dies, LateOK, NotServing, DropsStay
<1>7. ~ HeadIn(q, Serving) /\ ~ HeadIn(q, {"put", "use"}) /\ ~ HeadIn(q, {"put"}) /\ ~ HeadIn(q, {"open", "put"})
  BY <1>4 DEF NotServing, HeadIn, Serving
<1>8. Caches(c, q) /\ Reads(c, q) BY <1>3, <1>7 DEF Caches, Reads
<1>9. Due(c, q)
  <2>1. ASSUME NEW i \in Ids, NEW z, <<pathOf[i], z>> \in q.gone PROVE Killing(q, i, pathOf[i])
    <3>1. pathOf[i] \in {p, x} BY <1>4, <2>1
    <3>2. PICK n \in 1..Len(q.plan) : q.plan[n].do = "rkill" /\ q.plan[n].arg = p BY <1>4 DEF Has
    <3> QED BY <1>4, <3>1, <3>2 DEF Killing
  <2> QED BY <1>4, <2>1 DEF Due
<1>10. SoleInv'
  <2>1. Stands(c, q) BY <1>2, <1>3, <1>4 DEF Stands, IInv, MapInv
  <2> QED BY <2>1, SoleKept
<1>11. Types BY <1>1, <1>2, StillTypes DEF IInv, TypeOK
<1>12. Respects(c, q) BY <1>4, <1>5, <1>6, <1>8, <1>9 DEF Respects
<1> QED BY <1>2, <1>10, <1>11, <1>12, Inductive

\* It keeps the invariant.
LEMMA ReadingKept ==
  ASSUME IInv, NEW c \in Conns, NEW q \in Handlers, NEW do, Reading(c, q, do)
  PROVE  IInv'
<1>1. Working(c, req[c], q, do) /\ Grows /\ Caches(c, q) /\ Reads(c, q) BY DEF Reading
<1>2. /\ Sets(c, q) /\ HandlerOK(q)' /\ known' = known /\ left' = left /\ q.left = req[c].left /\ q.gone = {}
      /\ ~ Has(q, "kill", Nil) /\ DropsStay(req[c], q) /\ AppendsStay(req[c], q)
  BY <1>1 DEF Working
<1>3. /\ inode' = inode /\ used' = used /\ active' = active /\ pathOf' = pathOf /\ reverse' = reverse /\ gen' = gen
      /\ ops' = ops /\ dup' = dup /\ late' = late
  BY DEF Reading, mapVars
<1>4. Turn(c, q) /\ RevOK' BY <1>1, <1>2, <1>3, SetTurn, RevSame DEF IInv, TypeOK
<1>5. KnownOK BY <1>2 DEF KnownOK
<1>6. \A j : HeadIn(req[c], Serving) /\ j = req[c].id => Findable(j)'
  <2>1. HeadIn(req[c], Serving) => Findable(req[c].id) BY DEF IInv, HandlerOK, ServeOK
  <2> QED BY <1>1, <2>1 DEF Grows
<1>7. \A d \in Conns, i \in Ids : entry'[d][i] # Nil => entry[d][i] # Nil \/ Findable(i)'
  BY <1>6 DEF Reading
<1>8. Maps(c, q) BY <1>1, <1>2, <1>3, <1>4, <1>5, <1>7 DEF Maps, IInv, MapInv
<1>9. Dies(c, q) BY <1>2, <1>3, <1>4 DEF Dies, LateOK, DropsStay, Reading
<1>10. Due(c, q) BY <1>2 DEF Due
<1>11. Respects(c, q) BY <1>1, <1>2, <1>8, <1>9, <1>10 DEF Respects
<1>12. FileInv'
  <2>1. FilesSame(c, q) BY <1>2, <1>3, <1>4 DEF FilesSame, IInv, FileInv
  <2> QED BY <2>1, FilesKept
<1>13. SoleInv'
  <2>1. Stands(c, q) BY <1>1, <1>2, <1>3, <1>4 DEF Stands, KillOld, IInv, MapInv
  <2> QED BY <2>1, SoleKept
<1>14. Types BY <1>3 DEF Types, Reading, IInv, TypeOK
<1> QED BY <1>11, <1>12, <1>13, <1>14, Inductive

\* What the request finds in the cache and has opened.
LEMMA ReadsIs ==
  ASSUME IInv, NEW c \in Conns, NEW q, NEW do, Working(c, req[c], q, do), UNCHANGED <<pathOf, gen, dup>>,
         q.id \in dup \/ <<pathOf[q.id], entry'[c][q.id]>> \notin q.left,
         do \in {"put", "use"} => q.id \in dup \/ <<pathOf[q.id], q.ino>> \notin q.left,
         do \in {"open", "put"} => q.gen <= gen[c]
  PROVE  Reads(c, q)
<1>1. \A S : HeadIn(q, S) => do \in S BY DEF Working, HeadIn
<1>2. pathOf' = pathOf /\ gen' = gen /\ dup' = dup OBVIOUS
<1> QED BY <1>1, <1>2 DEF Reads

\* The caches, if no fd comes in.
LEMMA CachesSame ==
  ASSUME NEW c \in Conns, NEW q, NEW do, Working(c, req[c], q, do), UNCHANGED <<entry, gen>>,
         do = "put" => HeadIn(req[c], Serving) /\ q.id = req[c].id /\ q.ino = inode[pathOf[q.id]]
  PROVE  Caches(c, q)
<1>1. \A S : HeadIn(q, S) => do \in S BY DEF Working, HeadIn
<1>2. entry' = entry /\ gen' = gen OBVIOUS
<1> QED BY <1>1, <1>2 DEF Caches

\* FromHandle: what is cached under an id that resolves has not left the path.
LEMMA FromKept ==
  ASSUME IInv, NEW c \in Conns, NEW q \in Handlers, Working(c, req[c], q, "get"), q.id \in active, Grows,
         UNCHANGED <<inode, used, mapVars, fdVars, ops, dup, late>>
  PROVE  IInv'
<1>1. PICK i : i = q.id OBVIOUS
<1>2. PICK x : x = entry[c][i] OBVIOUS
<1>3. i \in Ids /\ x \in Inodes \cup {Nil} /\ left \subseteq Pairs /\ q.left \subseteq left
  <2>1. TypeOK /\ FileInv BY DEF IInv
  <2>2. i \in Ids /\ left \subseteq Pairs BY <1>1, <2>1 DEF TypeOK
  <2>3. x \in Inodes \cup {Nil} BY <1>2, <2>1, <2>2 DEF TypeOK
  <2>4. q.left \subseteq left BY <2>1 DEF FileInv, Working
  <2> QED BY <2>2, <2>3, <2>4
<1>4. i \in dup \/ <<pathOf[i], x>> \notin q.left
  <2>1. CASE x = Nil
    <3>1. <<pathOf[i], Nil>> \notin Pairs BY LifeAssumption DEF Pairs
    <3> QED BY <1>3, <2>1, <3>1
  <2>2. CASE x # Nil /\ i \notin dup
    <3>1. Sole(i) /\ Serves(c, i, x) /\ x \in Inodes BY <1>1, <1>2, <1>3, <2>2 DEF Sole, Serves
    <3>2. <<pathOf[i], x>> \notin left BY <1>3, <3>1 DEF IInv, ServedInv
    <3> QED BY <1>3, <3>2
  <2> QED BY <2>1, <2>2
<1>5. entry' = entry /\ gen' = gen /\ pathOf' = pathOf /\ dup' = dup BY DEF fdVars, mapVars
<1>6. Reads(c, q) BY <1>1, <1>2, <1>4, <1>5, ReadsIs
<1>7. Caches(c, q) BY <1>5, CachesSame
<1>8. Reading(c, q, "get") BY <1>5, <1>6, <1>7 DEF Reading, Serving, IInv, TypeOK, fdVars, mapVars
<1> QED BY <1>8, ReadingKept

\* A step that takes no fd into the cache.
LEMMA ServingKept ==
  ASSUME IInv, NEW c \in Conns, NEW q \in Handlers, NEW do \in Serving, Working(c, req[c], q, do), Grows,
         HeadIn(req[c], Serving), q.id = req[c].id,
         UNCHANGED <<inode, used, mapVars, fdVars, ops, dup, late>>,
         do = "put" => q.ino = inode[pathOf[q.id]] /\ q.ino # Nil /\ q.gen <= gen[c],
         do = "use" => q.ino = entry[c][q.id],
         do = "open" => q.gen = gen[c]
  PROVE  IInv'
<1>1. entry' = entry /\ gen' = gen /\ pathOf' = pathOf /\ dup' = dup BY DEF fdVars, mapVars
<1>2. q.left = req[c].left /\ q.left \subseteq left BY DEF Working, IInv, FileInv
<1>3. q.id \in dup \/ <<pathOf[q.id], entry[c][q.id]>> \notin q.left BY <1>2 DEF IInv, ReaderInv
<1>4. ASSUME do = "put" PROVE <<pathOf[q.id], q.ino>> \notin q.left
  <2>1. PICK p : p = pathOf[q.id] OBVIOUS
  <2>2. Minted(q.id) BY DEF IInv, HandlerOK, ServeOK, Findable
  <2>3. p \in Paths /\ inode[p] # Nil BY <1>4, <2>1, <2>2 DEF Minted, IInv, TypeOK
  <2>4. <<p, inode[p]>> \notin left BY <2>3 DEF IInv, FileInv
  <2> QED BY <1>2, <1>4, <2>1, <2>4
<1>5. do \in {"put", "use"} => q.id \in dup \/ <<pathOf[q.id], q.ino>> \notin q.left BY <1>3, <1>4
<1>6. do \in {"open", "put"} => q.gen <= gen[c]
  <2>1. gen[c] \in Nat BY DEF IInv, TypeOK
  <2>2. gen[c] <= gen[c] BY SMT, <2>1
  <2> QED BY <2>2
<1>7. Reads(c, q) BY <1>1, <1>3, <1>5, <1>6, ReadsIs
<1>8. Caches(c, q) BY <1>1, CachesSame
<1>9. Reading(c, q, do) BY <1>1, <1>7, <1>8 DEF Reading, IInv, TypeOK, fdVars, mapVars
<1> QED BY <1>9, ReadingKept

\* PutIfFresh takes one in, if no drop came since the file was opened.
LEMMA PutKept ==
  ASSUME IInv, NEW c \in Conns, NEW q \in Handlers, Working(c, req[c], q, "use"), Grows,
         HeadIn(req[c], {"put"}), q.id = req[c].id, q.ino = req[c].ino, gen[c] = req[c].gen,
         entry' = [entry EXCEPT ![c][req[c].id] = req[c].ino],
         UNCHANGED <<inode, used, mapVars, gen, ops, dup, late>>
  PROVE  IInv'
<1>1. gen' = gen /\ pathOf' = pathOf /\ dup' = dup BY DEF mapVars
<1>2. HeadIn(req[c], Serving) /\ HeadIn(req[c], {"put", "use"}) /\ At(c, "put")
  BY DEF HeadIn, Serving, At
<1>3. PICK i, x : i = req[c].id /\ x = req[c].ino OBVIOUS
<1>4. i \in Ids /\ x \in Inodes \cup {Nil}
  <2>1. req[c] \in Handlers /\ Findable(req[c].id) BY <1>2 DEF IInv, TypeOK, HandlerOK, ServeOK
  <2> QED BY <1>3, <2>1 DEF Handlers, Findable, Minted
<1>5. /\ entry' \in [Conns -> [Ids -> Inodes \cup {Nil}]] /\ entry'[c][i] = x
      /\ \A d \in Conns, j \in Ids : entry'[d][j] = entry[d][j] \/ (d = c /\ j = i)
  <2>1. entry \in [Conns -> [Ids -> Inodes \cup {Nil}]] /\ entry' = [entry EXCEPT ![c][i] = x]
    BY <1>3 DEF IInv, TypeOK
  <2>2. PICK e : e = [entry[c] EXCEPT ![i] = x] OBVIOUS
  <2>3. e \in [Ids -> Inodes \cup {Nil}] /\ e[i] = x /\ \A j \in Ids : j # i => e[j] = entry[c][j]
    BY <1>4, <2>1, <2>2
  <2>4. entry' = [entry EXCEPT ![c] = e] BY <2>1, <2>2
  <2>5. /\ entry' \in [Conns -> [Ids -> Inodes \cup {Nil}]] /\ entry'[c] = e
        /\ \A d \in Conns : d # c => entry'[d] = entry[d]
    BY <2>1, <2>3, <2>4
  <2> QED BY <2>3, <2>5
<1>6. Serves(c, i, x) BY <1>2, <1>3 DEF Serves
<1>7. i \in dup \/ <<pathOf[i], x>> \notin q.left BY <1>2, <1>3 DEF IInv, ReaderInv, Working
<1>8. Reads(c, q) BY <1>1, <1>3, <1>5, <1>7, ReadsIs
<1>9. ~ HeadIn(q, {"put"}) BY DEF Working, HeadIn
<1>10. Caches(c, q) BY <1>1, <1>5, <1>6, <1>9 DEF Caches
<1>11. \A d \in Conns, j \in Ids :
         entry'[d][j] # Nil => entry[d][j] # Nil \/ (HeadIn(req[c], Serving) /\ req[c].id = j)
  BY <1>2, <1>3, <1>5
<1>12. Reading(c, q, "use") BY <1>2, <1>5, <1>8, <1>10, <1>11 DEF Reading, Serving
<1> QED BY <1>12, ReadingKept

\* A new request keeps the invariant.
LEMMA StartKept ==
  ASSUME IInv, NEW c \in Conns, NEW q \in Handlers, Starts(c, q)
  PROVE  IInv'
<1>1. /\ inode' = inode /\ used' = used /\ active' = active /\ pathOf' = pathOf /\ reverse' = reverse
      /\ entry' = entry /\ gen' = gen /\ known' = known /\ left' = left /\ dup' = dup /\ late' = late
  BY DEF Starts, mapVars, fdVars, histVars
<1>2. Grows BY <1>1 DEF Grows, Minted, Findable, Listed
<1>3. Turn(c, q) /\ RevOK' BY <1>1, <1>2, SetTurn, RevSame DEF Starts, IInv, TypeOK
<1>4. \A n : n \notin 1..Len(req[c].plan)
  <2>1. \A n : n \notin 1..Len(<<>>) BY SMT
  <2>2. NoReq.plan = <<>> BY SMT DEF NoReq
  <2> QED BY <2>1, <2>2 DEF Starts
<1>5. DropsStay(req[c], q) /\ AppendsStay(req[c], q) BY <1>4 DEF DropsStay, Dropping, AppendsStay, Has
<1>6. KnownOK BY <1>1 DEF KnownOK
<1>7. Maps(c, q) BY <1>1, <1>2, <1>3, <1>5, <1>6 DEF Maps, Starts, IInv, MapInv
<1>8. Dies(c, q) BY <1>1, <1>3, <1>5 DEF Dies, LateOK, Starts, NotServing, DropsStay
<1>9. ~ HeadIn(q, Serving) /\ ~ HeadIn(q, {"put", "use"}) /\ ~ HeadIn(q, {"put"}) /\ ~ HeadIn(q, {"open", "put"})
  BY DEF Starts, NotServing, HeadIn, Serving
<1>10. Caches(c, q) /\ Reads(c, q) BY <1>1, <1>9 DEF Caches, Reads
<1>11. Due(c, q) BY <1>1 DEF Due, Starts
<1>12. Respects(c, q) BY <1>1, <1>7, <1>8, <1>10, <1>11 DEF Respects
<1>13. FileInv'
  <2>1. FilesSame(c, q) BY <1>1, <1>3 DEF FilesSame, Starts
  <2> QED BY <2>1, FilesKept
<1>14. SoleInv'
  <2>1. Stands(c, q) BY <1>1, <1>2, <1>3 DEF Stands, KillOld, Starts, IInv, MapInv
  <2> QED BY <2>1, SoleKept
<1>15. Types BY <1>1 DEF Types, Starts, IInv, TypeOK
<1> QED BY <1>12, <1>13, <1>14, <1>15, Inductive


-----------------------------------------------------------------------------
(* Records and sequences.                                                   *)

\* The fields of a handler.
LEMMA Fields ==
  \A r \in Handlers :
    /\ r.op \in Requests \cup {Nil} /\ r.plan \in Seq(Steps) /\ r.id \in Ids \cup {Nil}
    /\ r.to \in Paths \cup {Nil} /\ r.gen \in Nat /\ r.ino \in Inodes \cup {Nil} /\ r.att \in 0..1
    /\ r.gone \subseteq Pairs /\ r.left \subseteq Pairs
  BY DEF Handlers

\* A connection without a request.
LEMMA Idle ==
  /\ NoReq \in Handlers /\ NoReq.plan = <<>> /\ NoReq.op = Nil /\ NoReq.id = Nil /\ NoReq.to = Nil
  /\ NoReq.ino = Nil /\ NoReq.gone = {} /\ NoReq.left = {} /\ Len(NoReq.plan) = 0
<1>1. <<>> \in Seq(Steps) /\ 0 \in Nat /\ 0 \in 0..1 /\ Len(<<>>) = 0 BY SMT
<1> QED BY <1>1 DEF NoReq, Handlers

\* The fields of a step.
LEMMA StepFields ==
  /\ \A s \in Steps : /\ s.do \in Labels /\ s.arg \in Paths \cup Ids \cup {Nil}
                      /\ s.todo \subseteq Conns
  /\ \A do \in Labels : \A arg \in Paths \cup Ids \cup {Nil} :
       LET s == Step(do, arg) IN
       /\ s \in Steps /\ s.do = do /\ s.arg = arg /\ (do = "drop" => s.todo = Conns)
  /\ \A s \in Steps : \A S \in SUBSET Conns :
       LET t == [s EXCEPT !.todo = S] IN t \in Steps /\ t.do = s.do /\ t.arg = s.arg /\ t.todo = S
<1>1. \A s \in Steps : s.do \in Labels /\ s.arg \in Paths \cup Ids \cup {Nil} /\ s.todo \subseteq Conns
  BY DEF Steps
<1>2. \A do \in Labels : \A arg \in Paths \cup Ids \cup {Nil} :
       LET s == Step(do, arg) IN
       /\ s \in Steps /\ s.do = do /\ s.arg = arg /\ (do = "drop" => s.todo = Conns)
  BY DEF Steps, Step
<1>3. \A s \in Steps : \A S \in SUBSET Conns :
       LET t == [s EXCEPT !.todo = S] IN t \in Steps /\ t.do = s.do /\ t.arg = s.arg /\ t.todo = S
  BY DEF Steps
<1> QED BY <1>1, <1>2, <1>3

\* The plan once its head is done and the steps of more are in front.
Pushed(plan, more, new) ==
  /\ new \in Seq(Steps) /\ plan \in Seq(Steps) /\ more \in Seq(Steps)
  /\ Len(more) \in Nat /\ Len(plan) \in Nat /\ Len(plan) >= 1
  /\ \A n \in 1..Len(more) : n \in 1..Len(new) /\ new[n] = more[n]
  /\ \A n \in 2..Len(plan) : /\ (n - 1) + Len(more) \in 1..Len(new)
                             /\ new[(n - 1) + Len(more)] = plan[n]
  /\ \A n \in 1..Len(new) : \/ n \in 1..Len(more) /\ new[n] = more[n]
                            \/ /\ n > Len(more) /\ (n - Len(more)) + 1 \in 2..Len(plan)
                               /\ new[n] = plan[(n - Len(more)) + 1]
  /\ Head(plan) = plan[1] /\ plan[1] \in Steps
  /\ \A n \in 1..Len(plan) : n = 1 \/ n \in 2..Len(plan)
  /\ new # <<>> => Head(new) = new[1] /\ 1 \in 1..Len(new)

\* ab is a and then b.
Concat(S, a, b, ab) ==
  /\ ab \in Seq(S) /\ Len(ab) = Len(a) + Len(b)
  /\ \A m \in 1..Len(a) : ab[m] = a[m]
  /\ \A m \in 1..Len(b) : ab[m + Len(a)] = b[m]

\* Two lists joined.
LEMMA Joined ==
  ASSUME NEW S, NEW a \in Seq(S), NEW b \in Seq(S), NEW ab, ab = a \o b
  PROVE  Concat(S, a, b, ab)
BY SMT DEF Concat

\* Where its steps come from.
LEMMA Push ==
  ASSUME NEW plan \in Seq(Steps), plan # <<>>, NEW more \in Seq(Steps),
         NEW new, new = more \o Tail(plan)
  PROVE  Pushed(plan, more, new)
<1> DEFINE S == Steps
<1> HIDE DEF S
<1>0. plan \in Seq(S) /\ more \in Seq(S) BY DEF S
<1>1. Tail(plan) \in Seq(S) /\ Len(Tail(plan)) = Len(plan) - 1 /\ Len(plan) >= 1
  BY SMT, <1>0
<1>2. \A n \in 1..Len(Tail(plan)) : Tail(plan)[n] = plan[n + 1]
  BY SMT, <1>0
<1>3. PICK rest : rest = Tail(plan) OBVIOUS
<1>4. new = more \o rest /\ rest \in Seq(S) /\ Len(rest) = Len(plan) - 1
  BY SMT, <1>1, <1>3
<1>5. \A n \in 1..Len(rest) : rest[n] = plan[n + 1]
  BY SMT, <1>2, <1>3
<1>6. /\ new \in Seq(S) /\ Len(new) = Len(more) + Len(rest)
      /\ Len(more) \in Nat /\ Len(plan) \in Nat /\ Len(rest) \in Nat
  BY SMT, <1>0, <1>4
<1>c. Concat(S, more, rest, new) BY <1>0, <1>4, Joined
<1>7. \A n \in 1..Len(more) : new[n] = more[n] BY <1>c DEF Concat
<1>8. \A n \in 1..Len(rest) : new[n + Len(more)] = rest[n] BY <1>c DEF Concat
<1>9. ASSUME NEW n \in 2..Len(plan)
      PROVE  (n - 1) + Len(more) \in 1..Len(new) /\ new[(n - 1) + Len(more)] = plan[n]
  <2>1. n - 1 \in 1..Len(rest) /\ (n - 1) + 1 = n BY SMT, <1>0, <1>4, <1>6
  <2> QED BY SMT, <1>4, <1>5, <1>6, <1>8, <2>1
<1>10. ASSUME NEW n \in 1..Len(new), n > Len(more)
       PROVE  (n - Len(more)) + 1 \in 2..Len(plan) /\ new[n] = plan[(n - Len(more)) + 1]
  <2>1. n - Len(more) \in 1..Len(rest) /\ (n - Len(more)) + Len(more) = n BY SMT, <1>4, <1>6, <1>10
  <2> QED BY SMT, <1>4, <1>5, <1>6, <1>8, <2>1
<1>11. \A n \in 1..Len(more) : n \in 1..Len(new)
  BY SMT, <1>6
<1>12. \A n \in 1..Len(new) : n \in 1..Len(more) \/ n > Len(more)
  BY SMT, <1>6
<1>13. Head(plan) = plan[1] /\ plan[1] \in S
  BY SMT, <1>0, <1>1
<1>14. \A n \in 1..Len(plan) : n = 1 \/ n \in 2..Len(plan)
  BY SMT, <1>6
<1>15. new # <<>> => Head(new) = new[1] /\ 1 \in 1..Len(new)
  BY SMT, <1>6
<1> QED BY <1>1, <1>6, <1>7, <1>9, <1>10, <1>11, <1>12, <1>13, <1>14, <1>15 DEF Pushed, S

-----------------------------------------------------------------------------
(* How a handler goes on.                                                   *)

\* From handler o to handler q the head of the plan is done and more comes next.
Pushes(o, q, more) ==
  /\ o \in Handlers /\ q \in Handlers /\ more \in Seq(Steps)
  /\ o.plan # <<>> /\ q.plan = more \o Tail(o.plan)

In(s, plan) == \E n \in 1..Len(plan) : plan[n] = s

OrderOK(plan) == \A m, n \in 1..Len(plan) : m < n => Ordered(plan[m], plan[n])

\* The steps before and after.
LEMMA PushedSteps ==
  ASSUME NEW o, NEW q, NEW more, Pushes(o, q, more), OrderOK(o.plan)
  PROVE  /\ \A n \in 1..Len(q.plan) :
              /\ q.plan[n] \in Steps
              /\ \/ In(q.plan[n], more)
                 \/ In(q.plan[n], o.plan) /\ Ordered(Head(o.plan), q.plan[n])
         /\ \A n \in 1..Len(o.plan) : o.plan[n] = Head(o.plan) \/ In(o.plan[n], q.plan)
         /\ \A n \in 1..Len(more) : In(more[n], q.plan)
         /\ In(Head(o.plan), o.plan) /\ Head(o.plan) \in Steps
         /\ q.plan # <<>> => In(Head(q.plan), q.plan)
<1> DEFINE s == o.plan
           p == q.plan
<1>1. s \in Seq(Steps) /\ s # <<>> /\ more \in Seq(Steps) /\ p = more \o Tail(s)
  BY Fields DEF Pushes
<1> HIDE DEF s, p
<1>p. Pushed(s, more, p) BY <1>1, Push
<1>2. /\ p \in Seq(Steps)
      /\ Len(more) \in Nat /\ Len(s) \in Nat /\ Len(s) >= 1
      /\ \A n \in 1..Len(more) : n \in 1..Len(p) /\ p[n] = more[n]
      /\ \A n \in 2..Len(s) : (n - 1) + Len(more) \in 1..Len(p) /\ p[(n - 1) + Len(more)] = s[n]
      /\ \A n \in 1..Len(p) : \/ n \in 1..Len(more) /\ p[n] = more[n]
                              \/ /\ n > Len(more) /\ (n - Len(more)) + 1 \in 2..Len(s)
                                 /\ p[n] = s[(n - Len(more)) + 1]
      /\ Head(s) = s[1] /\ s[1] \in Steps
      /\ \A n \in 1..Len(s) : n = 1 \/ n \in 2..Len(s)
      /\ p # <<>> => Head(p) = p[1] /\ 1 \in 1..Len(p)
  BY <1>p DEF Pushed
<1>3. \A n \in 2..Len(s) : n \in 1..Len(s) /\ 1 < n
  BY SMT, <1>2
<1>4. 1 \in 1..Len(s) BY SMT, <1>2
<1>5. \A n \in 2..Len(s) : Ordered(Head(s), s[n])
  BY <1>2, <1>3, <1>4 DEF OrderOK, s
<1>6. ASSUME NEW n \in 1..Len(p)
      PROVE  p[n] \in Steps /\ (In(p[n], more) \/ (In(p[n], s) /\ Ordered(Head(s), p[n])))
  <2>1. p[n] \in Steps BY SMT, <1>2
  <2>2. CASE n \in 1..Len(more) /\ p[n] = more[n]
    BY <2>1, <2>2 DEF In
  <2>3. CASE (n - Len(more)) + 1 \in 2..Len(s) /\ p[n] = s[(n - Len(more)) + 1]
    <3>1. PICK m : m = (n - Len(more)) + 1 OBVIOUS
    <3> QED BY <1>3, <1>5, <2>1, <2>3, <3>1 DEF In
  <2> QED BY <1>2, <2>2, <2>3
<1>7. \A n \in 2..Len(s) : In(s[n], p)
  BY <1>2 DEF In
<1>8. \A n \in 1..Len(s) : s[n] = Head(s) \/ In(s[n], p)
  BY <1>2, <1>7
<1>9. (\A n \in 1..Len(more) : In(more[n], p)) /\ In(Head(s), s) /\ (p # <<>> => In(Head(p), p))
  BY <1>2, <1>4 DEF In
<1> QED BY <1>2, <1>6, <1>8, <1>9 DEF s, p

\* A planned step stays planned until it is done.
Stays(o, q, do, i) == Has(o, do, i) => Has(q, do, i) \/ (Head(o.plan).do = do /\ Head(o.plan).arg = i)

\* The steps that a request still has after a push.
LEMMA HasPushed ==
  ASSUME NEW o, NEW q, NEW more, Pushes(o, q, more), OrderOK(o.plan)
  PROVE  \A do, i : Stays(o, q, do, i)
<1> SUFFICES ASSUME NEW do, NEW i, Has(o, do, i)
             PROVE  Has(q, do, i) \/ (Head(o.plan).do = do /\ Head(o.plan).arg = i)
  BY DEF Stays
<1>1. PICK n \in 1..Len(o.plan) : o.plan[n].do = do /\ o.plan[n].arg = i BY DEF Has
<1>2. o.plan[n] = Head(o.plan) \/ In(o.plan[n], q.plan) BY PushedSteps
<1> QED BY <1>1, <1>2 DEF Has, In

\* A planned step was planned before, unless it is new.
Came(o, q, more, do, i) ==
  Has(q, do, i) => Has(o, do, i) \/ \E n \in 1..Len(more) : more[n].do = do /\ more[n].arg = i

\* And those it had before.
LEMMA HasBefore ==
  ASSUME NEW o, NEW q, NEW more, Pushes(o, q, more), OrderOK(o.plan)
  PROVE  \A do, i : Came(o, q, more, do, i)
<1> SUFFICES ASSUME NEW do, NEW i, Has(q, do, i)
             PROVE  Has(o, do, i) \/ \E n \in 1..Len(more) : more[n].do = do /\ more[n].arg = i
  BY DEF Came
<1>1. PICK n \in 1..Len(q.plan) : q.plan[n].do = do /\ q.plan[n].arg = i BY DEF Has
<1>2. In(q.plan[n], more) \/ In(q.plan[n], o.plan) BY PushedSteps
<1> QED BY <1>1, <1>2 DEF Has, In

\* Nothing is left to do.
LEMMA Ended ==
  ASSUME NEW plan \in Seq(Steps), plan # <<>>, NEW more \in Seq(Steps), more \o Tail(plan) = <<>>
  PROVE  Len(plan) = 1 /\ Len(more) = 0
<1>1. PICK rest : rest = Tail(plan) OBVIOUS
<1>2. rest \in Seq(Steps) /\ Len(rest) = Len(plan) - 1 BY SMT, <1>1
<1>3. more \o rest = <<>> BY <1>1
<1>4. Len(more \o rest) = 0 BY SMT, <1>3
<1>5. Len(more \o rest) = Len(more) + Len(rest) BY SMT, <1>2
<1>6. Len(more) \in Nat /\ Len(rest) \in Nat /\ Len(plan) \in Nat BY SMT, <1>2
<1> QED BY SMT, <1>2, <1>4, <1>5, <1>6

\* The new plan is in order and its steps are.
LEMMA PlanPushed ==
  ASSUME NEW o, NEW q, NEW more, Pushes(o, q, more), PlanOK(o.plan)',
         \A n \in 1..Len(more) : StepOK(more[n])',
         OrderOK(more),
         \A n \in 1..Len(more) : \A t \in Steps : Ordered(Head(o.plan), t) => Ordered(more[n], t)
  PROVE  PlanOK(q.plan)'
<1> DEFINE s == o.plan
           p == q.plan
<1>1. s \in Seq(Steps) /\ s # <<>> /\ more \in Seq(Steps) /\ p = more \o Tail(s)
  BY Fields DEF Pushes
<1>0. OrderOK(s) /\ \A n \in 1..Len(s) : StepOK(s[n])'
  BY DEF PlanOK, OrderOK
<1>s. \A n \in 1..Len(p) : StepOK(p[n])'
  <2>1. \A n \in 1..Len(p) : In(p[n], more) \/ In(p[n], s)
    BY <1>0, PushedSteps DEF s, p
  <2> QED BY <1>0, <2>1 DEF In
<1> HIDE DEF s, p
<1>p. Pushed(s, more, p) BY <1>1, Push
<1>2. /\ p \in Seq(Steps)
      /\ Len(more) \in Nat /\ Len(s) \in Nat /\ Len(s) >= 1
      /\ \A n \in 1..Len(p) : \/ n \in 1..Len(more) /\ p[n] = more[n]
                              \/ /\ n > Len(more) /\ (n - Len(more)) + 1 \in 2..Len(s)
                                 /\ p[n] = s[(n - Len(more)) + 1]
      /\ Head(s) = s[1]
  BY <1>p DEF Pushed
<1>o. ASSUME NEW m \in 1..Len(p), NEW n \in 1..Len(p), m < n
      PROVE  Ordered(p[m], p[n])
  <2>1. Len(p) \in Nat BY SMT, <1>2
  <2>2. CASE n \in 1..Len(more)
    <3>1. m \in 1..Len(more) /\ ~ (m > Len(more)) /\ ~ (n > Len(more)) BY SMT, <1>2, <1>o, <2>2
    <3> QED BY <1>2, <1>o, <3>1 DEF OrderOK
  <2>3. CASE n > Len(more) /\ (n - Len(more)) + 1 \in 2..Len(s) /\ p[n] = s[(n - Len(more)) + 1]
    <3>1. PICK b : b = (n - Len(more)) + 1 OBVIOUS
    <3>2. b \in 1..Len(s) /\ 1 < b /\ 1 \in 1..Len(s) /\ p[n] = s[b]
      BY SMT, <1>2, <2>3, <3>1
    <3>3. p[n] \in Steps BY SMT, <1>2
    <3>4. Ordered(Head(s), p[n]) BY <1>0, <1>2, <3>2 DEF OrderOK
    <3>5. CASE m \in 1..Len(more) /\ p[m] = more[m]
      BY <3>3, <3>4, <3>5 DEF s
    <3>6. CASE m > Len(more) /\ (m - Len(more)) + 1 \in 2..Len(s) /\ p[m] = s[(m - Len(more)) + 1]
      <4>1. PICK a : a = (m - Len(more)) + 1 OBVIOUS
      <4>2. a \in 1..Len(s) /\ a < b /\ p[m] = s[a] BY SMT, <1>2, <1>o, <3>1, <3>6, <4>1
      <4> QED BY <1>0, <3>2, <4>2 DEF OrderOK
    <3> QED BY <1>2, <3>5, <3>6
  <2> QED BY <1>2, <2>2, <2>3
<1> QED BY <1>s, <1>o DEF PlanOK, p

\* A REMOVE keeps its kill until the file is removed, and the path of its handle.
LEMMA RemovePushed ==
  ASSUME NEW o, NEW q, NEW more, Pushes(o, q, more), OrderOK(o.plan), RemoveOK(o)',
         \A n \in 1..Len(more) : more[n].do \in Removing =>
           Head(o.plan).do \in Removing /\ more[n].arg = Head(o.plan).arg,
         \/ Head(o.plan).do \notin Finding /\ q.id = o.id
         \/ Head(o.plan).do \in Finding /\ q.id # Nil /\ pathOf'[q.id] = Head(o.plan).arg
         \/ HeadIn(q, Finding)
  PROVE  RemoveOK(q)'
<1> SUFFICES ASSUME NEW n \in 1..Len(q.plan), q.plan[n].do \in Removing
             PROVE  /\ Has(q, "kill", Nil)
                    /\ HeadIn(q, Finding) \/ (q.id # Nil /\ pathOf'[q.id] = q.plan[n].arg)
  BY DEF RemoveOK, Has, HeadIn
<1> DEFINE h == Head(o.plan)
<1>h. In(h, o.plan) /\ o.plan # <<>> BY PushedSteps DEF Pushes
<1> HIDE DEF h
<1>r. ASSUME NEW t, In(t, o.plan), t.do \in Removing
      PROVE  /\ Has(o, "kill", Nil)
             /\ h.do \in Finding \/ (o.id # Nil /\ pathOf'[o.id] = t.arg)
  <2>1. PICK m \in 1..Len(o.plan) : o.plan[m] = t BY <1>r DEF In
  <2> QED BY <1>r, <2>1 DEF RemoveOK, Has, HeadIn, h
<1>1. CASE In(q.plan[n], more)
  <2>1. h.do \in Removing /\ q.plan[n].arg = h.arg BY <1>1 DEF In, h
  <2>2. h.do \notin Finding /\ h.do # "kill" BY <2>1 DEF Finding, Removing
  <2>3. Has(q, "kill", Nil) BY <1>h, <1>r, <2>1, <2>2, HasPushed DEF h, Stays
  <2> QED BY <1>h, <1>r, <2>1, <2>2, <2>3 DEF h
<1>2. CASE In(q.plan[n], o.plan) /\ Ordered(h, q.plan[n])
  <2>1. h.do # "kill" BY <1>2 DEF Ordered, Removing, Finishing
  <2>2. Has(q, "kill", Nil) BY <1>r, <1>2, <2>1, HasPushed DEF h, Stays
  <2>3. h.do \in Finding => h.arg = q.plan[n].arg BY <1>2 DEF Ordered
  <2> QED BY <1>r, <1>2, <2>2, <2>3 DEF h
<1> QED BY <1>1, <1>2, PushedSteps DEF h

\* A RENAME keeps its second look for handles until the file is renamed.
LEMMA RenamePushed ==
  ASSUME NEW o, NEW q, NEW more, Pushes(o, q, more), OrderOK(o.plan), RenameOK(o), q.to = o.to,
         \A n \in 1..Len(more) : more[n].do \in {"rdrop", "rkill"} \cup Renaming =>
           Head(o.plan).do \in Renaming /\ more[n].arg = Head(o.plan).arg
  PROVE  RenameOK(q)
<1> SUFFICES ASSUME NEW n \in 1..Len(q.plan), q.plan[n].do \in {"rdrop", "rkill"} \cup Renaming
             PROVE  q.to # Nil /\ (q.plan[n].do \in Renaming => Has(q, "rkill", q.plan[n].arg))
  BY DEF RenameOK
<1> DEFINE h == Head(o.plan)
<1>h. In(h, o.plan) BY PushedSteps DEF Pushes
<1> HIDE DEF h
<1>r. ASSUME NEW t, In(t, o.plan), t.do \in {"rdrop", "rkill"} \cup Renaming
      PROVE  o.to # Nil /\ (t.do \in Renaming => Has(o, "rkill", t.arg))
  <2>1. PICK m \in 1..Len(o.plan) : o.plan[m] = t BY <1>r DEF In
  <2> QED BY <1>r, <2>1 DEF RenameOK
<1>1. CASE In(q.plan[n], more)
  <2>1. h.do \in Renaming /\ q.plan[n].arg = h.arg BY <1>1 DEF In, h
  <2>2. h.do # "rkill" BY <2>1 DEF Renaming
  <2>3. Stays(o, q, "rkill", h.arg) BY HasPushed
  <2> QED BY <1>h, <1>r, <2>1, <2>2, <2>3 DEF Stays, h
<1>2. CASE In(q.plan[n], o.plan) /\ Ordered(h, q.plan[n])
  <2>1. q.plan[n].do \in Renaming => h.do # "rkill"
    BY <1>2 DEF Ordered, Renaming, Finishing
  <2>2. PICK i : i = q.plan[n].arg OBVIOUS
  <2>3. Has(o, "rkill", i) => Has(q, "rkill", i) \/ h.do = "rkill" BY HasPushed DEF h, Stays
  <2> QED BY <1>r, <1>2, <2>1, <2>2, <2>3
<1> QED BY <1>1, <1>2, PushedSteps DEF h

\* The handle of a request that does not look for one now.
LEMMA IdPushed ==
  ASSUME NEW o, NEW q, NEW more, Pushes(o, q, more), OrderOK(o.plan), IdOK(o)',
         q.id = o.id, q.op = o.op,
         Head(o.plan).do \notin {"lookup", "check"} \cup Finding,
         Head(o.plan).do = "append" => Findable(Head(o.plan).arg)'
  PROVE  IdOK(q)'
<1>1. ASSUME q.id # Nil PROVE Minted(q.id)' /\ (Findable(q.id)' \/ Has(q, "append", q.id))
  <2>1. Minted(q.id)' /\ (Findable(q.id)' \/ Has(o, "append", q.id))
    BY <1>1 DEF IdOK, Has
  <2>2. PICK i : i = q.id OBVIOUS
  <2>3. Stays(o, q, "append", i) BY HasPushed
  <2> QED BY <2>1, <2>2, <2>3 DEF Stays
<1>2. ASSUME q.op \in {"lookup", "create"}, q.id = Nil
      PROVE  \E n \in 1..Len(q.plan) : q.plan[n].do \in {"lookup", "check"} \cup Finding
  <2>1. PICK n \in 1..Len(o.plan) : o.plan[n].do \in {"lookup", "check"} \cup Finding
    BY <1>2 DEF IdOK
  <2>2. In(o.plan[n], q.plan) BY <2>1, PushedSteps
  <2> QED BY <2>1, <2>2 DEF In
<1> QED BY <1>1, <1>2 DEF IdOK, Has

\* READ and WRITE alone serve.
LEMMA ServePushed ==
  ASSUME NEW o, NEW q, NEW more, Pushes(o, q, more), OrderOK(o.plan),
         \A n \in 1..Len(more) : more[n].do \notin Serving
  PROVE  ~ HeadIn(q, Serving) /\ ~ HeadIn(q, {"put", "use"}) /\ ServeOK(q)'
<1>1. ASSUME q.plan # <<>> PROVE Head(q.plan).do \notin Serving
  <2>1. In(Head(q.plan), more) \/ Ordered(Head(o.plan), Head(q.plan))
    <3>1. PICK n \in 1..Len(q.plan) : q.plan[n] = Head(q.plan) BY <1>1, PushedSteps DEF In
    <3> QED BY <3>1, PushedSteps
  <2> QED BY <2>1 DEF In, Ordered, Serving, Alone
<1>2. ~ HeadIn(q, Serving) /\ ~ HeadIn(q, {"put", "use"})
  BY <1>1 DEF HeadIn, Serving
<1> QED BY <1>2 DEF ServeOK, HeadIn

\* Once the backend has changed only the cleaning is left.
LEMMA GonePushed ==
  ASSUME NEW o, NEW q, NEW more, Pushes(o, q, more), OrderOK(o.plan), GoneOK(o),
         \/ q.gone \subseteq o.gone
         \/ Head(o.plan).do \in Removing \cup Renaming,
         q.gone # {} => \A n \in 1..Len(more) : more[n].do \in Cleaning
  PROVE  GoneOK(q)
<1> SUFFICES ASSUME q.gone # {}, NEW n \in 1..Len(q.plan)
             PROVE  q.plan[n].do \in Cleaning \cup {"rkill"}
  BY DEF GoneOK
<1>1. CASE In(q.plan[n], more)
  BY <1>1 DEF In
<1>2. CASE In(q.plan[n], o.plan) /\ Ordered(Head(o.plan), q.plan[n])
  <2>1. CASE q.gone \subseteq o.gone
    BY <1>2, <2>1 DEF In, GoneOK
  <2>2. CASE Head(o.plan).do \in Removing \cup Renaming
    BY <1>2, <2>2 DEF Ordered, Finishing, Cleaning
  <2> QED BY <2>1, <2>2
<1> QED BY <1>1, <1>2, PushedSteps

-----------------------------------------------------------------------------
(* The handle cache.                                                        *)

\* A nonempty set of numbers has a least one.
LEMMA LeastNat ==
  ASSUME NEW T, T \subseteq Nat, T # {}
  PROVE  \E x \in T : \A y \in T : x <= y
<1>1. PICK x \in T : \A y \in T : ~ (<<y, x>> \in OpToRel(<,Nat))
  BY WFMin, NatLessThanWellFounded
<1>2. \A y \in T : ~ (y < x)
  BY <1>1 DEF OpToRel
<1> QED BY SMT, <1>2

\* First finds a member of the set, if there is one.
LEMMA FirstIs ==
  ASSUME NEW seq \in Seq(Ids), NEW S, NEW k \in 1..Len(seq), seq[k] \in S
  PROVE  First(seq, S) \in 1..Len(seq) /\ seq[First(seq, S)] \in S
<1> DEFINE T == {n \in 1..Len(seq) : seq[n] \in S}
<1>1. T \subseteq Nat /\ T # {} BY SMT
<1>2. PICK x \in T : \A y \in T : x <= y BY <1>1, LeastNat
<1>3. x \in 1..Len(seq) /\ seq[x] \in S /\ \A m \in 1..(x - 1) : seq[m] \notin S
  BY SMT, <1>2
<1> HIDE DEF T
<1>4. \E n \in 1..Len(seq) : seq[n] \in S /\ \A m \in 1..(n - 1) : seq[m] \notin S
  BY <1>3
<1> QED BY <1>4 DEF First

\* Two parts of a list that leave out its n-th member, of numbers of members l, a and b.
Parts(l, n, a, b, ids, new) ==
  /\ l \in Nat /\ n \in 1..l /\ a = n - 1 /\ b = l - n
  /\ \A m \in 1..a : new[m] = ids[m]
  /\ \A m \in 1..b : new[m + a] = ids[n + m]
Others(l, n, ab, ids, new) ==
  /\ \A m \in 1..l : m # n => \E k \in 1..ab : new[k] = ids[m]
  /\ \A k \in 1..ab : \E m \in 1..l : new[k] = ids[m]

\* The other members are in the one or the other.
LEMMA Around ==
  ASSUME NEW l, NEW n, NEW a, NEW b, NEW ids, NEW new, Parts(l, n, a, b, ids, new)
  PROVE  Others(l, n, a + b, ids, new)
<1>1. \A m \in 1..a : new[m] = ids[m] BY DEF Parts
<1>2. ASSUME NEW m \in 1..b PROVE new[m + a] = ids[n + m] BY DEF Parts
<1>0. l \in Nat /\ n \in 1..l /\ a = n - 1 /\ b = l - n BY DEF Parts
<1>3. ASSUME NEW m \in 1..l, m # n
      PROVE  \/ m \in 1..a /\ m \in 1..(a + b)
             \/ m - n \in 1..b /\ (m - n) + a \in 1..(a + b) /\ n + (m - n) = m
  BY SMT, <1>0, <1>3
<1>4. ASSUME NEW k \in 1..(a + b)
      PROVE  \/ k \in 1..a /\ k \in 1..l
             \/ k - a \in 1..b /\ (k - a) + a = k /\ n + (k - a) \in 1..l
  BY SMT, <1>0
<1>5. ASSUME NEW m \in 1..l, m # n PROVE \E k \in 1..(a + b) : new[k] = ids[m]
  <2>1. CASE m \in 1..a /\ m \in 1..(a + b)
    BY <1>1, <2>1
  <2>2. CASE m - n \in 1..b /\ (m - n) + a \in 1..(a + b) /\ n + (m - n) = m
    <3>1. PICK j \in 1..b : j + a \in 1..(a + b) /\ n + j = m BY <2>2
    <3>2. new[j + a] = ids[m] BY <1>2, <3>1
    <3> QED BY <3>1, <3>2
  <2> QED BY <1>3, <1>5, <2>1, <2>2
<1>6. ASSUME NEW k \in 1..(a + b) PROVE \E m \in 1..l : new[k] = ids[m]
  <2>1. CASE k \in 1..a /\ k \in 1..l
    BY <1>1, <2>1
  <2>2. CASE k - a \in 1..b /\ (k - a) + a = k /\ n + (k - a) \in 1..l
    <3>1. PICK j \in 1..b : j + a = k /\ n + j \in 1..l BY <2>2
    <3>2. new[k] = ids[n + j] BY <1>2, <3>1
    <3> QED BY <3>1, <3>2
  <2> QED BY <1>4, <2>1, <2>2
<1> QED BY <1>5, <1>6 DEF Others

Shorter(ids, n, new) ==
  /\ new \in Seq(Ids)
  /\ \A m \in 1..Len(ids) : m # n => \E k \in 1..Len(new) : new[k] = ids[m]
  /\ \A k \in 1..Len(new) : \E m \in 1..Len(ids) : new[k] = ids[m]

\* A list without its n-th member.
LEMMA Without ==
  ASSUME NEW ids \in Seq(Ids), NEW n \in 1..Len(ids),
         NEW new, new = SubSeq(ids, 1, n - 1) \o SubSeq(ids, n + 1, Len(ids))
  PROVE  Shorter(ids, n, new)
<1> USE DEF Shorter
<1>1. PICK a : a = SubSeq(ids, 1, n - 1) OBVIOUS
<1>2. PICK b : b = SubSeq(ids, n + 1, Len(ids)) OBVIOUS
<1>3. a \in Seq(Ids) /\ Len(a) = n - 1 /\ \A m \in 1..Len(a) : a[m] = ids[m]
  BY SMT, <1>1
<1>4. b \in Seq(Ids) /\ Len(b) = Len(ids) - n /\ \A m \in 1..Len(b) : b[m] = ids[n + m]
  BY SMT, <1>2
<1>5. new = a \o b BY <1>1, <1>2
<1>6. Concat(Ids, a, b, new) BY <1>3, <1>4, <1>5, Joined
<1>7. Len(ids) \in Nat BY SMT
<1>8. Parts(Len(ids), n, Len(a), Len(b), ids, new)
  BY <1>3, <1>4, <1>6, <1>7 DEF Parts, Concat
<1>9. Others(Len(ids), n, Len(a) + Len(b), ids, new)
  BY <1>8, Around
<1> QED BY <1>6, <1>9 DEF Others, Concat

\* A handler is in order while the handles grow around it.
LEMMA HandlerKept ==
  ASSUME Grows, NEW r, HandlerOK(r)
  PROVE  HandlerOK(r)'
<1>1. ASSUME NEW s, StepOK(s) PROVE StepOK(s)'
  <2>1. s.do = "unmap" => Minted(s.arg) BY <1>1 DEF StepOK, Carries
  <2> QED BY <1>1, <2>1 DEF StepOK, Grows
<1>2. PlanOK(r.plan)' BY <1>1 DEF PlanOK, HandlerOK
<1>3. RemoveOK(r)'
  <2>1. r.id # Nil => pathOf'[r.id] = pathOf[r.id] BY DEF HandlerOK, IdOK, Grows
  <2> QED BY <2>1 DEF HandlerOK, RemoveOK, Has, HeadIn
<1>4. IdOK(r)' /\ ServeOK(r)' BY DEF HandlerOK, IdOK, ServeOK, Grows, Has, HeadIn
<1> QED BY <1>2, <1>3, <1>4 DEF HandlerOK, RenameOK, GoneOK, Has

\* Most steps leave the handles alone.
LEMMA SameMaps ==
  ASSUME UNCHANGED <<active, pathOf, reverse, dup>>
  PROVE  Grows
  BY DEF Grows, Minted, Findable, Listed

Same(r, q) ==
  /\ q.op = r.op /\ q.id = r.id /\ q.to = r.to /\ q.gen = r.gen /\ q.ino = r.ino /\ q.att = r.att
  /\ q.gone = r.gone /\ q.left = r.left

\* The reply, or the next step.
Replies(r, q, more) ==
  /\ q = NoReq /\ more \o Tail(r.plan) = <<>>
  /\ left' = left \cup r.gone
  /\ known' = IF r.op \in {"lookup", "create"} THEN known \cup {r.id} ELSE known
Continues(r, q, more) == Pushes(r, q, more) /\ q.plan # <<>> /\ Same(r, q) /\ UNCHANGED <<known, left>>

\* GoOn ends the request or goes on with the next step.
LEMMA GoOnStep ==
  ASSUME NEW c \in Conns, NEW r \in Handlers, r.plan # <<>>, NEW more \in Seq(Steps), GoOn(c, more, r)
  PROVE  \E q \in Handlers : Sets(c, q) /\ (Replies(r, q, more) \/ Continues(r, q, more))
<1>1. CASE more \o Tail(r.plan) = <<>>
  BY <1>1, Idle DEF GoOn, Sets, Replies
<1>2. CASE more \o Tail(r.plan) # <<>>
  <2>1. PICK p : p = more \o Tail(r.plan) OBVIOUS
  <2>2. p \in Seq(Steps)
    <3>1. r.plan \in Seq(Steps) BY Fields
    <3>2. Pushed(r.plan, more, p) BY <2>1, <3>1, Push
    <3> QED BY <3>2 DEF Pushed
  <2>3. PICK q : q = [r EXCEPT !.plan = p] OBVIOUS
  <2>4. q \in Handlers /\ q.plan = p /\ Same(r, q) BY <2>2, <2>3 DEF Handlers, Same
  <2>5. Sets(c, q) /\ UNCHANGED <<known, left>> BY <1>2, <2>1, <2>3 DEF GoOn, Sets
  <2> QED BY <1>2, <2>1, <2>4, <2>5 DEF Continues, Pushes
<1> QED BY <1>1, <1>2

\* What a step has to do with the head h that it follows.
Fit(h, s) ==
  /\ StepOK(s)'
  /\ \A t \in Steps : Ordered(h, t) => Ordered(s, t)
  /\ s.do \in Removing => h.do \in Removing /\ s.arg = h.arg
  /\ s.do \in {"rdrop", "rkill"} \cup Renaming => h.do \in Renaming /\ s.arg = h.arg
  /\ s.do \notin Serving
  /\ h.do \in Cleaning \cup {"rkill"} => s.do \in Cleaning
  /\ s.do = "kill" => s.arg # Nil
Fits(h, more) == (\A n \in 1..Len(more) : Fit(h, more[n])) /\ OrderOK(more)

\* The handler stays in order when steps that fit follow its head: in general, with its
\* handle found or its file gone,
LEMMA PushOK ==
  ASSUME NEW o, NEW q, NEW more, Pushes(o, q, more), HandlerOK(o)', Fits(Head(o.plan), more),
         \/ Head(o.plan).do \notin Finding /\ q.id = o.id
         \/ Head(o.plan).do \in Finding /\ q.id # Nil /\ pathOf'[q.id] = Head(o.plan).arg
         \/ HeadIn(q, Finding),
         IdOK(q)', q.to = o.to,
         q.gone \subseteq o.gone \/ (Head(o.plan).do \in Removing \cup Renaming /\ Len(more) = 0)
  PROVE  HandlerOK(q)'
<1> DEFINE h == Head(o.plan)
<1>1. PlanOK(o.plan)' /\ OrderOK(o.plan) /\ RemoveOK(o)' /\ RenameOK(o) /\ GoneOK(o)
  BY DEF HandlerOK, PlanOK, OrderOK, RenameOK, GoneOK, Has
<1>2. PlanOK(q.plan)'
  BY <1>1, PlanPushed DEF Fits, Fit
<1>3. RemoveOK(q)'
  <2>1. \A n \in 1..Len(more) : more[n].do \in Removing => h.do \in Removing /\ more[n].arg = h.arg
    BY DEF Fits, Fit
  <2> QED BY <1>1, <2>1, RemovePushed
<1>4. RenameOK(q)
  <2>1. \A n \in 1..Len(more) : more[n].do \in {"rdrop", "rkill"} \cup Renaming =>
          h.do \in Renaming /\ more[n].arg = h.arg
    BY DEF Fits, Fit
  <2> QED BY <1>1, <2>1, RenamePushed
<1>5. ServeOK(q)'
  <2>1. \A n \in 1..Len(more) : more[n].do \notin Serving BY DEF Fits, Fit
  <2> QED BY <1>1, <2>1, ServePushed
<1>6. GoneOK(q)
  <2>1. CASE q.gone \subseteq o.gone
    <3>1. ASSUME q.gone # {} PROVE \A n \in 1..Len(more) : more[n].do \in Cleaning
      <4>1. In(h, o.plan) BY <1>1, PushedSteps
      <4>2. h.do \in Cleaning \cup {"rkill"} BY <1>1, <2>1, <3>1, <4>1 DEF In, GoneOK
      <4> QED BY <4>2 DEF Fits, Fit
    <3> QED BY <1>1, <2>1, <3>1, GonePushed
  <2>2. CASE h.do \in Removing \cup Renaming /\ Len(more) = 0
    <3>1. \A n \in 1..Len(more) : FALSE BY SMT, <2>2
    <3> QED BY <1>1, <2>2, <3>1, GonePushed
  <2> QED BY <2>1, <2>2
<1> QED BY <1>2, <1>3, <1>4, <1>5, <1>6 DEF HandlerOK, RenameOK, GoneOK, Has

\* and when the handler only goes on.
LEMMA GoesOn ==
  ASSUME NEW o, NEW q, NEW more, Continues(o, q, more), HandlerOK(o)', Fits(Head(o.plan), more),
         Head(o.plan).do \in Finding => HeadIn(q, Finding),
         Head(o.plan).do \in {"lookup", "check"} \cup Finding =>
           \E n \in 1..Len(more) : more[n].do \in Finding,
         Head(o.plan).do = "append" => Findable(Head(o.plan).arg)'
  PROVE  HandlerOK(q)'
<1> DEFINE h == Head(o.plan)
<1>1. Pushes(o, q, more) /\ Same(o, q) BY DEF Continues
<1>2. OrderOK(o.plan) /\ IdOK(o)' BY DEF HandlerOK, PlanOK, OrderOK
<1>3. IdOK(q)'
  <2>1. CASE h.do \notin {"lookup", "check"} \cup Finding
    BY <1>1, <1>2, <2>1, IdPushed DEF Same
  <2>2. CASE h.do \in {"lookup", "check"} \cup Finding
    <3>1. PICK n \in 1..Len(more) : more[n].do \in Finding BY <2>2
    <3>2. In(more[n], q.plan) BY <1>1, <1>2, PushedSteps
    <3>3. \E m \in 1..Len(q.plan) : q.plan[m].do \in {"lookup", "check"} \cup Finding
      BY <3>1, <3>2 DEF In
    <3>4. q.id # Nil => Minted(q.id)' /\ (Findable(q.id)' \/ Has(q, "append", q.id))
      <4>1. PICK i : i = q.id OBVIOUS
      <4>2. i # Nil => Minted(i)' /\ (Findable(i)' \/ Has(o, "append", i))
        BY <1>1, <1>2, <4>1 DEF Same, IdOK, Has
      <4>3. Stays(o, q, "append", i) BY <1>1, <1>2, HasPushed
      <4> QED BY <2>2, <4>1, <4>2, <4>3 DEF Stays, Finding
    <3> QED BY <3>3, <3>4 DEF IdOK, Has
  <2> QED BY <2>1, <2>2
<1>4. \/ h.do \notin Finding /\ q.id = o.id
      \/ HeadIn(q, Finding)
  BY <1>1 DEF Same
<1>5. q.to = o.to /\ q.gone \subseteq o.gone BY <1>1 DEF Same
<1> QED BY <1>1, <1>3, <1>4, <1>5, PushOK

\* An id gets its entry in the reverse map.
LEMMA AppendsPushed ==
  ASSUME NEW o, NEW q, NEW more, Pushes(o, q, more), OrderOK(o.plan),
         Head(o.plan).do = "append" => Findable(Head(o.plan).arg)'
  PROVE  AppendsStay(o, q)
<1>1. \A i : Stays(o, q, "append", i) BY HasPushed
<1> QED BY <1>1 DEF AppendsStay, Stays

\* They stay when the handler goes on.
LEMMA ContinuesQuiet ==
  ASSUME NEW o, NEW q, NEW more, Continues(o, q, more), OrderOK(o.plan), Fits(Head(o.plan), more)
  PROVE  /\ Head(o.plan).do # "drop" => DropsStay(o, q)
         /\ KillOld(o, q) /\ NotServing(q) /\ q.left = o.left
         /\ Head(o.plan).do \notin {"kill", "rkill"} => KillsStay(o, q)
<1> DEFINE h == Head(o.plan)
<1>1. Pushes(o, q, more) /\ Same(o, q) BY DEF Continues
<1>2. ASSUME h.do # "drop", NEW t \in Conns, NEW i \in Ids, Dropping(o, t, i) PROVE Dropping(q, t, i)
  <2>1. PICK n \in 1..Len(o.plan) : o.plan[n].do = "drop" /\ o.plan[n].arg = i /\ t \in o.plan[n].todo
    BY <1>2 DEF Dropping
  <2>2. In(o.plan[n], q.plan) BY <1>1, <1>2, <2>1, PushedSteps
  <2> QED BY <2>1, <2>2 DEF Dropping, In
<1>3. KillOld(o, q)
  <2>1. ASSUME Has(q, "kill", Nil) PROVE Has(o, "kill", Nil)
    <3>1. Came(o, q, more, "kill", Nil) BY <1>1, HasBefore
    <3> QED BY <2>1, <3>1 DEF Came, Fits, Fit
  <2> QED BY <1>1, <2>1 DEF KillOld, Same
<1>4. NotServing(q)
  <2>1. \A n \in 1..Len(more) : more[n].do \notin Serving BY DEF Fits, Fit
  <2> QED BY <1>1, <2>1, ServePushed DEF NotServing
<1>5. ASSUME h.do \notin {"kill", "rkill"}, NEW i, NEW p, Killing(o, i, p) PROVE Killing(q, i, p)
  <2>1. Stays(o, q, "kill", i) /\ Stays(o, q, "kill", Nil) BY <1>1, HasPushed
  <2>2. CASE Has(o, "kill", i) \/ (Has(o, "kill", Nil) /\ o.id = i)
    BY <1>1, <1>5, <2>1, <2>2 DEF Stays, Killing, Same
  <2>3. CASE \E n \in 1..Len(o.plan) : o.plan[n].do = "rkill" /\ p \in {o.plan[n].arg, o.to}
    <3>1. PICK n \in 1..Len(o.plan) : o.plan[n].do = "rkill" /\ p \in {o.plan[n].arg, o.to}
      BY <2>3
    <3>2. In(o.plan[n], q.plan) BY <1>1, <1>5, <3>1, PushedSteps
    <3>3. q.to = o.to BY <1>1 DEF Same
    <3> QED BY <3>1, <3>2, <3>3 DEF In, Killing
  <2> QED BY <1>5, <2>2, <2>3 DEF Killing
<1> QED BY <1>1, <1>2, <1>3, <1>4, <1>5 DEF DropsStay, KillsStay, Same

\* A connection without a request has nothing planned.
LEMMA IdleQuiet ==
  /\ HandlerOK(NoReq)' /\ NotServing(NoReq) /\ ~ Has(NoReq, "kill", Nil)
  /\ \A o : KillOld(o, NoReq) /\ KillsStay(o, NoReq)
<1>1. \A n \in 1..Len(NoReq.plan) : FALSE BY SMT, Idle
<1>2. ~ HeadIn(NoReq, Serving) /\ ~ HeadIn(NoReq, {"put", "use"}) BY Idle DEF HeadIn
<1>3. NoReq.op \notin {"lookup", "create"} BY Idle, LifeAssumption DEF Requests
<1>4. HandlerOK(NoReq)'
  <2>1. PlanOK(NoReq.plan)' BY <1>1 DEF PlanOK
  <2>2. RemoveOK(NoReq)' /\ RenameOK(NoReq)' /\ GoneOK(NoReq)'
    BY <1>1 DEF RemoveOK, RenameOK, GoneOK
  <2>3. IdOK(NoReq)' BY <1>3, Idle DEF IdOK
  <2>4. ServeOK(NoReq)' BY <1>2 DEF ServeOK, HeadIn
  <2> QED BY <2>1, <2>2, <2>3, <2>4 DEF HandlerOK
<1>5. ~ Has(NoReq, "kill", Nil) BY <1>1 DEF Has
<1> QED BY <1>2, <1>4, <1>5, Idle DEF NotServing, KillOld, KillsStay

\* A request that fails leaves nothing undone: no step that can fail comes before one
\* that cleans up.
LEMMA FailQuiet ==
  ASSUME NEW o, o \in Handlers, o.plan # <<>>, OrderOK(o.plan), Head(o.plan).do \notin Cleaning
  PROVE  DropsStay(o, NoReq) /\ AppendsStay(o, NoReq)
<1>1. ASSUME NEW n \in 1..Len(o.plan), Carries(o.plan[n]) PROVE FALSE
  <2>1. o.plan \in Seq(Steps) BY Fields
  <2>2. Head(o.plan) = o.plan[1] /\ 1 \in 1..Len(o.plan) /\ (n = 1 \/ 1 < n) BY SMT, <2>1
  <2>3. CASE n = 1 BY <1>1, <2>2, <2>3 DEF Cleaning, Carries
  <2>4. CASE 1 < n
    <3>1. Ordered(Head(o.plan), o.plan[n]) BY <2>2, <2>4 DEF OrderOK
    <3> QED BY <1>1, <3>1 DEF Ordered
  <2> QED BY <2>2, <2>3, <2>4
<1>2. \A i \in Ids : i # Nil BY LifeAssumption
<1>3. DropsStay(o, NoReq) BY <1>1, <1>2 DEF DropsStay, Dropping, Carries
<1>4. AppendsStay(o, NoReq) BY <1>1 DEF AppendsStay, Has, Carries
<1> QED BY <1>3, <1>4

\* The last step of a request: what it had planned is done.
LEMMA RepliesQuiet ==
  ASSUME NEW o, o \in Handlers, NEW more, more \in Seq(Steps), o.plan # <<>>,
         NEW q, Replies(o, q, more), HandlerOK(o)',
         Head(o.plan).do \notin {"lookup", "check"} \cup Finding,
         Head(o.plan).do = "append" => Findable(Head(o.plan).arg)'
  PROVE  /\ Head(o.plan).do # "drop" => DropsStay(o, q)
         /\ Head(o.plan).do \notin {"kill", "rkill"} => LeftOK(o)
         /\ KnownOK /\ AppendsStay(o, q)
<1> DEFINE h == Head(o.plan)
<1>1. o.plan \in Seq(Steps) BY Fields
<1>2. more \o Tail(o.plan) = <<>> BY DEF Replies
<1>3. Head(o.plan) = o.plan[1] /\ \A n \in 1..Len(o.plan) : n = 1
  <2>2. Len(o.plan) = 1 BY <1>1, <1>2, Ended
  <2> QED BY SMT, <1>1, <2>2
<1>4. \A n \in 1..Len(o.plan) : o.plan[n] = h BY <1>3
<1> HIDE DEF h
<1>5. ASSUME NEW do, NEW i, Has(o, do, i) PROVE h.do = do /\ h.arg = i
  BY <1>4, <1>5 DEF Has
<1>6. h.do # "drop" => DropsStay(o, q)
  BY <1>4 DEF DropsStay, Dropping
<1>7. h.do \notin {"kill", "rkill"} => LeftOK(o)
  BY <1>4, <1>5 DEF LeftOK, Killing, Replies
<1>8. KnownOK
  <2>1. CASE o.op \in {"lookup", "create"}
    <3>1. o.id # Nil BY <1>4, <2>1 DEF HandlerOK, IdOK, h
    <3>2. Findable(o.id)' \/ Has(o, "append", o.id) BY <3>1 DEF HandlerOK, IdOK, Has
    <3>3. Findable(o.id)' BY <1>5, <3>2 DEF h
    <3> QED BY <2>1, <3>3 DEF KnownOK, Replies
  <2>2. CASE o.op \notin {"lookup", "create"}
    BY <2>2 DEF KnownOK, Replies
  <2> QED BY <2>1, <2>2
<1>9. AppendsStay(o, q) BY <1>5 DEF AppendsStay, h
<1> QED BY <1>6, <1>7, <1>8, <1>9 DEF h

\* GoOn is one, if the steps fit.
LEMMA GoOnPlain ==
  ASSUME NEW c \in Conns, NEW o \in Handlers, o.plan # <<>>, NEW more \in Seq(Steps), GoOn(c, more, o),
         HandlerOK(o)', Fits(Head(o.plan), more),
         Head(o.plan).do \in Finding => 1 \in 1..Len(more) /\ more[1].do \in Finding,
         Head(o.plan).do \in {"lookup", "check"} => \E n \in 1..Len(more) : more[n].do \in Finding,
         Head(o.plan).do = "append" => Findable(Head(o.plan).arg)'
  PROVE  \E q \in Handlers : Plain(c, o, q) /\ (Replies(o, q, more) \/ Continues(o, q, more))
<1>1. PICK q \in Handlers : Sets(c, q) /\ (Replies(o, q, more) \/ Continues(o, q, more))
  BY GoOnStep
<1>2. OrderOK(o.plan) BY DEF HandlerOK, PlanOK, OrderOK
<1>3. o.plan \in Seq(Steps) BY Fields
<1>4. CASE Continues(o, q, more)
  <2>1. HeadIn(q, Finding) \/ Head(o.plan).do \notin Finding
    <3>1. Pushed(o.plan, more, q.plan) BY <1>3, <1>4, Push DEF Continues, Pushes
    <3> QED BY <1>4, <3>1 DEF Pushed, HeadIn, Continues
  <2>2. HandlerOK(q)' BY <1>4, <2>1, GoesOn
  <2>3. KnownOK /\ LeftOK(o) BY <1>4 DEF Continues, KnownOK, LeftOK
  <2>4. /\ Head(o.plan).do # "drop" => DropsStay(o, q)
        /\ KillOld(o, q) /\ NotServing(q) /\ q.left = o.left
        /\ Head(o.plan).do \notin {"kill", "rkill"} => KillsStay(o, q)
    BY <1>2, <1>4, ContinuesQuiet
  <2>5. AppendsStay(o, q) BY <1>2, <1>4, AppendsPushed DEF Continues
  <2> QED BY <1>1, <1>4, <2>2, <2>3, <2>4, <2>5 DEF Plain
<1>5. CASE Replies(o, q, more)
  <2>1. q = NoReq BY <1>5 DEF Replies
  <2>2. Head(o.plan).do \notin {"lookup", "check"} \cup Finding
    <3>1. Len(more) = 0 BY <1>3, <1>5, Ended DEF Replies
    <3>2. ~ \E n \in 1..Len(more) : TRUE BY SMT, <3>1
    <3> QED BY <3>2
  <2>3. /\ Head(o.plan).do # "drop" => DropsStay(o, q)
        /\ Head(o.plan).do \notin {"kill", "rkill"} => LeftOK(o)
        /\ KnownOK /\ AppendsStay(o, q)
    BY <1>5, <2>2, RepliesQuiet
  <2> QED BY <1>1, <1>5, <2>1, <2>3, IdleQuiet, Idle DEF Plain
<1> QED BY <1>1, <1>4, <1>5

\* A request that fails.
LEMMA FailPlain ==
  ASSUME NEW c \in Conns, NEW o \in Handlers, o.plan # <<>>, Fail(c), HandlerOK(o)',
         Head(o.plan).do \notin Cleaning \cup {"rkill"}
  PROVE  Plain(c, o, NoReq) /\ NoReq \in Handlers /\ UNCHANGED <<known, left>>
<1>1. OrderOK(o.plan) BY DEF HandlerOK, PlanOK, OrderOK
<1>2. Sets(c, NoReq) /\ KnownOK /\ LeftOK(o) /\ UNCHANGED <<known, left>>
  BY DEF Fail, Sets, KnownOK, LeftOK
<1>3. DropsStay(o, NoReq) /\ AppendsStay(o, NoReq) BY <1>1, FailQuiet
<1> QED BY <1>2, <1>3, IdleQuiet, Idle DEF Plain

-----------------------------------------------------------------------------
(* The steps one by one.                                                    *)

\* The head of a plan.
LEMMA AtHead ==
  ASSUME IInv, NEW c \in Conns, NEW o, o = req[c], o.plan # <<>>
  PROVE  /\ o \in Handlers /\ HandlerOK(o) /\ OrderOK(o.plan)
         /\ Head(o.plan) \in Steps /\ StepOK(Head(o.plan))
<1>1. o \in Handlers /\ HandlerOK(o) BY DEF IInv, TypeOK
<1>2. OrderOK(o.plan) BY <1>1 DEF HandlerOK, PlanOK, OrderOK
<1>3. o.plan \in Seq(Steps) BY <1>1, Fields
<1>4. Head(o.plan) = o.plan[1] /\ 1 \in 1..Len(o.plan) /\ o.plan[1] \in Steps BY SMT, <1>3
<1> QED BY <1>1, <1>2, <1>4 DEF HandlerOK, PlanOK

\* Short plans.
LEMMA Short ==
  /\ <<>> \in Seq(Steps) /\ \A h : Fits(h, <<>>)
  /\ \A s \in Steps : /\ <<s>> \in Seq(Steps) /\ 1 \in 1..Len(<<s>>) /\ <<s>>[1] = s
                      /\ \A h : Fit(h, s) => Fits(h, <<s>>)
  /\ \A s, t \in Steps : /\ <<s, t>> \in Seq(Steps)
                         /\ \A h : Fit(h, s) /\ Fit(h, t) /\ Ordered(s, t) => Fits(h, <<s, t>>)
<1>1. <<>> \in Seq(Steps) /\ \A n \in 1..Len(<<>>) : FALSE BY SMT
<1>2. ASSUME NEW s \in Steps
      PROVE  /\ <<s>> \in Seq(Steps) /\ 1 \in 1..Len(<<s>>) /\ <<s>>[1] = s
             /\ \A n \in 1..Len(<<s>>) : n = 1
             /\ \A m, n \in 1..Len(<<s>>) : ~ (m < n)
  BY SMT
<1>3. ASSUME NEW s \in Steps, NEW t \in Steps
      PROVE  /\ <<s, t>> \in Seq(Steps) /\ <<s, t>>[1] = s /\ <<s, t>>[2] = t
             /\ \A n \in 1..Len(<<s, t>>) : n = 1 \/ n = 2
             /\ \A m, n \in 1..Len(<<s, t>>) : m < n => m = 1 /\ n = 2
  BY SMT
<1>4. \A h : Fits(h, <<>>) BY <1>1 DEF Fits, OrderOK
<1>5. \A s \in Steps : \A h : Fit(h, s) => Fits(h, <<s>>) BY <1>2 DEF Fits, OrderOK
<1>6. ASSUME NEW s \in Steps, NEW t \in Steps, NEW h, Fit(h, s), Fit(h, t), Ordered(s, t)
      PROVE  Fits(h, <<s, t>>)
  <2>1. PICK p : p = <<s, t>> OBVIOUS
  <2>2. /\ p[1] = s /\ p[2] = t /\ \A n \in 1..Len(p) : n = 1 \/ n = 2
        /\ \A m, n \in 1..Len(p) : m < n => m = 1 /\ n = 2
    BY <1>3, <2>1
  <2>3. Fits(h, p) BY <1>6, <2>2 DEF Fits, OrderOK
  <2> QED BY <2>1, <2>3
<1> QED BY <1>1, <1>2, <1>3, <1>4, <1>5, <1>6

\* Plans whose steps may come in any order.
AnyOrder(h, more, E) ==
  /\ \A n \in 1..Len(more) : more[n] \in E
  /\ \A s \in E : Fit(h, s)
  /\ \A s, t \in E : Ordered(s, t)

\* They fit if each of them does.
LEMMA FitsAll ==
  ASSUME NEW h, NEW more, NEW E, AnyOrder(h, more, E)
  PROVE  Fits(h, more)
  BY DEF Fits, OrderOK, AnyOrder

Cleans(s) ==
  /\ s.do \in {"unmap", "drop", "append"}
  /\ Carries(s) => Minted(s.arg)'
  /\ s.do = "unmap" => s.arg \notin active'

\* Cleaning fits everywhere,
LEMMA FitClean ==
  ASSUME NEW s, Cleans(s)
  PROVE  \A h : Fit(h, s)
<1> USE DEF Cleans
<1>1. StepOK(s)' BY DEF StepOK, Carries, OnPath, Serving
<1>2. \A h, t : Ordered(h, t) => Ordered(s, t)
  BY DEF Ordered, Alone, Removing, Renaming, Finding, Cleaning
<1> QED BY <1>1, <1>2 DEF Fit, Removing, Renaming, Serving, Cleaning

\* and an invalidation after another one.
LEMMA FitKill ==
  ASSUME NEW s, s.do = "kill", s.arg # Nil, Minted(s.arg)', NEW h, h.do = "rkill"
  PROVE  Fit(h, s)
<1>1. StepOK(s)' BY DEF StepOK, Carries, OnPath, Serving
<1>2. \A t : Ordered(h, t) => Ordered(s, t)
  BY DEF Ordered, Alone, Removing, Renaming, Finding, Cleaning
<1> QED BY <1>1, <1>2 DEF Fit, Removing, Renaming, Serving, Cleaning

\* New steps.
IsStep(s, do, arg) == s \in Steps /\ s = Step(do, arg) /\ s.do = do /\ s.arg = arg

\* There are all that are needed.
LEMMA MakeStep ==
  ASSUME NEW do \in Labels
  PROVE  /\ \A p \in Paths : \E s : IsStep(s, do, p)
         /\ \A i \in Ids : \E s : IsStep(s, do, i)
         /\ \E s : IsStep(s, do, Nil)
<1>1. \A arg \in Paths \cup Ids \cup {Nil} : IsStep(Step(do, arg), do, arg)
  BY DEF IsStep, Step, Steps
<1> QED BY <1>1

\* A drop has all connections before it.
LEMMA MakeDrop ==
  /\ \A i \in Ids : \E s : IsStep(s, "drop", i) /\ s = Drop(i) /\ s.todo = Conns
  /\ \E s : IsStep(s, "drop", Nil) /\ s = Drop(Nil) /\ s.todo = Conns
<1>1. "drop" \in Labels BY DEF Labels
<1>2. (\A i \in Ids : \E s : IsStep(s, "drop", i)) /\ \E s : IsStep(s, "drop", Nil) BY <1>1, MakeStep
<1>3. \A i, s : IsStep(s, "drop", i) => s = Drop(i) /\ s.todo = Conns
  <2>1. \A i : Drop(i).todo = Conns /\ Drop(i) = Step("drop", i) BY SMT DEF Drop, Step
  <2> QED BY <2>1 DEF IsStep
<1> QED BY <1>2, <1>3

\* The request o of connection c is at a step.
Acting(c, o, do) ==
  /\ o = req[c] /\ o \in Handlers /\ HandlerOK(o) /\ OrderOK(o.plan) /\ o.plan # <<>>
  /\ Head(o.plan) \in Steps /\ StepOK(Head(o.plan))
  /\ Head(o.plan).do = do /\ Arg(c) = Head(o.plan).arg

\* Which is so whenever an action of it is enabled.
LEMMA Act ==
  ASSUME IInv, NEW c \in Conns, NEW do, At(c, do)
  PROVE  \E o : Acting(c, o, do)
<1>1. PICK o : o = req[c] OBVIOUS
<1>2. o.plan # <<>> /\ Head(o.plan).do = do /\ Arg(c) = Head(o.plan).arg BY <1>1 DEF At, Arg
<1> QED BY <1>1, <1>2, AtHead DEF Acting

\* The request goes on with steps that fit.
Advances(c, o, do, more) ==
  /\ Acting(c, o, do) /\ Grows
  /\ more \in Seq(Steps) /\ Fits(Head(o.plan), more) /\ GoOn(c, more, o)
  /\ do \in Finding => 1 \in 1..Len(more) /\ more[1].do \in Finding
  /\ do \in {"lookup", "check"} => \E n \in 1..Len(more) : more[n].do \in Finding
  /\ do = "append" => Findable(Head(o.plan).arg)'

\* Its handler then is as it should be.
LEMMA Onward ==
  ASSUME NEW c \in Conns, NEW o, NEW do, NEW more, Advances(c, o, do, more)
  PROVE  \E q \in Handlers : Plain(c, o, q) /\ (Replies(o, q, more) \/ Continues(o, q, more))
<1>1. HandlerOK(o)' BY HandlerKept DEF Acting, Advances
<1>2. Head(o.plan).do = do /\ o \in Handlers /\ o.plan # <<>> BY DEF Advances, Acting
<1> QED BY <1>1, <1>2, GoOnPlain DEF Advances

\* Or fails.
LEMMA Failing ==
  ASSUME NEW c \in Conns, NEW o, NEW do, Acting(c, o, do), Grows, Fail(c),
         do \notin Cleaning \cup {"rkill"}
  PROVE  \E q \in Handlers : Plain(c, o, q)
<1>1. HandlerOK(o)' BY HandlerKept DEF Acting
<1> QED BY <1>1, FailPlain DEF Acting

\* onLookup goes on to ToHandle, or fails.
LEMMA LookupStatStep ==
  ASSUME IInv, NEW c \in Conns, LookupStat(c)
  PROVE  Calm(c)
<1>1. PICK o : Acting(c, o, "lookup") BY Act DEF LookupStat
<1>2. Grows BY SameMaps DEF LookupStat, mapVars
<1>3. PICK p \in Paths : p = Arg(c) BY <1>1 DEF Acting, StepOK, OnPath
<1>4. "find" \in Labels BY DEF Labels
<1>5. PICK s : IsStep(s, "find", p) BY <1>4, MakeStep
<1>6. Fit(Head(o.plan), s)
  <2>1. StepOK(s)' BY <1>5 DEF IsStep, StepOK, Carries, OnPath, Serving
  <2>2. \A t : ~ Ordered(Head(o.plan), t) BY <1>1 DEF Ordered, Alone, Acting
  <2> QED BY <1>1, <1>5, <2>1, <2>2 DEF IsStep, Fit, Acting, Removing, Renaming, Serving, Cleaning
<1>7. CASE GoOn(c, <<s>>, o)
  <2>1. <<s>> \in Seq(Steps) /\ 1 \in 1..Len(<<s>>) /\ <<s>>[1].do = "find" /\ Fits(Head(o.plan), <<s>>)
    BY <1>5, <1>6, Short DEF IsStep
  <2>2. PICK more \in Seq(Steps) : more = <<s>> BY <2>1
  <2>3. Advances(c, o, "lookup", more) BY <1>1, <1>2, <1>7, <2>1, <2>2 DEF Finding, Advances
  <2> QED BY <1>1, <1>2, <2>3, Onward DEF Calm, Acting
<1>8. CASE Fail(c)
  BY <1>1, <1>2, <1>8, Failing DEF Cleaning, Calm, Acting
<1> QED BY <1>1, <1>3, <1>5, <1>7, <1>8 DEF LookupStat, Acting, IsStep

\* searchReverseCache finds an id of the path that resolves, if one is listed.
LEMMA CachedIs ==
  ASSUME IInv, NEW p \in Paths
  PROVE  /\ Cached(p) = Nil => \A n \in 1..Len(reverse[p]) : reverse[p][n] \notin active
         /\ Cached(p) # Nil => /\ Cached(p) \in Ids /\ Cached(p) \in active
                               /\ pathOf[Cached(p)] = p /\ Findable(Cached(p))
<1>1. reverse[p] \in Seq(Ids) BY DEF IInv, TypeOK
<1>2. CASE \E n \in 1..Len(reverse[p]) : reverse[p][n] \in active
  <2>1. PICK k \in 1..Len(reverse[p]) : reverse[p][k] \in active BY <1>2
  <2>2. PICK n : n = First(reverse[p], active) OBVIOUS
  <2>3. n \in 1..Len(reverse[p]) /\ reverse[p][n] \in active BY <1>1, <2>1, <2>2, FirstIs
  <2>4. Cached(p) = reverse[p][n] BY <1>2, <2>2 DEF Cached
  <2>5. pathOf[reverse[p][n]] = p /\ reverse[p][n] \in Ids
    BY <2>3 DEF IInv, MapInv, TypeOK
  <2>6. p # Nil BY LifeAssumption
  <2>7. reverse[p][n] # Nil BY <2>5, LifeAssumption
  <2> QED BY <2>3, <2>4, <2>5, <2>6, <2>7 DEF Findable, Minted, Listed
<1>3. CASE ~ \E n \in 1..Len(reverse[p]) : reverse[p][n] \in active
  BY <1>3 DEF Cached
<1> QED BY <1>2, <1>3

\* The id that alone stands for its path is found by it.
LEMMA SoleCached ==
  ASSUME IInv, NEW i \in Ids, Sole(i), Findable(i)
  PROVE  pathOf[i] \in Paths /\ Cached(pathOf[i]) = i
<1>1. PICK p \in Paths : p = pathOf[i] BY DEF IInv, TypeOK, Findable, Minted
<1>2. \E n \in 1..Len(reverse[p]) : reverse[p][n] = i
  BY <1>1 DEF Findable, Listed, Sole
<1>3. Cached(p) # Nil BY <1>2, CachedIs DEF Sole
<1>4. Cached(p) \in Ids /\ Cached(p) \in active /\ pathOf[Cached(p)] = p BY <1>3, CachedIs
<1> QED BY <1>1, <1>4 DEF IInv, SoleInv

\* A plan of which nothing is left.
LEMMA DoneQuiet ==
  ASSUME NEW o, o \in Handlers, NEW more \in Seq(Steps), o.plan # <<>>, more \o Tail(o.plan) = <<>>
  PROVE  /\ Head(o.plan).do # "drop" => DropsStay(o, NoReq)
         /\ Head(o.plan).do \notin {"kill", "rkill"} => \A i, p : ~ Killing(o, i, p)
         /\ Head(o.plan).do # "append" => AppendsStay(o, NoReq)
<1> DEFINE h == Head(o.plan)
<1>1. o.plan \in Seq(Steps) BY Fields
<1>2. Len(o.plan) = 1 BY <1>1, Ended
<1>3. Head(o.plan) = o.plan[1] /\ \A n \in 1..Len(o.plan) : n = 1 BY SMT, <1>1, <1>2
<1>4. \A n \in 1..Len(o.plan) : o.plan[n] = h BY <1>3
<1> HIDE DEF h
<1>5. h.do # "drop" => DropsStay(o, NoReq) BY <1>4 DEF DropsStay, Dropping
<1>6. h.do \notin {"kill", "rkill"} => \A i, p : ~ Killing(o, i, p)
  BY <1>4 DEF Killing, Has
<1>7. h.do # "append" => AppendsStay(o, NoReq) BY <1>4 DEF AppendsStay, Has
<1> QED BY <1>5, <1>6, <1>7 DEF h

\* The request goes on with the handle i.
Finds(c, o, do, i, more) ==
  /\ Acting(c, o, do) /\ Grows /\ do \in Finding
  /\ i \in Ids /\ Minted(i)' /\ pathOf'[i] = Head(o.plan).arg /\ o.gone = {}
  /\ more \in Seq(Steps) /\ Fits(Head(o.plan), more) /\ GoOn(c, more, [o EXCEPT !.id = i])
  /\ Findable(i)' \/ \E n \in 1..Len(more) : more[n].do = "append" /\ more[n].arg = i

Found(c, o, q, i, more) ==
  Goes(c, o, q) /\ ((q = NoReq /\ Len(more) = 0) \/ (q.id = i /\ Pushes(o, q, more)))

\* Its handler then is as it should be.
LEMMA FoundStep ==
  ASSUME NEW c \in Conns, NEW o, NEW do, NEW i, NEW more, Finds(c, o, do, i, more)
  PROVE  \E q \in Handlers : Found(c, o, q, i, more)
<1> USE DEF Finds, Found
<1>0. HandlerOK(o)' /\ o \in Handlers /\ o.plan # <<>> /\ OrderOK(o.plan) /\ Head(o.plan).do = do
  BY HandlerKept DEF Acting
<1>1. PICK r : r = [o EXCEPT !.id = i] OBVIOUS
<1>2. /\ r \in Handlers /\ r.id = i /\ r.op = o.op /\ r.plan = o.plan /\ r.to = o.to
      /\ r.gone = o.gone /\ r.left = o.left
  BY <1>0, <1>1 DEF Handlers
<1>3. i # Nil BY LifeAssumption
<1>4. PICK q \in Handlers : Sets(c, q) /\ (Replies(r, q, more) \/ Continues(r, q, more))
  BY <1>0, <1>1, <1>2, GoOnStep
<1>5. do \notin {"drop", "kill", "rkill", "append"} BY DEF Finding
<1>6. CASE Replies(r, q, more)
  <2>1. more \o Tail(o.plan) = <<>> /\ q = NoReq BY <1>2, <1>6 DEF Replies
  <2>2. DropsStay(o, NoReq) /\ AppendsStay(o, NoReq) /\ \A j, p : ~ Killing(o, j, p) BY <1>0, <1>5, <2>1, DoneQuiet
  <2>3. LeftOK(o) BY <1>2, <1>6, <2>2 DEF LeftOK, Replies
  <2>6. Len(more) = 0
    <3>1. o.plan \in Seq(Steps) BY <1>0, Fields
    <3> QED BY <1>0, <2>1, <3>1, Ended
  <2>4. \A n \in 1..Len(more) : FALSE BY SMT, <2>6
  <2>5. KnownOK BY <1>2, <1>6, <2>4 DEF KnownOK, Replies
  <2> QED BY <1>4, <2>1, <2>2, <2>3, <2>5, <2>6, IdleQuiet, Idle DEF Goes
<1>7. CASE Continues(r, q, more)
  <2>1. Pushes(o, q, more) BY <1>0, <1>2, <1>7 DEF Continues, Pushes
  <2>2. q.id = i /\ q.op = o.op /\ q.to = o.to /\ q.gone = o.gone /\ q.left = o.left
    BY <1>2, <1>7 DEF Continues, Same
  <2>3. IdOK(q)'
    <3>1. Findable(i)' \/ Has(q, "append", i)
      <4>1. \A n \in 1..Len(more) : In(more[n], q.plan) BY <1>0, <2>1, PushedSteps
      <4> QED BY <4>1 DEF In, Has
    <3> QED BY <1>3, <2>2, <3>1 DEF IdOK, Has
  <2>4. HandlerOK(q)'
    <3>1. Head(o.plan).do \in Finding /\ q.id # Nil /\ pathOf'[q.id] = Head(o.plan).arg
      BY <1>0, <1>3, <2>2
    <3>2. q.gone \subseteq o.gone BY <2>2
    <3> QED BY <1>0, <2>1, <2>2, <2>3, <3>1, <3>2, PushOK
  <2>5. KnownOK /\ LeftOK(o) BY <1>7 DEF Continues, KnownOK, LeftOK
  <2>6. DropsStay(o, q)
    <3> SUFFICES ASSUME NEW t \in Conns, NEW j \in Ids, Dropping(o, t, j) PROVE Dropping(q, t, j)
      BY DEF DropsStay
    <3>1. PICK n \in 1..Len(o.plan) : o.plan[n].do = "drop" /\ o.plan[n].arg = j /\ t \in o.plan[n].todo
      BY DEF Dropping
    <3>2. In(o.plan[n], q.plan) BY <1>0, <1>5, <2>1, <3>1, PushedSteps
    <3> QED BY <3>1, <3>2 DEF Dropping, In
  <2>7. NotServing(q)
    <3>1. \A n \in 1..Len(more) : more[n].do \notin Serving BY DEF Fits, Fit
    <3> QED BY <1>0, <2>1, <3>1, ServePushed DEF NotServing
  <2>8. KillsStay(o, q) BY <2>2 DEF KillsStay
  <2>9. AppendsStay(o, q) BY <1>0, <1>5, <2>1, AppendsPushed
  <2> QED BY <1>4, <2>1, <2>2, <2>4, <2>5, <2>6, <2>7, <2>8, <2>9 DEF Goes
<1> QED BY <1>4, <1>6, <1>7

\* Before the backend has changed nothing is gone.
LEMMA NoneGone ==
  ASSUME NEW c \in Conns, NEW o, NEW do, Acting(c, o, do), do \notin Cleaning \cup {"rkill"}
  PROVE  o.gone = {}
<1>1. o.plan \in Seq(Steps) /\ o.plan # <<>> /\ GoneOK(o) BY Fields DEF Acting, HandlerOK
<1>2. Head(o.plan) = o.plan[1] /\ 1 \in 1..Len(o.plan) BY SMT, <1>1
<1> QED BY <1>1, <1>2 DEF GoneOK, Acting

\* ToHandle finds a handle, or goes on to mint one.
LEMMA FindStep ==
  ASSUME IInv, NEW c \in Conns, Find(c)
  PROVE  /\ Grows
         /\ \/ \E q \in Handlers : Plain(c, req[c], q)
            \/ \E q \in Handlers, i \in Ids :
                 Goes(c, req[c], q) /\ i \in active /\ (q = NoReq \/ q.id = i)
<1>1. PICK o : Acting(c, o, "find") BY Act DEF Find
<1>2. Grows BY SameMaps DEF Find, mapVars
<1>3. PICK p \in Paths : p = Arg(c) BY <1>1 DEF Acting, StepOK, OnPath
<1>4. CASE Cached(p) # Nil
  <2>1. PICK i \in Ids : i = Cached(p) /\ i \in active /\ pathOf[i] = p /\ Findable(i)
    BY <1>4, CachedIs
  <2>2. Findable(i)' /\ Minted(i)' /\ pathOf'[i] = p BY <1>2, <2>1 DEF Grows, Findable
  <2>3. PICK more \in Seq(Steps) : more = <<>> /\ Fits(Head(o.plan), more) BY Short
  <2>4. GoOn(c, more, [o EXCEPT !.id = i]) BY <1>1, <1>3, <1>4, <2>1, <2>3 DEF Find, Acting
  <2>5. o.gone = {} BY <1>1, NoneGone DEF Cleaning
  <2>6. "find" \in Finding /\ pathOf'[i] = Head(o.plan).arg BY <1>1, <1>3, <2>2 DEF Finding, Acting
  <2>8. Finds(c, o, "find", i, more)
    BY <1>1, <1>2, <2>2, <2>3, <2>4, <2>5, <2>6 DEF Finds
  <2>7. \E q \in Handlers : Goes(c, o, q) /\ (q = NoReq \/ q.id = i)
    <3>1. \E q \in Handlers : Found(c, o, q, i, more) BY <2>8, FoundStep
    <3> QED BY <3>1 DEF Found
  <2> QED BY <1>1, <1>2, <2>1, <2>7 DEF Acting
<1>5. CASE Cached(p) = Nil
  <2>1. "add" \in Labels BY DEF Labels
  <2>2. PICK s : IsStep(s, "add", p) BY <2>1, MakeStep
  <2>3. Fit(Head(o.plan), s)
    <3>1. StepOK(s)' BY <2>2 DEF IsStep, StepOK, Carries, OnPath, Serving
    <3>2. \A t : Ordered(Head(o.plan), t) => Ordered(s, t)
      BY <1>1, <1>3, <2>2 DEF Ordered, Acting, IsStep, Alone, Cleaning, Removing, Renaming, Finding
    <3> QED BY <1>1, <2>2, <3>1, <3>2 DEF IsStep, Fit, Acting, Removing, Renaming, Serving, Cleaning
  <2>4. PICK more \in Seq(Steps) : /\ more = <<s>> /\ 1 \in 1..Len(more) /\ more[1] = s
                                   /\ Fits(Head(o.plan), more)
    BY <2>2, <2>3, Short DEF IsStep
  <2>5. GoOn(c, more, o) BY <1>1, <1>3, <1>5, <2>2, <2>4 DEF Find, Acting, IsStep
  <2>6. more[1].do \in Finding BY <2>2, <2>4 DEF Finding, IsStep
  <2>7. Advances(c, o, "find", more)
    BY <1>1, <1>2, <2>4, <2>5, <2>6 DEF Advances
  <2> QED BY <1>1, <1>2, <2>7, Onward DEF Acting
<1> QED BY <1>4, <1>5

\* The three steps of a full cache.
LEMMA Three ==
  ASSUME NEW s \in Steps, NEW t \in Steps, NEW u \in Steps
  PROVE  /\ <<s, t, u>> \in Seq(Steps)
         /\ \A n \in 1..Len(<<s, t, u>>) : <<s, t, u>>[n] \in {s, t, u}
         /\ 2 \in 1..Len(<<s, t, u>>) /\ <<s, t, u>>[2] = t
         /\ 3 \in 1..Len(<<s, t, u>>) /\ <<s, t, u>>[3] = u
<1>1. <<s, t, u>> \in Seq(Steps) BY SMT
<1>2. /\ Len(<<s, t, u>>) = 3
      /\ <<s, t, u>>[1] = s /\ <<s, t, u>>[2] = t /\ <<s, t, u>>[3] = u
  BY SMT
<1>3. \A n \in 1..Len(<<s, t, u>>) : n = 1 \/ n = 2 \/ n = 3 BY SMT, <1>2
<1>4. 2 \in 1..Len(<<s, t, u>>) /\ 3 \in 1..Len(<<s, t, u>>) BY SMT, <1>2
<1> QED BY <1>1, <1>2, <1>3, <1>4

\* The handles that exist stay as they are when one is minted.
LEMMA MintGrows ==
  ASSUME IInv, NEW n \in Ids, pathOf[n] = Nil, NEW p \in Paths, pathOf' = [pathOf EXCEPT ![n] = p],
         NEW A, A \subseteq active, active' = A \cup {n}, reverse' = reverse, dup \subseteq dup'
  PROVE  Grows /\ Minted(n)' /\ pathOf'[n] = p
<1>1. p # Nil BY LifeAssumption
<1>2. \A i \in Ids : i # n => pathOf'[i] = pathOf[i] BY DEF IInv, TypeOK
<1>3. pathOf'[n] = p BY DEF IInv, TypeOK
<1>4. \A i : Minted(i) => i # n BY DEF Minted
<1>5. ASSUME NEW i, Minted(i)
      PROVE  Minted(i)' /\ pathOf'[i] = pathOf[i] /\ (i \in active' => i \in active)
  BY <1>2, <1>4, <1>5 DEF Minted
<1>6. ASSUME NEW i, Findable(i) PROVE Findable(i)'
  BY <1>5, <1>6 DEF Findable, Listed
<1> QED BY <1>1, <1>3, <1>5, <1>6 DEF Grows, Minted

\* activeHandles.Add mints a handle.
LEMMA AddStep ==
  ASSUME IInv, NEW c \in Conns, Add(c)
  PROVE  Grows /\ \E q \in Handlers : Goes(c, req[c], q) /\ \E n, v : Mints(c, q, n, v)
<1>1. PICK o : Acting(c, o, "add") BY Act DEF Add
<1>2. PICK p \in Paths : p = Arg(c) BY <1>1 DEF Acting, StepOK, OnPath
<1>3. PICK W : W = {i \in Ids : /\ pathOf[i] = p
                                /\ i \in active \/ \E d \in Conns : Has(req[d], "kill", Nil) /\ req[d].id = i}
  OBVIOUS
<1>4. PICK n \in Ids :
       /\ pathOf[n] = Nil
       /\ pathOf' = [pathOf EXCEPT ![n] = p]
       /\ dup' = IF W = {} THEN dup ELSE dup \cup W \cup {n}
       /\ IF Cardinality(active) < Limit
          THEN /\ active' = active \cup {n} /\ UNCHANGED late
               /\ GoOn(c, <<Step("append", n)>>, [req[c] EXCEPT !.id = n])
          ELSE \E v \in active :
                 /\ active' = (active \ {v}) \cup {n} /\ LateIf({v})
                 /\ GoOn(c, <<Step("unmap", v), Drop(v), Step("append", n)>>,
                         [req[c] EXCEPT !.id = n])
  BY <1>2, <1>3 DEF Add
<1>5. /\ dup \subseteq dup' /\ dup' \subseteq Ids
      /\ \A i \in Ids : pathOf[i] = p /\ (i \in active \/ \E d \in Conns : Has(req[d], "kill", Nil) /\ req[d].id = i)
           => i \in dup' /\ n \in dup'
  <2>1. W \subseteq Ids BY <1>3
  <2>2. dup \subseteq Ids BY DEF IInv, TypeOK
  <2>3. W # {} => dup' = dup \cup W \cup {n} BY <1>4
  <2>4. W = {} => dup' = dup BY <1>4
  <2>5. ASSUME NEW i \in Ids, pathOf[i] = p, i \in active \/ \E d \in Conns : Has(req[d], "kill", Nil) /\ req[d].id = i
        PROVE  i \in W
    BY <1>3, <2>5
  <2>6. dup \subseteq dup' /\ dup' \subseteq Ids BY <2>1, <2>2, <2>3, <2>4
  <2> QED BY <2>3, <2>5, <2>6
<1>6. UNCHANGED <<inode, used, reverse, fdVars, ops>> BY DEF Add
<1>7. o = req[c] /\ o.gone = {} /\ Head(o.plan).arg = p /\ "add" \in Finding
  BY <1>1, <1>2, NoneGone DEF Cleaning, Acting, Finding
<1>8. "append" \in Labels /\ "unmap" \in Labels BY DEF Labels
<1>9. PICK a : IsStep(a, "append", n) BY <1>8, MakeStep
<1>10. n # Nil /\ \A i \in active : i \in Ids /\ i # Nil BY LifeAssumption DEF IInv, TypeOK
<1>11. CASE Cardinality(active) < Limit
  <2>1. active' = active \cup {n} /\ late' = late /\ GoOn(c, <<a>>, [o EXCEPT !.id = n])
    BY <1>4, <1>7, <1>9, <1>11 DEF IsStep
  <2>2. Grows /\ Minted(n)' /\ pathOf'[n] = p BY <1>4, <1>5, <1>6, <2>1, MintGrows
  <2>3. Fit(Head(o.plan), a)
    <3>1. Cleans(a) BY <1>9, <2>2 DEF IsStep, Cleans
    <3> QED BY <3>1, FitClean
  <2>4. PICK more \in Seq(Steps) : /\ more = <<a>> /\ 1 \in 1..Len(more) /\ more[1] = a
                                   /\ Fits(Head(o.plan), more)
    BY <1>9, <2>3, Short DEF IsStep
  <2>5. Finds(c, o, "add", n, more)
    BY <1>1, <1>7, <1>9, <2>1, <2>2, <2>4 DEF Finds, IsStep
  <2>6. PICK q \in Handlers : Found(c, o, q, n, more) BY <2>5, FoundStep
  <2>7. Len(more) # 0 BY SMT, <2>4
  <2>8. q.id = n /\ Has(q, "append", n)
    <3>1. In(more[1], q.plan) BY <1>1, <2>4, <2>6, <2>7, PushedSteps DEF Acting, Found
    <3> QED BY <1>9, <2>4, <2>6, <2>7, <3>1 DEF In, Has, IsStep, Found
  <2>9. active' = (active \ {Nil}) \cup {n} BY <1>10, <2>1
  <2>10. Mints(c, q, n, Nil)
    BY <1>2, <1>4, <1>5, <1>6, <1>10, <2>1, <2>8, <2>9 DEF Mints
  <2> QED BY <1>7, <2>2, <2>6, <2>10 DEF Found
<1>12. CASE ~ (Cardinality(active) < Limit)
  <2>1. PICK v \in active :
          /\ active' = (active \ {v}) \cup {n} /\ LateIf({v})
          /\ GoOn(c, <<Step("unmap", v), Drop(v), Step("append", n)>>, [req[c] EXCEPT !.id = n])
    BY <1>4, <1>12
  <2>2. v \in Ids /\ v # Nil BY <1>10
  <2>3. Grows /\ Minted(n)' /\ pathOf'[n] = p
    <3>1. active \ {v} \subseteq active OBVIOUS
    <3> QED BY <1>4, <1>5, <1>6, <2>1, <3>1, MintGrows
  <2>4. Minted(v) /\ Minted(v)' /\ v # n /\ v \notin active'
    BY <1>4, <2>1, <2>3 DEF IInv, MapInv, Minted, Grows
  <2>5. PICK u : IsStep(u, "unmap", v) BY <1>8, <2>2, MakeStep
  <2>6. PICK d : IsStep(d, "drop", v) /\ d = Drop(v) /\ d.todo = Conns BY <2>2, MakeDrop
  <2>7. PICK more : more = <<u, d, a>> OBVIOUS
  <2>8. /\ more \in Seq(Steps) /\ \A k \in 1..Len(more) : more[k] \in {u, d, a}
        /\ 2 \in 1..Len(more) /\ more[2] = d /\ 3 \in 1..Len(more) /\ more[3] = a
    BY <1>9, <2>5, <2>6, <2>7, Three DEF IsStep
  <2>9. Fits(Head(o.plan), more)
    <3>1. \A s \in {u, d, a} : Fit(Head(o.plan), s)
      <4>1. Cleans(u) BY <2>4, <2>5 DEF IsStep, Cleans
      <4>2. Cleans(d) BY <2>4, <2>6 DEF IsStep, Cleans
      <4>3. Cleans(a) BY <1>9, <2>3 DEF IsStep, Cleans
      <4> QED BY <4>1, <4>2, <4>3, FitClean
    <3>2. \A s \in {u, d, a} : s.do \in {"unmap", "drop", "append"}
      BY <1>9, <2>5, <2>6 DEF IsStep
    <3>3. \A s, t \in {u, d, a} : Ordered(s, t)
      BY <3>2 DEF Ordered, Alone, Cleaning, Removing, Renaming, Finding
    <3>4. AnyOrder(Head(o.plan), more, {u, d, a}) BY <2>8, <3>1, <3>3 DEF AnyOrder
    <3> QED BY <3>4, FitsAll
  <2>10. GoOn(c, more, [o EXCEPT !.id = n])
    BY <1>7, <1>9, <2>1, <2>5, <2>6, <2>7 DEF IsStep
  <2>11. Finds(c, o, "add", n, more)
    BY <1>1, <1>7, <1>9, <2>3, <2>8, <2>9, <2>10 DEF Finds, IsStep
  <2>12. PICK q \in Handlers : Found(c, o, q, n, more) BY <2>11, FoundStep
  <2>13. Len(more) # 0 BY SMT, <2>8
  <2>14. q.id = n /\ Has(q, "append", n) /\ \A t \in Conns : Dropping(q, t, v)
    <3>1. In(d, q.plan) /\ In(a, q.plan) BY <1>1, <2>8, <2>12, <2>13, PushedSteps DEF Acting, Found
    <3> QED BY <1>9, <2>6, <2>12, <2>13, <3>1 DEF In, Has, Dropping, IsStep, Found
  <2>15. Mints(c, q, n, v)
    BY <1>2, <1>4, <1>5, <1>6, <2>1, <2>2, <2>14 DEF Mints
  <2> QED BY <1>7, <2>3, <2>12, <2>15 DEF Found
<1> QED BY <1>11, <1>12

\* One list of the reverse map changes: ids that resolve stay in it.
Relists(p, new) ==
  /\ p \in Paths /\ new \in Seq(Ids) /\ reverse' = [reverse EXCEPT ![p] = new]
  /\ UNCHANGED <<active, pathOf, dup>>
  /\ \A n \in 1..Len(reverse[p]) :
       reverse[p][n] \in active => \E k \in 1..Len(new) : new[k] = reverse[p][n]
  /\ \A k \in 1..Len(new) : pathOf[new[k]] = p

\* The handles grow.
LEMMA RelistGrows ==
  ASSUME IInv, NEW p, NEW new, Relists(p, new)
  PROVE  Grows /\ RevOK'
<1> USE DEF Relists
<1>1. /\ reverse \in [Paths -> Seq(Ids)]
      /\ \A q \in Paths : \A n \in 1..Len(reverse[q]) : pathOf[reverse[q][n]] = q
  BY DEF IInv, TypeOK, MapInv
<1>2. reverse'[p] = new /\ \A q : q \in Paths /\ q # p => reverse'[q] = reverse[q] BY <1>1
<1>3. reverse' \in [Paths -> Seq(Ids)] BY <1>1
<1>4. RevOK' BY <1>1, <1>2, <1>3 DEF RevOK
<1>5. ASSUME NEW i, Findable(i) PROVE Findable(i)'
  <2>1. Minted(i)' BY <1>5 DEF Findable, Minted
  <2>2. ASSUME i \in active PROVE Listed(i)'
    <3>1. pathOf[i] \in Paths BY <1>5 DEF Findable, Minted, IInv, TypeOK
    <3>2. Listed(i) BY <1>5, <2>2 DEF Findable
    <3>5. pathOf'[i] = pathOf[i] OBVIOUS
    <3>6. \E k \in 1..Len(reverse'[pathOf[i]]) : reverse'[pathOf[i]][k] = i
      <4>1. CASE pathOf[i] # p BY <1>2, <3>1, <3>2, <4>1 DEF Listed
      <4>2. CASE pathOf[i] = p
        <5>1. PICK n \in 1..Len(reverse[p]) : reverse[p][n] = i BY <3>2, <4>2 DEF Listed
        <5>2. \E k \in 1..Len(new) : new[k] = i BY <2>2, <5>1
        <5> QED BY <1>2, <4>2, <5>2
      <4> QED BY <4>1, <4>2
    <3> QED BY <3>5, <3>6 DEF Listed
  <2> QED BY <2>1, <2>2 DEF Findable
<1>6. Grows BY <1>5 DEF Grows, Minted
<1> QED BY <1>4, <1>6

\* One more id at the end of a list.
LEMMA Longer ==
  ASSUME NEW ids \in Seq(Ids), NEW i \in Ids
  PROVE  \E new \in Seq(Ids) :
           /\ new = Append(ids, i)
           /\ \A n \in 1..Len(ids) : \E k \in 1..Len(new) : new[k] = ids[n]
           /\ \E k \in 1..Len(new) : new[k] = i
           /\ \A k \in 1..Len(new) : new[k] = i \/ \E n \in 1..Len(ids) : new[k] = ids[n]
<1>1. PICK new : new = Append(ids, i) OBVIOUS
<1>2. /\ new \in Seq(Ids) /\ Len(new) = Len(ids) + 1 /\ Len(ids) \in Nat
      /\ \A n \in 1..Len(ids) : new[n] = ids[n]
      /\ new[Len(ids) + 1] = i
  BY SMT, <1>1
<1>3. /\ Len(new) \in 1..Len(new) /\ \A n \in 1..Len(ids) : n \in 1..Len(new)
      /\ \A k \in 1..Len(new) : k = Len(ids) + 1 \/ k \in 1..Len(ids)
  BY SMT, <1>2
<1> QED BY <1>1, <1>2, <1>3

\* ToHandle's entry in the reverse map.
LEMMA AppendStep ==
  ASSUME IInv, NEW c \in Conns, AppendReverse(c)
  PROVE  Calm(c) /\ RevOK'
<1>1. PICK o : Acting(c, o, "append") BY Act DEF AppendReverse
<1>2. PICK i \in Ids : i = Arg(c) /\ Minted(i) BY <1>1 DEF Acting, StepOK, Carries, Minted
<1>3. PICK p \in Paths : p = pathOf[i] BY <1>2 DEF IInv, TypeOK, Minted
<1>4. reverse[p] \in Seq(Ids) BY DEF IInv, TypeOK
<1>5. PICK new \in Seq(Ids) :
           /\ new = Append(reverse[p], i)
           /\ \A n \in 1..Len(reverse[p]) : \E k \in 1..Len(new) : new[k] = reverse[p][n]
           /\ \E k \in 1..Len(new) : new[k] = i
           /\ \A k \in 1..Len(new) : new[k] = i \/ \E n \in 1..Len(reverse[p]) : new[k] = reverse[p][n]
  BY <1>4, Longer
<1>6. reverse' = [reverse EXCEPT ![p] = new] /\ UNCHANGED <<active, pathOf, dup>>
  BY <1>2, <1>3, <1>5 DEF AppendReverse
<1>7. Relists(p, new)
  <2>1. \A n \in 1..Len(reverse[p]) : pathOf[reverse[p][n]] = p BY DEF IInv, MapInv
  <2>2. ASSUME NEW k \in 1..Len(new) PROVE pathOf[new[k]] = p
    <3>1. new[k] = i \/ \E n \in 1..Len(reverse[p]) : new[k] = reverse[p][n] BY <1>5
    <3> QED BY <1>3, <2>1, <3>1
  <2>3. \A n \in 1..Len(reverse[p]) :
          reverse[p][n] \in active => \E k \in 1..Len(new) : new[k] = reverse[p][n]
    BY <1>5
  <2> QED BY <1>6, <2>2, <2>3 DEF Relists
<1>8. Grows /\ RevOK' BY <1>7, RelistGrows
<1>9. Findable(i)'
  <2>1. reverse'[p] = new BY <1>6 DEF IInv, TypeOK
  <2>2. pathOf'[i] = p /\ Minted(i)' BY <1>2, <1>3, <1>6 DEF Minted
  <2> QED BY <1>5, <2>1, <2>2 DEF Findable, Listed
<1>10. PICK more \in Seq(Steps) : more = <<>> /\ Fits(Head(o.plan), more) BY Short
<1>11. GoOn(c, more, o) BY <1>1, <1>10 DEF AppendReverse, Acting
<1>12. Advances(c, o, "append", more)
  BY <1>1, <1>2, <1>8, <1>9, <1>10, <1>11 DEF Advances, Acting, Finding
<1> QED BY <1>1, <1>8, <1>12, Onward DEF Acting, Calm

\* evictReverseCache.
LEMMA UnmapStep ==
  ASSUME IInv, NEW c \in Conns, Unmap(c)
  PROVE  Calm(c) /\ RevOK'
<1>1. PICK o : Acting(c, o, "unmap") BY Act DEF Unmap
<1>2. PICK i \in Ids : i = Arg(c) /\ Minted(i) /\ i \notin active
  BY <1>1 DEF Acting, StepOK, Carries, Minted
<1>3. PICK p \in Paths : p = pathOf[i] BY <1>2 DEF IInv, TypeOK, Minted
<1>4. PICK ids : ids = reverse[p] OBVIOUS
<1>5. ids \in Seq(Ids) /\ \A n \in 1..Len(ids) : pathOf[ids[n]] = p
  BY <1>4 DEF IInv, TypeOK, MapInv
<1>6. Grows /\ RevOK'
  <2>1. CASE ~ \E m \in 1..Len(ids) : ids[m] = i
    <3>1. UNCHANGED <<active, pathOf, reverse, dup>>
      BY <1>2, <1>3, <1>4, <2>1 DEF Unmap
    <3>2. RevOK' BY <3>1 DEF RevOK, IInv, TypeOK, MapInv
    <3> QED BY <3>1, <3>2, SameMaps
  <2>2. CASE \E m \in 1..Len(ids) : ids[m] = i
    <3>1. PICK m \in 1..Len(ids) : ids[m] \in {i} BY <2>2
    <3>2. PICK n : n = First(ids, {i}) OBVIOUS
    <3>3. n \in 1..Len(ids) /\ ids[n] \in {i} BY <1>5, <3>1, <3>2, FirstIs
    <3>4. PICK new : new = SubSeq(ids, 1, n - 1) \o SubSeq(ids, n + 1, Len(ids)) OBVIOUS
    <3>5. Shorter(ids, n, new) BY <1>5, <3>3, <3>4, Without
    <3>6. reverse' = [reverse EXCEPT ![p] = new] /\ UNCHANGED <<active, pathOf, dup>>
      BY <1>2, <1>3, <1>4, <2>2, <3>2, <3>4 DEF Unmap
    <3>7. \A k \in 1..Len(ids) : ids[k] \in active => k # n BY <1>2, <3>3
    <3>9. ASSUME NEW k \in 1..Len(new) PROVE pathOf[new[k]] = p
      <4>1. PICK l \in 1..Len(ids) : new[k] = ids[l] BY <3>5 DEF Shorter
      <4> QED BY <1>5, <4>1
    <3>10. \A k \in 1..Len(ids) : ids[k] \in active => \E l \in 1..Len(new) : new[l] = ids[k]
      BY <3>5, <3>7 DEF Shorter
    <3>8. Relists(p, new) BY <1>4, <3>5, <3>6, <3>9, <3>10 DEF Relists, Shorter
    <3> QED BY <3>8, RelistGrows
  <2> QED BY <2>1, <2>2
<1>10. PICK more \in Seq(Steps) : more = <<>> /\ Fits(Head(o.plan), more) BY Short
<1>11. GoOn(c, more, o) BY <1>1, <1>10 DEF Unmap, Acting
<1>12. Advances(c, o, "unmap", more)
  BY <1>1, <1>6, <1>10, <1>11 DEF Advances, Finding
<1> QED BY <1>1, <1>6, <1>12, Onward DEF Acting, Calm

\* When an id is invalidated,
LEMMA KilledPushed ==
  ASSUME NEW o, NEW q, NEW more, Continues(o, q, more), OrderOK(o.plan), Head(o.plan).do = "kill",
         NEW i, i = IF Head(o.plan).arg = Nil THEN o.id ELSE Head(o.plan).arg
  PROVE  KillsBut(o, q, i) /\ LeftBut(o, i)
<1>1. Pushes(o, q, more) /\ Same(o, q) BY DEF Continues
<1>2. ASSUME NEW j \in Ids, NEW p, j # i, Killing(o, j, p) PROVE Killing(q, j, p)
  <2>1. Stays(o, q, "kill", j) /\ Stays(o, q, "kill", Nil) BY <1>1, HasPushed
  <2>2. j # Nil BY LifeAssumption
  <2>3. CASE Has(o, "kill", j)
    <3>1. Head(o.plan).arg # j BY <1>2, <2>2
    <3> QED BY <2>1, <2>3, <3>1 DEF Stays, Killing
  <2>4. CASE Has(o, "kill", Nil) /\ o.id = j
    <3>1. Head(o.plan).arg # Nil BY <1>2, <2>4
    <3> QED BY <1>1, <2>1, <2>4, <3>1 DEF Stays, Killing, Same
  <2>5. CASE \E n \in 1..Len(o.plan) : o.plan[n].do = "rkill" /\ p \in {o.plan[n].arg, o.to}
    <3>1. PICK n \in 1..Len(o.plan) : o.plan[n].do = "rkill" /\ p \in {o.plan[n].arg, o.to}
      BY <2>5
    <3>2. In(o.plan[n], q.plan) BY <1>1, <3>1, PushedSteps
    <3>3. q.to = o.to BY <1>1 DEF Same
    <3> QED BY <3>1, <3>2, <3>3 DEF In, Killing
  <2> QED BY <1>2, <2>3, <2>4, <2>5 DEF Killing
<1>3. left' = left BY DEF Continues
<1> QED BY <1>1, <1>2, <1>3 DEF KillsBut, LeftBut, Same

\* also by the last step.
LEMMA KilledLast ==
  ASSUME NEW o, o \in Handlers, NEW q, NEW more \in Seq(Steps), Replies(o, q, more), o.plan # <<>>,
         Head(o.plan).do = "kill",
         NEW i, i = IF Head(o.plan).arg = Nil THEN o.id ELSE Head(o.plan).arg
  PROVE  KillsBut(o, q, i) /\ LeftBut(o, i)
<1>1. o.plan \in Seq(Steps) BY Fields
<1>2. Len(o.plan) = 1 BY <1>1, Ended DEF Replies
<1>3. Head(o.plan) = o.plan[1] /\ \A n \in 1..Len(o.plan) : n = 1 BY SMT, <1>1, <1>2
<1>4. \A n \in 1..Len(o.plan) : o.plan[n] = Head(o.plan) BY <1>3
<1>5. \A j \in Ids : j # Nil BY LifeAssumption
<1>6. ASSUME NEW j \in Ids, NEW p, j # i PROVE ~ Killing(o, j, p)
  BY <1>4, <1>5, <1>6 DEF Killing, Has
<1> QED BY <1>6, Idle DEF KillsBut, LeftBut, Replies

\* InvalidateHandle.
LEMMA KillStep ==
  ASSUME IInv, NEW c \in Conns, Kill(c)
  PROVE  Grows /\ \E q \in Handlers : \E i : Kills(c, req[c], q, i)
<1>1. PICK o : Acting(c, o, "kill") BY Act DEF Kill
<1>2. PICK i : i = Id(c) OBVIOUS
<1>3. /\ i = IF Head(o.plan).arg = Nil THEN o.id ELSE Head(o.plan).arg
      /\ i \in Ids \cup {Nil}
  <2>1. i = IF Head(o.plan).arg = Nil THEN o.id ELSE Head(o.plan).arg
    BY <1>1, <1>2 DEF Id, Acting
  <2>2. o.id \in Ids \cup {Nil} BY <1>1, Fields DEF Acting
  <2>3. Head(o.plan).arg # Nil => Head(o.plan).arg \in Ids
    BY <1>1 DEF Acting, StepOK, Carries, Minted
  <2> QED BY <2>1, <2>2, <2>3
<1>4. active' = active \ {i} /\ LateIf({i}) /\ UNCHANGED <<pathOf, reverse, dup>>
  BY <1>2 DEF Kill
<1>5. Grows BY <1>4 DEF Grows, Minted, Findable, Listed
<1>6. CASE i \in active
  <2>1. i \in Ids /\ Minted(i) /\ Minted(i)' /\ i \notin active'
    BY <1>4, <1>5, <1>6 DEF IInv, TypeOK, MapInv, Grows
  <2>2. "unmap" \in Labels BY DEF Labels
  <2>3. PICK u : IsStep(u, "unmap", i) BY <2>1, <2>2, MakeStep
  <2>4. PICK d : IsStep(d, "drop", i) /\ d = Drop(i) /\ d.todo = Conns BY <2>1, MakeDrop
  <2>5. Cleans(u) /\ Cleans(d) BY <2>1, <2>3, <2>4 DEF IsStep, Cleans
  <2>6. Ordered(u, d) BY <2>3, <2>4 DEF IsStep, Ordered, Alone, Cleaning, Removing, Renaming, Finding
  <2>7. PICK more : more = <<u, d>> OBVIOUS
  <2>8. more \in Seq(Steps) /\ Fits(Head(o.plan), more)
    <3>1. Fit(Head(o.plan), u) /\ Fit(Head(o.plan), d) BY <2>5, FitClean
    <3> QED BY <2>3, <2>4, <2>6, <2>7, <3>1, Short DEF IsStep
  <2>9. 2 \in 1..Len(more) /\ more[2] = d BY SMT, <2>7
  <2>10. GoOn(c, more, o)
    BY <1>1, <1>2, <1>6, <2>3, <2>4, <2>7 DEF Kill, Acting, IsStep
  <2>11. Advances(c, o, "kill", more) BY <1>1, <1>5, <2>8, <2>10 DEF Advances, Finding
  <2>12. PICK q \in Handlers : Plain(c, o, q) /\ (Replies(o, q, more) \/ Continues(o, q, more))
    BY <2>11, Onward
  <2>13. Continues(o, q, more)
    <3>1. ASSUME Replies(o, q, more) PROVE FALSE
      <4>1. o.plan \in Seq(Steps) /\ o.plan # <<>> BY <1>1, Fields DEF Acting
      <4>2. Len(more) = 0 BY <2>8, <3>1, <4>1, Ended DEF Replies
      <4> QED BY SMT, <2>9, <4>2
    <3> QED BY <2>12, <3>1
  <2>14. \A t \in Conns : Dropping(q, t, i)
    <3>1. In(more[2], q.plan) BY <1>1, <2>9, <2>13, PushedSteps DEF Continues, Acting
    <3> QED BY <2>4, <2>9, <3>1 DEF In, Dropping, IsStep
  <2>15. OrderOK(o.plan) /\ Head(o.plan).do = "kill" BY <1>1 DEF Acting
  <2>16. KillsBut(o, q, i) /\ LeftBut(o, i) BY <1>3, <2>13, <2>15, KilledPushed
  <2>17. Kills(c, o, q, i) BY <1>3, <1>4, <2>12, <2>14, <2>15, <2>16 DEF Kills
  <2> QED BY <1>1, <1>5, <2>17 DEF Acting
<1>7. CASE i \notin active
  <2>1. PICK more \in Seq(Steps) : more = <<>> /\ Fits(Head(o.plan), more) BY Short
  <2>2. GoOn(c, more, o) BY <1>1, <1>2, <1>7, <2>1 DEF Kill, Acting
  <2>3. Advances(c, o, "kill", more) BY <1>1, <1>5, <2>1, <2>2 DEF Advances, Finding
  <2>4. PICK q \in Handlers : Plain(c, o, q) /\ (Replies(o, q, more) \/ Continues(o, q, more))
    BY <2>3, Onward
  <2>5. OrderOK(o.plan) /\ Head(o.plan).do = "kill" /\ o \in Handlers /\ o.plan # <<>>
    BY <1>1 DEF Acting
  <2>6. KillsBut(o, q, i) /\ LeftBut(o, i)
    <3>1. CASE Replies(o, q, more) BY <1>3, <2>5, <3>1, KilledLast
    <3>2. CASE Continues(o, q, more) BY <1>3, <2>5, <3>2, KilledPushed
    <3> QED BY <2>4, <3>1, <3>2
  <2>7. Kills(c, o, q, i) BY <1>3, <1>4, <1>7, <2>4, <2>5, <2>6 DEF Kills
  <2> QED BY <1>1, <1>5, <2>7 DEF Acting
<1> QED BY <1>6, <1>7

\* dropHandleAll goes on to the next connection.
LEMMA DropStep ==
  ASSUME IInv, NEW c \in Conns, DropOne(c)
  PROVE  Grows /\ \E q \in Handlers : \E t, i : Drops(c, req[c], q, t, i)
<1>1. PICK o : Acting(c, o, "drop") BY Act DEF DropOne
<1>2. PICK i : i = Id(c) OBVIOUS
<1>3. PICK h : h = Head(o.plan) OBVIOUS
<1>4. /\ o = req[c] /\ o \in Handlers /\ o.plan # <<>> /\ OrderOK(o.plan)
      /\ h \in Steps /\ h.do = "drop" /\ StepOK(h) /\ h.todo \subseteq Conns
  BY <1>1, <1>3, StepFields DEF Acting
<1>5. i = (IF h.arg = Nil THEN o.id ELSE h.arg) /\ i \in Ids \cup {Nil}
  <2>1. i = IF h.arg = Nil THEN o.id ELSE h.arg
    BY <1>1, <1>2, <1>3 DEF Id, Acting
  <2>2. o.id \in Ids \cup {Nil} BY <1>4, Fields
  <2>3. h.arg # Nil => h.arg \in Ids BY <1>4 DEF StepOK, Carries, Minted
  <2> QED BY <2>1, <2>2, <2>3
<1>6. PICK t \in h.todo :
        /\ gen' = [gen EXCEPT ![t] = @ + 1]
        /\ entry' = [entry EXCEPT ![t][i] = Nil]
        /\ GoOn(c, IF h.todo \ {t} = {} THEN <<>> ELSE <<[h EXCEPT !.todo = h.todo \ {t}]>>, o)
  BY <1>2, <1>3, <1>4 DEF DropOne
<1>7. Grows BY SameMaps DEF DropOne, mapVars
<1>8. PICK rest : rest = h.todo \ {t} OBVIOUS
<1>9. PICK s : s = [h EXCEPT !.todo = rest] OBVIOUS
<1>10. s \in Steps /\ s.do = "drop" /\ s.arg = h.arg /\ s.todo = rest
  <2>1. rest \in SUBSET Conns BY <1>4, <1>8
  <2> QED BY <1>4, <1>9, <2>1, StepFields
<1>11. PICK more \in Seq(Steps) :
         /\ GoOn(c, more, o) /\ Fits(h, more)
         /\ (\E n \in 1..Len(more) : more[n] = s) \/ rest = {}
  <2>1. CASE rest = {}
    <3>1. GoOn(c, <<>>, o) BY <1>6, <1>8, <2>1
    <3> QED BY <2>1, <3>1, Short
  <2>2. CASE rest # {}
    <3>1. GoOn(c, <<s>>, o) BY <1>6, <1>8, <1>9, <2>2
    <3>2. Cleans(s)
      <4>1. h.arg # Nil => Minted(h.arg) BY <1>4 DEF StepOK, Carries
      <4> QED BY <1>7, <1>10, <4>1 DEF Cleans, Carries, Grows
    <3>3. Fit(h, s) BY <3>2, FitClean
    <3> QED BY <1>10, <3>1, <3>3, Short
  <2> QED BY <2>1, <2>2
<1>12. Advances(c, o, "drop", more)
  BY <1>1, <1>3, <1>7, <1>11 DEF Advances, Finding
<1>13. PICK q \in Handlers : Plain(c, o, q) /\ (Replies(o, q, more) \/ Continues(o, q, more))
  BY <1>12, Onward
<1>14. DropsBut(o, q, t, i)
  <2> SUFFICES ASSUME NEW d \in Conns, NEW j \in Ids, Dropping(o, d, j), ~ (d = t /\ j = i)
               PROVE  Dropping(q, d, j)
    BY DEF DropsBut
  <2>1. PICK n \in 1..Len(o.plan) : o.plan[n].do = "drop" /\ o.plan[n].arg = j /\ d \in o.plan[n].todo
    BY DEF Dropping
  <2>2. j # Nil BY LifeAssumption
  <2>3. ASSUME o.plan[n] = h PROVE d \in rest /\ h.arg = j
    <3>1. h.arg = j /\ d \in h.todo BY <2>1, <2>3
    <3>2. i = j BY <1>5, <2>2, <3>1
    <3> QED BY <1>8, <3>1, <3>2
  <2>4. CASE Replies(o, q, more)
    <3>1. o.plan \in Seq(Steps) BY <1>4, Fields
    <3>2. Len(o.plan) = 1 /\ Len(more) = 0 BY <1>4, <2>4, <3>1, Ended DEF Replies
    <3>3. o.plan[n] = Head(o.plan) /\ \A m \in 1..Len(more) : FALSE BY SMT, <3>1, <3>2
    <3>4. rest = {} BY <1>11, <3>3
    <3> QED BY <1>3, <2>3, <3>3, <3>4
  <2>5. CASE Continues(o, q, more)
    <3>1. Pushes(o, q, more) BY <2>5 DEF Continues
    <3>2. CASE o.plan[n] = h
      <4>1. In(s, q.plan) BY <1>4, <1>11, <2>3, <3>1, <3>2, PushedSteps
      <4> QED BY <1>10, <2>3, <3>2, <4>1 DEF In, Dropping
    <3>3. CASE o.plan[n] # h
      <4>1. In(o.plan[n], q.plan) BY <1>3, <1>4, <3>1, <3>3, PushedSteps
      <4> QED BY <2>1, <4>1 DEF In, Dropping
    <3> QED BY <3>2, <3>3
  <2> QED BY <1>13, <2>4, <2>5
<1>15. Drops(c, o, q, t, i)
  BY <1>3, <1>4, <1>5, <1>6, <1>13, <1>14 DEF Drops
<1> QED BY <1>4, <1>7, <1>15

\* A step on a path fits where it may come.
LEMMA FitPath ==
  ASSUME NEW p \in Paths, NEW s, s.arg = p, NEW h,
         \/ s.do \in {"find", "create", "apply"} /\ h.do = "check"
         \/ s.do = "create2" /\ h.do = "create"
         \/ s.do = "remove2" /\ h.do = "remove" /\ h.arg = p
         \/ s.do \in {"rdrop", "rename2"} /\ h.do = "rename" /\ h.arg = p
  PROVE  Fit(h, s)
<1>1. StepOK(s)' BY DEF StepOK, Carries, OnPath, Serving
<1>2. ASSUME NEW t, Ordered(h, t) PROVE Ordered(s, t)
  <2>1. CASE h.do = "check" BY <1>2, <2>1 DEF Ordered, Alone
  <2>2. CASE h.do \in {"create", "remove", "rename"}
    BY <1>2, <2>2 DEF Ordered, Alone, Removing, Renaming, Finding, Cleaning
  <2> QED BY <2>1, <2>2
<1> QED BY <1>1, <1>2 DEF Fit, Removing, Renaming, Serving, Cleaning

IsPlan(more, f, d, k, a) ==
  /\ more \in Seq(Steps)
  /\ \A n \in 1..Len(more) : more[n] \in {f, d, k, a}
  /\ \E n \in 1..Len(more) : more[n] = f

\* The longer plans of CREATE.
LEMMA Plans ==
  ASSUME NEW f \in Steps, NEW d \in Steps, NEW k \in Steps, NEW a \in Steps
  PROVE  \A more \in {<<f, d, k, d, a, d>>, <<k, f, a, d>>} : IsPlan(more, f, d, k, a)
<1>1. ASSUME NEW more, more = <<f, d, k, d, a, d>>
      PROVE  /\ more \in Seq(Steps) /\ more[1] = f /\ 1 \in 1..Len(more)
             /\ \A n \in 1..Len(more) : more[n] = f \/ more[n] = d \/ more[n] = k \/ more[n] = a
  BY SMT, <1>1
<1>2. ASSUME NEW more, more = <<k, f, a, d>>
      PROVE  /\ more \in Seq(Steps) /\ more[2] = f /\ 2 \in 1..Len(more)
             /\ \A n \in 1..Len(more) : more[n] = f \/ more[n] = d \/ more[n] = k \/ more[n] = a
  BY SMT, <1>2
<1> QED BY <1>1, <1>2 DEF IsPlan

OneOrTwo(more, d, s) ==
  /\ more \in Seq(Steps)
  /\ \A n \in 1..Len(more) : more[n] \in {d, s}
  /\ \A m, n \in 1..Len(more) : m < n => more[m] = d /\ more[n] = s

\* A step with perhaps another one before it.
LEMMA Appended ==
  ASSUME NEW s \in Steps, NEW d \in Steps, NEW more
  PROVE  /\ more = <<>> \o <<s>> => OneOrTwo(more, d, s)
         /\ more = <<d>> \o <<s>> => OneOrTwo(more, d, s)
<1>1. \A z \in Steps : <<z>> \in Seq(Steps) /\ Len(<<z>>) = 1 /\ <<z>>[1] = z BY SMT
<1>2. PICK y : y = <<s>> OBVIOUS
<1>3. PICK x : x = <<d>> OBVIOUS
<1>4. x \in Seq(Steps) /\ y \in Seq(Steps) /\ Len(x) = 1 /\ Len(y) = 1 /\ x[1] = d /\ y[1] = s
  BY <1>1, <1>2, <1>3
<1>5. ASSUME more = <<>> \o <<s>> PROVE OneOrTwo(more, d, s)
  <2>1. more = <<>> \o y BY <1>2, <1>5
  <2>2. more \in Seq(Steps) /\ Len(more) = 1 /\ more[1] = s BY SMT, <1>4, <2>1
  <2>3. /\ \A n \in 1..Len(more) : n = 1
        /\ \A m, n \in 1..Len(more) : ~ (m < n)
    BY SMT, <2>2
  <2> QED BY <2>2, <2>3 DEF OneOrTwo
<1>6. ASSUME more = <<d>> \o <<s>> PROVE OneOrTwo(more, d, s)
  <2>1. more = x \o y BY <1>2, <1>3, <1>6
  <2>2. /\ more \in Seq(Steps) /\ Len(more) = Len(x) + Len(y)
        /\ \A m \in 1..Len(x) : more[m] = x[m]
        /\ \A m \in 1..Len(y) : more[m + Len(x)] = y[m]
    <3>1. Concat(Steps, x, y, more) BY <1>4, <2>1, Joined
    <3> QED BY <3>1 DEF Concat
  <2>3. Len(more) = 2 /\ more[1] = d /\ more[2] = s BY SMT, <1>4, <2>2
  <2>4. /\ \A n \in 1..Len(more) : n = 1 \/ n = 2
        /\ \A m, n \in 1..Len(more) : m < n => m = 1 /\ n = 2
    BY SMT, <2>3
  <2> QED BY <2>2, <2>3, <2>4 DEF OneOrTwo
<1> QED BY <1>5, <1>6

\* onCreate's stat.
LEMMA CheckStep ==
  ASSUME IInv, NEW c \in Conns, CreateCheck(c)
  PROVE  Calm(c)
<1>1. PICK o : Acting(c, o, "check") BY Act DEF CreateCheck
<1>2. Grows BY SameMaps DEF CreateCheck, mapVars
<1>3. PICK p \in Paths : p = Arg(c) BY <1>1 DEF Acting, StepOK, OnPath
<1>4. "find" \in Labels /\ "create" \in Labels /\ "apply" \in Labels BY DEF Labels
<1>5. PICK f : IsStep(f, "find", p) BY <1>4, MakeStep
<1>6. PICK k : IsStep(k, "create", p) BY <1>4, MakeStep
<1>7. PICK a : IsStep(a, "apply", p) BY <1>4, MakeStep
<1>8. PICK d : IsStep(d, "drop", Nil) /\ d = Drop(Nil) BY MakeDrop
<1>9. \A s \in {f, d, k, a} : Fit(Head(o.plan), s)
  <2>1. Cleans(d) BY <1>8 DEF IsStep, Cleans, Carries
  <2>2. Fit(Head(o.plan), d) BY <2>1, FitClean
  <2>3. \A s \in {f, k, a} : s.arg = p /\ s.do \in {"find", "create", "apply"}
    BY <1>5, <1>6, <1>7 DEF IsStep
  <2>4. Head(o.plan).do = "check" BY <1>1 DEF Acting
  <2>5. \A s \in {f, k, a} : Fit(Head(o.plan), s) BY <2>3, <2>4, FitPath
  <2> QED BY <2>2, <2>5
<1>10. \A s, t \in {f, d, k, a} : Ordered(s, t)
  <2>1. \A s \in {f, d, k, a} : s.do \in {"find", "create", "apply", "drop"} /\ ~ Carries(s)
    BY <1>5, <1>6, <1>7, <1>8 DEF IsStep, Carries
  <2> QED BY <2>1 DEF Ordered, Alone, Removing, Renaming
<1>11. f \in Steps /\ d \in Steps /\ k \in Steps /\ a \in Steps /\ f.do \in Finding
  BY <1>5, <1>6, <1>7, <1>8 DEF IsStep, Finding
<1>12. ASSUME NEW more \in {<<f, d, k, d, a, d>>, <<k, f, a, d>>}, GoOn(c, more, o)
       PROVE  Calm(c)
  <2>5. IsPlan(more, f, d, k, a) BY <1>11, <1>12, Plans
  <2>1. /\ more \in Seq(Steps)
        /\ \A n \in 1..Len(more) : more[n] \in {f, d, k, a}
        /\ \E n \in 1..Len(more) : more[n] = f
    BY <2>5 DEF IsPlan
  <2>2. AnyOrder(Head(o.plan), more, {f, d, k, a}) BY <1>9, <1>10, <2>1 DEF AnyOrder
  <2>3. Fits(Head(o.plan), more) BY <2>2, FitsAll
  <2>4. Advances(c, o, "check", more)
    BY <1>1, <1>2, <1>11, <1>12, <2>1, <2>3 DEF Advances, Finding
  <2> QED BY <1>1, <1>2, <2>4, Onward DEF Acting, Calm
<1>13. CASE Fail(c)
  BY <1>1, <1>2, <1>13, Failing DEF Acting, Calm, Cleaning
<1>14. CASE ~ Fail(c)
  <2>1. GoOn(c, IF inode[p] # Nil THEN <<f, d, k, d, a, d>> ELSE <<k, f, a, d>>, o)
    BY <1>1, <1>3, <1>5, <1>6, <1>7, <1>8, <1>14 DEF CreateCheck, Acting, IsStep
  <2> QED BY <1>12, <2>1
<1> QED BY <1>13, <1>14

\* A step that is done, or that fails, and that no other waits for.
LEMMA Ends ==
  ASSUME IInv, NEW c \in Conns, NEW o, NEW do, Acting(c, o, do), Grows,
         do \notin Finding \cup Cleaning \cup {"lookup", "check", "rkill"},
         GoOn(c, <<>>, o) \/ Fail(c)
  PROVE  Calm(c)
<1>1. CASE Fail(c) BY <1>1, Failing DEF Acting, Calm
<1>2. CASE GoOn(c, <<>>, o)
  <2>1. PICK more \in Seq(Steps) : more = <<>> /\ Fits(Head(o.plan), more) BY Short
  <2>2. Advances(c, o, do, more) BY <1>2, <2>1 DEF Advances, Cleaning
  <2> QED BY <2>2, Onward DEF Acting, Calm
<1> QED BY <1>1, <1>2

\* dropAndRetry: perhaps a drop, and the operation once more.
LEMMA Retries ==
  ASSUME IInv, NEW c \in Conns, NEW o, NEW do, Acting(c, o, do), Grows,
         do \notin Finding \cup Cleaning \cup {"lookup", "check", "rkill"},
         NEW d, NEW s, Fit(Head(o.plan), d), Fit(Head(o.plan), s), Ordered(d, s),
         NEW more, OneOrTwo(more, d, s), GoOn(c, more, o)
  PROVE  Calm(c)
<1>1. more \in Seq(Steps) BY DEF OneOrTwo
<1>2. Fits(Head(o.plan), more) BY DEF Fits, OneOrTwo, OrderOK
<1>3. Advances(c, o, do, more) BY <1>1, <1>2 DEF Advances, Cleaning
<1> QED BY <1>3, Onward DEF Acting, Calm

\* fs.Create.
LEMMA CreateStep ==
  ASSUME IInv, NEW c \in Conns, CreateFile(c)
  PROVE  Calm(c) /\ Head(req[c].plan).do \in {"create", "create2"}
<1>1. PICK do \in {"create", "create2"} : At(c, do) BY DEF CreateFile
<1>2. PICK o : Acting(c, o, do) BY <1>1, Act
<1>3. Grows BY SameMaps DEF CreateFile, mapVars
<1>4. PICK p \in Paths : p = Arg(c) BY <1>1, <1>2 DEF Acting, StepOK, OnPath
<1>5. Head(req[c].plan).do \in {"create", "create2"} BY <1>1, <1>2 DEF Acting
<1>6. do \notin Finding \cup Cleaning \cup {"lookup", "check", "rkill"}
  BY <1>1 DEF Finding, Cleaning
<1>7. CASE GoOn(c, <<>>, o) \/ Fail(c)
  BY <1>2, <1>3, <1>5, <1>6, <1>7, Ends
<1>8. CASE ~ (GoOn(c, <<>>, o) \/ Fail(c))
  <2>1. /\ At(c, "create")
        /\ GoOn(c, (IF o.id = Nil THEN <<>> ELSE <<Drop(Nil)>>) \o <<Step("create2", p)>>, o)
    BY <1>2, <1>4, <1>8 DEF CreateFile, Acting
  <2>2. "create2" \in Labels BY DEF Labels
  <2>3. PICK s : IsStep(s, "create2", p) BY <2>2, MakeStep
  <2>4. PICK d : IsStep(d, "drop", Nil) /\ d = Drop(Nil) BY MakeDrop
  <2>5. s = Step("create2", p) /\ s \in Steps /\ d \in Steps BY <2>3, <2>4 DEF IsStep
  <2>6. PICK more : more = (IF o.id = Nil THEN <<>> ELSE <<d>>) \o <<s>> OBVIOUS
  <2>7. OneOrTwo(more, d, s) /\ GoOn(c, more, o)
    <3>1. GoOn(c, more, o) BY <2>1, <2>4, <2>5, <2>6
    <3>2. more = <<>> \o <<s>> \/ more = <<d>> \o <<s>> BY <2>6
    <3> QED BY <2>5, <3>1, <3>2, Appended
  <2>8. Fit(Head(o.plan), d)
    <3>1. Cleans(d) BY <2>4 DEF IsStep, Cleans, Carries
    <3> QED BY <3>1, FitClean
  <2>9. Fit(Head(o.plan), s)
    <3>1. s.arg = p /\ s.do = "create2" /\ Head(o.plan).do = "create"
      BY <1>2, <2>1, <2>3 DEF IsStep, Acting, At
    <3> QED BY <3>1, FitPath
  <2>10. Ordered(d, s)
    BY <2>3, <2>4 DEF IsStep, Ordered, Alone, Carries, Removing, Renaming, Finding
  <2> QED BY <1>2, <1>3, <1>5, <1>6, <2>7, <2>8, <2>9, <2>10, Retries
<1> QED BY <1>7, <1>8

\* SetFileAttributes.Apply.
LEMMA ApplyStep ==
  ASSUME IInv, NEW c \in Conns, Apply(c)
  PROVE  Calm(c)
<1>1. PICK o : Acting(c, o, "apply") BY Act DEF Apply
<1>2. Grows BY SameMaps DEF Apply, mapVars
<1>3. GoOn(c, <<>>, o) \/ Fail(c) BY <1>1 DEF Apply, Acting
<1>4. "apply" \notin Finding \cup Cleaning \cup {"lookup", "check", "rkill"} BY DEF Finding, Cleaning
<1> QED BY <1>1, <1>2, <1>3, <1>4, Ends

\* Two steps.
LEMMA Both ==
  ASSUME NEW d \in Steps, NEW s \in Steps
  PROVE  OneOrTwo(<<d, s>>, d, s)
<1>1. PICK more : more = <<d, s>> OBVIOUS
<1>2. more \in Seq(Steps) /\ Len(more) = 2 /\ more[1] = d /\ more[2] = s BY SMT, <1>1
<1>3. /\ \A n \in 1..Len(more) : n = 1 \/ n = 2
      /\ \A m, n \in 1..Len(more) : m < n => m = 1 /\ n = 2
  BY SMT, <1>2
<1> QED BY <1>1, <1>2, <1>3 DEF OneOrTwo

\* The request goes on with the file gone.
LEMMA GoneStep ==
  ASSUME IInv, NEW c \in Conns, NEW o, NEW do \in Removing, Acting(c, o, do), Grows,
         NEW p \in Paths, p = Head(o.plan).arg, inode[p] # Nil, inode' = [inode EXCEPT ![p] = Nil],
         GoOn(c, <<>>, [o EXCEPT !.gone = {<<p, inode[p]>>}])
  PROVE  \E q \in Handlers : Removes(c, o, q, p)
<1>1. PICK G : G = {<<p, inode[p]>>} OBVIOUS
<1>2. G \subseteq Pairs
  <2>1. inode[p] \in Inodes BY DEF IInv, TypeOK
  <2>2. <<p, inode[p]>> \in Pairs BY SMT, <2>1 DEF Pairs
  <2> QED BY <1>1, <2>2
<1>3. PICK r : r = [o EXCEPT !.gone = G] OBVIOUS
<1>4. o \in Handlers /\ o.plan # <<>> /\ OrderOK(o.plan) /\ Head(o.plan).do = do /\ HandlerOK(o)
  BY DEF Acting
<1>5. /\ r \in Handlers /\ r.gone = G /\ r.plan = o.plan /\ r.id = o.id /\ r.op = o.op /\ r.to = o.to
      /\ r.left = o.left
  BY <1>2, <1>3, <1>4 DEF Handlers
<1>6. PICK more \in Seq(Steps) : more = <<>> /\ Fits(Head(o.plan), more) BY Short
<1>7. GoOn(c, more, r) BY <1>1, <1>3, <1>6
<1>8. PICK q \in Handlers : Sets(c, q) /\ (Replies(r, q, more) \/ Continues(r, q, more))
  BY <1>4, <1>5, <1>6, <1>7, GoOnStep
<1>9. o.plan \in Seq(Steps) BY <1>4, Fields
<1>10. Head(o.plan) = o.plan[1] /\ 1 \in 1..Len(o.plan) BY SMT, <1>4, <1>9
<1>11. do \notin Cleaning \cup Finding \cup {"rkill", "lookup", "check"} BY DEF Removing, Cleaning, Finding
<1>12. Has(o, "kill", Nil) /\ o.id # Nil /\ pathOf[o.id] = p
  <2>1. RemoveOK(o) BY <1>4 DEF HandlerOK
  <2>2. ~ HeadIn(o, Finding) BY <1>4, <1>11 DEF HeadIn
  <2> QED BY <1>4, <1>10, <2>1, <2>2 DEF RemoveOK
<1>13. Continues(r, q, more)
  <2>1. ASSUME Replies(r, q, more) PROVE FALSE
    <3>1. Len(o.plan) = 1 BY <1>4, <1>5, <1>9, <2>1, Ended DEF Replies
    <3>2. \A n \in 1..Len(o.plan) : o.plan[n] = Head(o.plan) BY SMT, <1>9, <3>1
    <3> QED BY <1>4, <1>11, <1>12, <3>2 DEF Has, Cleaning
  <2> QED BY <1>8, <2>1
<1>14. Pushes(o, q, more) BY <1>4, <1>5, <1>13 DEF Continues, Pushes
<1>15. q.id = o.id /\ q.op = o.op /\ q.to = o.to /\ q.gone = G /\ q.left = o.left /\ UNCHANGED <<known, left>>
  BY <1>5, <1>13 DEF Continues, Same
<1>16. HandlerOK(o)' BY <1>4, HandlerKept
<1>17. HandlerOK(q)'
  <2>1. IdOK(o)' BY <1>16 DEF HandlerOK
  <2>2. IdOK(q)' BY <1>4, <1>11, <1>14, <1>15, <2>1, IdPushed DEF Cleaning
  <2>3. Len(more) = 0 BY SMT, <1>6
  <2>4. Head(o.plan).do \in Removing \cup Renaming /\ Head(o.plan).do \notin Finding BY <1>4, <1>11
  <2> QED BY <1>6, <1>14, <1>15, <1>16, <2>2, <2>3, <2>4, PushOK
<1>18. DropsStay(r, q) /\ KillOld(r, q) /\ NotServing(q)
  BY <1>4, <1>5, <1>6, <1>11, <1>13, ContinuesQuiet DEF Cleaning
<1>19. DropsStay(o, q) /\ KillOld(o, q)
  <2>1. \A t, i : Dropping(o, t, i) => Dropping(r, t, i) BY <1>5 DEF Dropping
  <2>2. Has(r, "kill", Nil) => Has(o, "kill", Nil) BY <1>5 DEF Has
  <2> QED BY <1>5, <1>18, <2>1, <2>2 DEF DropsStay, KillOld
<1>20. AppendsStay(o, q) BY <1>4, <1>11, <1>14, AppendsPushed DEF Cleaning
<1>21. Has(q, "kill", Nil)
  <2>1. Stays(o, q, "kill", Nil) BY <1>4, <1>14, HasPushed
  <2> QED BY <1>4, <1>11, <1>12, <2>1 DEF Stays, Cleaning
<1>22. o.gone = {} BY <1>11, NoneGone
<1>23. q.id \in Ids /\ pathOf[q.id] = p BY <1>8, <1>12, <1>15, Fields
<1>24. Removes(c, o, q, p)
  BY <1>1, <1>8, <1>15, <1>17, <1>18, <1>19, <1>20, <1>21, <1>22, <1>23 DEF Removes
<1> QED BY <1>24

\* fs.Remove.
LEMMA RemoveStep ==
  ASSUME IInv, NEW c \in Conns, RemoveFile(c)
  PROVE  /\ Grows /\ Head(req[c].plan).do \in Removing
         /\ \/ Calm(c) /\ inode' = inode
            \/ \E q \in Handlers : \E p : Removes(c, req[c], q, p)
<1>1. PICK do \in Removing : At(c, do) BY DEF RemoveFile, Removing
<1>2. PICK o : Acting(c, o, do) BY <1>1, Act
<1>3. Grows BY SameMaps DEF RemoveFile, mapVars
<1>4. PICK p \in Paths : p = Arg(c) BY <1>1, <1>2 DEF Acting, StepOK, OnPath, Removing
<1>5. o = req[c] /\ p = Head(o.plan).arg /\ Head(req[c].plan).do \in Removing
  BY <1>1, <1>2, <1>4 DEF Acting
<1>6. do \notin Finding \cup Cleaning \cup {"lookup", "check", "rkill"}
  BY <1>1 DEF Finding, Cleaning, Removing
<1>7. CASE inode[p] # Nil /\ inode' = [inode EXCEPT ![p] = Nil]
           /\ GoOn(c, <<>>, [o EXCEPT !.gone = {<<p, inode[p]>>}])
  <2>1. \E q \in Handlers : Removes(c, o, q, p) BY <1>1, <1>2, <1>3, <1>5, <1>7, GoneStep
  <2> QED BY <1>3, <1>5, <2>1
<1>8. CASE Fail(c) /\ inode' = inode
  BY <1>2, <1>3, <1>5, <1>6, <1>8, Ends
<1>9. CASE inode' = inode /\ At(c, "remove") /\ GoOn(c, <<Drop(Nil), Step("remove2", p)>>, o)
  <2>2. "remove2" \in Labels BY DEF Labels
  <2>3. PICK s : IsStep(s, "remove2", p) BY <2>2, MakeStep
  <2>4. PICK d : IsStep(d, "drop", Nil) /\ d = Drop(Nil) BY MakeDrop
  <2>5. s = Step("remove2", p) /\ s \in Steps /\ d \in Steps BY <2>3, <2>4 DEF IsStep
  <2>6. PICK more : more = <<d, s>> OBVIOUS
  <2>7. OneOrTwo(more, d, s) /\ GoOn(c, more, o)
    <3>1. GoOn(c, more, o) BY <1>9, <2>4, <2>5, <2>6
    <3> QED BY <2>5, <2>6, <3>1, Both
  <2>8. Fit(Head(o.plan), d)
    <3>1. Cleans(d) BY <2>4 DEF IsStep, Cleans, Carries
    <3> QED BY <3>1, FitClean
  <2>9. Fit(Head(o.plan), s)
    <3>1. s.arg = p /\ s.do = "remove2" /\ Head(o.plan).do = "remove" /\ Head(o.plan).arg = p
      BY <1>5, <1>9, <2>3 DEF IsStep, At
    <3> QED BY <3>1, FitPath
  <2>10. Ordered(d, s)
    BY <2>3, <2>4 DEF IsStep, Ordered, Alone, Carries, Removing, Renaming, Finding
  <2>12. Calm(c)
    BY <1>2, <1>3, <1>6, <2>7, <2>8, <2>9, <2>10, Retries
  <2> QED BY <1>3, <1>5, <1>9, <2>12
<1> QED BY <1>4, <1>5, <1>7, <1>8, <1>9 DEF RemoveFile
=============================================================================
