-------------------------- MODULE HandleLifeProofs --------------------------
(***************************************************************************)
(* Proofs about HandleLife, for any number of connections, paths, handles, *)
(* files and requests and any size of the handle cache: its inductive      *)
(* invariant, and with it that handles can be found by their paths, that   *)
(* the fds of handles that are gone are dropped, and that no file that a   *)
(* REMOVE or RENAME took away is served under the name it had.             *)
(***************************************************************************)
EXTENDS HandleLifeLemmas

\* Leaves are for Zenon; those about numbers and sequences name SMT.
USE Zenon

-----------------------------------------------------------------------------
(* What RENAME, READ and WRITE do.                                         *)

\* At most two ids, none of them Nil.
Pair(a, b) == (IF a = Nil THEN <<>> ELSE <<a>>) \o (IF b \in {Nil, a} THEN <<>> ELSE <<b>>)
IsPair(hs, a, b) ==
  /\ hs \in Seq(Ids) /\ \A n \in 1..Len(hs) : hs[n] \in {a, b} /\ hs[n] # Nil
  /\ \A x \in {a, b} : x # Nil => \E n \in 1..Len(hs) : hs[n] = x

\* A sequence of them.
LEMMA PairIs ==
  ASSUME NEW a \in Ids \cup {Nil}, NEW b \in Ids \cup {Nil}
  PROVE  IsPair(Pair(a, b), a, b)
<1>1. CASE a = Nil /\ b = Nil
  <2>1. Pair(a, b) = <<>> \o <<>> BY <1>1 DEF Pair
  <2>2. PICK hs : hs = <<>> \o <<>> OBVIOUS
  <2>3. hs \in Seq(Ids) /\ Len(hs) = 0 BY SMT, <2>2
  <2>4. \A n \in 1..Len(hs) : FALSE BY SMT, <2>3
  <2> QED BY <1>1, <2>1, <2>2, <2>3, <2>4 DEF IsPair
<1>2. CASE a = Nil /\ b # Nil
  <2>1. Pair(a, b) = <<>> \o <<b>> BY <1>2 DEF Pair
  <2>2. PICK hs : hs = <<>> \o <<b>> OBVIOUS
  <2>3. hs \in Seq(Ids) /\ Len(hs) = 1 /\ hs[1] = b BY SMT, <1>2, <2>2
  <2>4. 1 \in 1..Len(hs) /\ \A n \in 1..Len(hs) : n = 1 BY SMT, <2>3
  <2> QED BY <1>2, <2>1, <2>2, <2>3, <2>4 DEF IsPair
<1>3. CASE a # Nil /\ b \in {Nil, a}
  <2>1. Pair(a, b) = <<a>> \o <<>> BY <1>3 DEF Pair
  <2>2. PICK hs : hs = <<a>> \o <<>> OBVIOUS
  <2>3. hs \in Seq(Ids) /\ Len(hs) = 1 /\ hs[1] = a BY SMT, <1>3, <2>2
  <2>4. 1 \in 1..Len(hs) /\ \A n \in 1..Len(hs) : n = 1 BY SMT, <2>3
  <2> QED BY <1>3, <2>1, <2>2, <2>3, <2>4 DEF IsPair
<1>4. CASE a # Nil /\ b \notin {Nil, a}
  <2>1. Pair(a, b) = <<a>> \o <<b>> BY <1>4 DEF Pair
  <2>2. PICK x, y : x = <<a>> /\ y = <<b>> OBVIOUS
  <2>3. \A z \in Ids : <<z>> \in Seq(Ids) /\ Len(<<z>>) = 1 /\ <<z>>[1] = z BY SMT
  <2>4. x \in Seq(Ids) /\ y \in Seq(Ids) /\ Len(x) = 1 /\ Len(y) = 1 /\ x[1] = a /\ y[1] = b
    BY <1>4, <2>2, <2>3
  <2>5. PICK hs : hs = x \o y OBVIOUS
  <2>6. /\ hs \in Seq(Ids) /\ Len(hs) = Len(x) + Len(y)
        /\ \A m \in 1..Len(x) : hs[m] = x[m]
        /\ \A m \in 1..Len(y) : hs[m + Len(x)] = y[m]
    <3>1. Concat(Ids, x, y, hs) BY <2>4, <2>5, Joined
    <3> QED BY <3>1 DEF Concat
  <2>7. Len(hs) = 2 /\ hs[1] = a /\ hs[2] = b BY SMT, <2>4, <2>6
  <2>8. 1 \in 1..Len(hs) /\ 2 \in 1..Len(hs) /\ \A n \in 1..Len(hs) : n = 1 \/ n = 2 BY SMT, <2>7
  <2> QED BY <1>4, <2>1, <2>2, <2>5, <2>6, <2>7, <2>8 DEF IsPair
<1> QED BY <1>1, <1>2, <1>3, <1>4

\* The steps of RENAME for the ids that it found.
Each(more, hs, E) ==
  /\ more \in Seq(Steps) /\ \A n \in 1..Len(more) : more[n] \in E
  /\ Len(hs) = 0 => Len(more) = 0

\* A drop of each,
LEMMA EachDrop ==
  ASSUME NEW hs \in Seq(Ids)
  PROVE  LET more == [n \in 1..Len(hs) |-> Drop(hs[n])] IN
         Each(more, hs, {Drop(hs[n]) : n \in 1..Len(hs)})
<1>1. \A n \in 1..Len(hs) : Drop(hs[n]) \in Steps
  <2>1. "drop" \in Labels BY DEF Labels
  <2>2. \A n \in 1..Len(hs) : hs[n] \in Ids BY SMT
  <2> QED BY <2>1, <2>2, StepFields DEF Drop
<1>2. PICK more : more = [n \in 1..Len(hs) |-> Drop(hs[n])] OBVIOUS
<1>3. more \in Seq(Steps) /\ Len(more) = Len(hs) BY SMT, <1>1, <1>2
<1>4. \A n \in 1..Len(hs) : more[n] = Drop(hs[n]) BY <1>2
<1> QED BY <1>2, <1>3, <1>4 DEF Each

\* or an invalidation and a drop.
LEMMA EachKill ==
  ASSUME NEW hs \in Seq(Ids)
  PROVE  LET more == [n \in 1..(2 * Len(hs)) |->
                        IF n % 2 = 1 THEN Step("kill", hs[(n + 1) \div 2]) ELSE Drop(hs[n \div 2])] IN
         /\ Each(more, hs, {Drop(hs[n]) : n \in 1..Len(hs)} \cup {Step("kill", hs[n]) : n \in 1..Len(hs)})
         /\ \A m \in 1..Len(hs) : \E n \in 1..Len(more) : more[n] = Step("kill", hs[m])
<1>1. \A n \in 1..Len(hs) : Drop(hs[n]) \in Steps /\ Step("kill", hs[n]) \in Steps
  <2>1. "drop" \in Labels /\ "kill" \in Labels BY DEF Labels
  <2>2. \A n \in 1..Len(hs) : hs[n] \in Ids BY SMT
  <2> QED BY <2>1, <2>2, StepFields DEF Drop
<1>2. PICK more : more = [n \in 1..(2 * Len(hs)) |->
                        IF n % 2 = 1 THEN Step("kill", hs[(n + 1) \div 2]) ELSE Drop(hs[n \div 2])]
  OBVIOUS
<1>3. ASSUME NEW n \in 1..(2 * Len(hs))
      PROVE  /\ n % 2 = 1 => (n + 1) \div 2 \in 1..Len(hs)
             /\ n % 2 # 1 => n \div 2 \in 1..Len(hs)
  BY SMT
<1>4. ASSUME NEW n \in 1..(2 * Len(hs))
      PROVE  /\ n % 2 = 1 => more[n] = Step("kill", hs[(n + 1) \div 2])
             /\ n % 2 # 1 => more[n] = Drop(hs[n \div 2])
  BY <1>2
<1>5. \A n \in 1..(2 * Len(hs)) : more[n] \in Steps BY <1>1, <1>3, <1>4
<1>6. more \in Seq(Steps) /\ Len(more) = 2 * Len(hs)
  <2>1. more = [n \in 1..(2 * Len(hs)) |-> more[n]] BY <1>2
  <2>2. 2 * Len(hs) \in Nat BY SMT
  <2> QED BY SMT, <1>5, <2>1, <2>2
<1>7. ASSUME NEW m \in 1..Len(hs)
      PROVE  2 * m - 1 \in 1..(2 * Len(hs)) /\ (2 * m - 1) % 2 = 1 /\ ((2 * m - 1) + 1) \div 2 = m
  BY SMT
<1>8. \A n \in 1..Len(more) : more[n] \in {Drop(hs[k]) : k \in 1..Len(hs)} \cup {Step("kill", hs[k]) : k \in 1..Len(hs)}
  BY <1>3, <1>4, <1>6
<1>9. \A m \in 1..Len(hs) : \E n \in 1..Len(more) : more[n] = Step("kill", hs[m])
  BY <1>4, <1>6, <1>7
<1>10. Len(hs) = 0 => Len(more) = 0 BY SMT, <1>6
<1> QED BY <1>2, <1>6, <1>8, <1>9, <1>10 DEF Each

\* resolveHandles finds the ids of the two paths.
Resolves(c, o, hs, p, x) ==
  /\ hs = Resolved(c) /\ hs \in Seq(Ids) /\ p \in Paths /\ x \in Paths
  /\ p = Head(o.plan).arg /\ x = o.to
  /\ \A n \in 1..Len(hs) : hs[n] \in Ids /\ hs[n] # Nil /\ Minted(hs[n])
  /\ \A y \in {p, x} : Cached(y) # Nil => \E n \in 1..Len(hs) : hs[n] = Cached(y)

\* Those that resolve.
LEMMA ResolvedIs ==
  ASSUME IInv, NEW c \in Conns, NEW o, NEW do \in {"rdrop", "rkill"}, Acting(c, o, do)
  PROVE  \E hs, p, x : Resolves(c, o, hs, p, x)
<1>1. o = req[c] /\ o \in Handlers /\ o.plan # <<>> /\ HandlerOK(o) /\ Head(o.plan).do = do
      /\ Arg(c) = Head(o.plan).arg
  BY DEF Acting
<1>2. PICK p \in Paths : p = Head(o.plan).arg BY DEF Acting, StepOK, OnPath
<1>3. PICK x \in Paths : x = o.to
  <2>1. o.plan \in Seq(Steps) /\ o.to \in Paths \cup {Nil} BY <1>1, Fields
  <2>2. Head(o.plan) = o.plan[1] /\ 1 \in 1..Len(o.plan) BY SMT, <1>1, <2>1
  <2>3. o.to # Nil BY <1>1, <2>2 DEF HandlerOK, RenameOK
  <2> QED BY <2>1, <2>3
<1>4. PICK a : a = Cached(p) OBVIOUS
<1>5. PICK b : b = Cached(x) OBVIOUS
<1>6. a \in Ids \cup {Nil} /\ b \in Ids \cup {Nil} /\ (a # Nil => Minted(a)) /\ (b # Nil => Minted(b))
  BY <1>4, <1>5, CachedIs DEF Findable
<1>7. PICK hs : hs = Resolved(c) OBVIOUS
<1>8. hs = Pair(a, b) BY <1>1, <1>2, <1>3, <1>4, <1>5, <1>7 DEF Resolved, Pair
<1>9. IsPair(hs, a, b) BY <1>6, <1>8, PairIs
<1>10. \A n \in 1..Len(hs) : hs[n] \in Ids /\ hs[n] # Nil /\ Minted(hs[n])
  BY <1>6, <1>9 DEF IsPair, Minted
<1>11. \A y \in {p, x} : Cached(y) # Nil => \E n \in 1..Len(hs) : hs[n] = Cached(y)
  BY <1>4, <1>5, <1>9 DEF IsPair
<1>12. Resolves(c, o, hs, p, x)
  BY <1>2, <1>3, <1>7, <1>9, <1>10, <1>11 DEF Resolves, IsPair
<1> QED BY <1>12

\* Drops of ids fit, and so do invalidations after a RENAME.
LEMMA RenameFits ==
  ASSUME Grows, NEW hs \in Seq(Ids), \A n \in 1..Len(hs) : hs[n] \in Ids /\ hs[n] # Nil /\ Minted(hs[n]),
         NEW h, NEW more, NEW K,
         K = {Step("kill", hs[n]) : n \in 1..Len(hs)} \/ K = {},
         K # {} => h.do = "rkill",
         Each(more, hs, {Drop(hs[n]) : n \in 1..Len(hs)} \cup K)
  PROVE  Fits(h, more)
<1>1. PICK E : E = {Drop(hs[n]) : n \in 1..Len(hs)} \cup K OBVIOUS
<1>2. "drop" \in Labels /\ "kill" \in Labels BY DEF Labels
<1>3. ASSUME NEW s \in E
      PROVE  /\ s.do \in {"kill", "drop"} /\ Minted(s.arg)' /\ s.arg # Nil
             /\ s.do = "kill" => h.do = "rkill"
  <2>1. CASE s \in K
    <3>1. PICK n \in 1..Len(hs) : s = Step("kill", hs[n]) BY <2>1
    <3>2. s.do = "kill" /\ s.arg = hs[n] BY <3>1 DEF Step
    <3> QED BY <2>1, <3>2 DEF Grows
  <2>2. CASE s \notin K
    <3>1. PICK n \in 1..Len(hs) : s = Step("drop", hs[n]) BY <1>1, <2>2 DEF Drop
    <3>2. s.do = "drop" /\ s.arg = hs[n] BY <3>1 DEF Step
    <3> QED BY <3>2 DEF Grows
  <2> QED BY <2>1, <2>2
<1>4. \A s \in E : Fit(h, s)
  <2>1. ASSUME NEW s \in E PROVE Fit(h, s)
    <3>1. CASE s.do = "kill" BY <1>3, <3>1, FitKill
    <3>2. CASE s.do = "drop"
      <4>1. Cleans(s) BY <1>3, <3>2 DEF Cleans
      <4> QED BY <4>1, FitClean
    <3> QED BY <1>3, <3>1, <3>2
  <2> QED BY <2>1
<1>5. \A s, t \in E : Ordered(s, t)
  BY <1>3 DEF Ordered, Alone, Cleaning, Finishing, Finding, Removing, Renaming
<1>6. AnyOrder(h, more, E) BY <1>1, <1>4, <1>5 DEF AnyOrder, Each
<1> QED BY <1>6, FitsAll

\* resolveHandles and the drops before the rename.
LEMMA RenameDropStep ==
  ASSUME IInv, NEW c \in Conns, RenameDrop(c)
  PROVE  Calm(c)
<1>1. PICK o : Acting(c, o, "rdrop") BY Act DEF RenameDrop
<1>2. Grows BY SameMaps DEF RenameDrop, mapVars
<1>3. PICK hs, p, x : Resolves(c, o, hs, p, x) BY <1>1, ResolvedIs
<1>4. hs \in Seq(Ids) /\ hs = Resolved(c) /\ \A n \in 1..Len(hs) : hs[n] \in Ids /\ hs[n] # Nil /\ Minted(hs[n])
  BY <1>3 DEF Resolves
<1>5. PICK more : more = [n \in 1..Len(hs) |-> Drop(hs[n])] OBVIOUS
<1>6. PICK K : K = {} OBVIOUS
<1>7. Each(more, hs, {Drop(hs[n]) : n \in 1..Len(hs)}) BY <1>4, <1>5, EachDrop
<1>8. Each(more, hs, {Drop(hs[n]) : n \in 1..Len(hs)} \cup K) BY <1>6, <1>7 DEF Each
<1>9. Fits(Head(o.plan), more) BY <1>2, <1>4, <1>6, <1>8, RenameFits
<1>10. GoOn(c, more, o) BY <1>1, <1>4, <1>5 DEF RenameDrop, Acting
<1>11. Advances(c, o, "rdrop", more) BY <1>1, <1>2, <1>7, <1>9, <1>10 DEF Advances, Finding, Each
<1> QED BY <1>1, <1>2, <1>11, Onward DEF Acting, Calm

\* resolveHandles and the invalidations after the rename.
LEMMA RenameKillStep ==
  ASSUME IInv, NEW c \in Conns, RenameKill(c)
  PROVE  Grows /\ \E q \in Handlers : \E p, x : Plain(c, req[c], q) /\ Rekills(req[c], q, p, x)
<1>1. PICK o : Acting(c, o, "rkill") BY Act DEF RenameKill
<1>2. Grows BY SameMaps DEF RenameKill, mapVars
<1>3. PICK hs, p, x : Resolves(c, o, hs, p, x) BY <1>1, ResolvedIs
<1>4. hs \in Seq(Ids) /\ hs = Resolved(c) /\ \A n \in 1..Len(hs) : hs[n] \in Ids /\ hs[n] # Nil /\ Minted(hs[n])
  BY <1>3 DEF Resolves
<1>5. PICK more : more = [n \in 1..(2 * Len(hs)) |->
                        IF n % 2 = 1 THEN Step("kill", hs[(n + 1) \div 2]) ELSE Drop(hs[n \div 2])]
  OBVIOUS
<1>6. PICK K : K = {Step("kill", hs[n]) : n \in 1..Len(hs)} OBVIOUS
<1>7. /\ Each(more, hs, {Drop(hs[n]) : n \in 1..Len(hs)} \cup K)
      /\ \A m \in 1..Len(hs) : \E n \in 1..Len(more) : more[n] = Step("kill", hs[m])
  BY <1>4, <1>5, <1>6, EachKill
<1>8. o = req[c] /\ o \in Handlers /\ o.plan # <<>> /\ OrderOK(o.plan) /\ Head(o.plan).do = "rkill"
  BY <1>1 DEF Acting
<1>9. Fits(Head(o.plan), more) BY <1>2, <1>4, <1>6, <1>7, <1>8, RenameFits
<1>10. GoOn(c, more, o) /\ more \in Seq(Steps) BY <1>4, <1>5, <1>7, <1>8 DEF RenameKill, Each
<1>11. Advances(c, o, "rkill", more) BY <1>1, <1>2, <1>9, <1>10 DEF Advances, Finding
<1>12. PICK q \in Handlers : Plain(c, o, q) /\ (Replies(o, q, more) \/ Continues(o, q, more))
  BY <1>11, Onward
<1>13. p \in Paths /\ x \in Paths /\ p = Head(o.plan).arg /\ x = o.to
       /\ \A y \in {p, x} : Cached(y) # Nil => \E n \in 1..Len(hs) : hs[n] = Cached(y)
  BY <1>3 DEF Resolves
<1>14. CASE Replies(o, q, more)
  <2>1. o.plan \in Seq(Steps) BY <1>8, Fields
  <2>2. Len(o.plan) = 1 /\ Len(more) = 0 BY <1>8, <1>10, <1>14, <2>1, Ended DEF Replies
  <2>3. (\A n \in 1..Len(o.plan) : o.plan[n] = Head(o.plan)) /\ \A m \in 1..Len(more) : FALSE BY SMT, <2>1, <2>2
  <2>4. \A n \in 1..Len(hs) : FALSE BY <1>7, <2>3
  <2>5. \A y \in {p, x} : Cached(y) = Nil BY <1>13, <2>4
  <2>6. \A j, y : Killing(o, j, y) => y \in {p, x} BY <1>8, <1>13, <2>3 DEF Killing, Has
  <2>7. q.gone = {} /\ left' = left \cup o.gone BY <1>14, Idle DEF Replies
  <2>8. Rekills(o, q, p, x) BY <1>8, <1>13, <2>5, <2>6, <2>7 DEF Rekills
  <2> QED BY <1>2, <1>8, <1>12, <2>8
<1>15. CASE Continues(o, q, more)
  <2>1. Pushes(o, q, more) /\ Same(o, q) /\ left' = left BY <1>15 DEF Continues
  <2>2. ASSUME NEW y \in {p, x}, Cached(y) # Nil PROVE Has(q, "kill", Cached(y))
    <3>1. PICK m \in 1..Len(hs) : hs[m] = Cached(y) BY <1>13, <2>2
    <3>2. PICK n \in 1..Len(more) : more[n] = Step("kill", hs[m]) BY <1>7
    <3>3. In(more[n], q.plan) BY <1>8, <2>1, PushedSteps
    <3>4. more[n].do = "kill" /\ more[n].arg = Cached(y)
      <4>1. PICK s : s = Step("kill", hs[m]) OBVIOUS
      <4>2. s.do = "kill" /\ s.arg = hs[m] BY <4>1 DEF Step
      <4> QED BY <3>1, <3>2, <4>1, <4>2
    <3> QED BY <3>3, <3>4 DEF In, Has
  <2>3. ASSUME NEW j, NEW y, Killing(o, j, y) PROVE Killing(q, j, y) \/ y \in {p, x}
    <3>1. Stays(o, q, "kill", j) /\ Stays(o, q, "kill", Nil) BY <1>8, <2>1, HasPushed
    <3>2. CASE Has(o, "kill", j) \/ (Has(o, "kill", Nil) /\ o.id = j)
      BY <1>8, <2>1, <3>1, <3>2 DEF Stays, Killing, Same
    <3>3. CASE \E n \in 1..Len(o.plan) : o.plan[n].do = "rkill" /\ y \in {o.plan[n].arg, o.to}
      <4>1. PICK n \in 1..Len(o.plan) : o.plan[n].do = "rkill" /\ y \in {o.plan[n].arg, o.to}
        BY <3>3
      <4>2. CASE o.plan[n] = Head(o.plan) BY <1>13, <4>1, <4>2
      <4>3. CASE o.plan[n] # Head(o.plan)
        <5>1. In(o.plan[n], q.plan) BY <1>8, <2>1, <4>3, PushedSteps
        <5>2. q.to = o.to BY <2>1 DEF Same
        <5> QED BY <4>1, <5>1, <5>2 DEF In, Killing
      <4> QED BY <4>2, <4>3
    <3> QED BY <2>3, <3>2, <3>3 DEF Killing
  <2>4. q.gone = o.gone BY <2>1 DEF Same
  <2>5. Rekills(o, q, p, x) BY <1>8, <1>13, <2>1, <2>2, <2>3, <2>4 DEF Rekills
  <2> QED BY <1>2, <1>8, <1>12, <2>5
<1> QED BY <1>12, <1>14, <1>15

\* The plan without its head.
LEMMA TailPushed ==
  \A t \in Seq(Steps) : t # <<>> => <<>> \o Tail(t) = Tail(t) /\ Tail(t) \in Seq(Steps)
  BY SMT

Moves(c, o, q, p, x) ==
  LET back == {<<x, inode[p]>>} IN
  /\ p \in Paths /\ p = Head(o.plan).arg /\ x = o.to /\ inode[p] # Nil
  /\ inode' = IF p = x THEN inode ELSE [inode EXCEPT ![x] = inode[p], ![p] = Nil]
  /\ left' = left \ back /\ known' = known
  /\ q = [o EXCEPT !.plan = Tail(@), !.left = @ \ back,
             !.gone = IF p = x THEN {} ELSE {<<p, inode[p]>>, <<x, inode[x]>>} \cap Pairs]
  /\ req' = [d \in Conns |-> IF d = c THEN q ELSE [req[d] EXCEPT !.gone = @ \ back, !.left = @ \ back]]

\* fs.Rename succeeds.
LEMMA MovedStep ==
  ASSUME IInv, NEW c \in Conns, NEW o, NEW do \in Renaming, Acting(c, o, do), Grows,
         NEW q, NEW p, NEW x, Moves(c, o, q, p, x)
  PROVE  q \in Handlers /\ Renames(c, o, q, p, x)
<1>0. p \in Paths /\ p = Head(o.plan).arg /\ x = o.to BY DEF Moves
<1>1. PICK G : G = IF p = x THEN {} ELSE {<<p, inode[p]>>, <<x, inode[x]>>} \cap Pairs OBVIOUS
<1>2. PICK L : L = o.left \ {<<x, inode[p]>>} OBVIOUS
<1>3. PICK t : t = Tail(o.plan) OBVIOUS
<1>4. o \in Handlers /\ o.plan # <<>> /\ OrderOK(o.plan) /\ Head(o.plan).do = do /\ HandlerOK(o)
  BY DEF Acting
<1>5. o.plan \in Seq(Steps) /\ o.left \subseteq Pairs BY <1>4, Fields
<1>6. t \in Seq(Steps) /\ <<>> \o t = t BY <1>3, <1>4, <1>5, TailPushed
<1>7. G \subseteq Pairs /\ L \subseteq Pairs BY <1>1, <1>2, <1>5
<1>8. q = [o EXCEPT !.plan = t, !.left = L, !.gone = G] BY <1>1, <1>2, <1>3 DEF Moves
<1>9. /\ q \in Handlers /\ q.gone = G /\ q.plan = t /\ q.id = o.id /\ q.op = o.op /\ q.to = o.to
      /\ q.left = L
  BY <1>4, <1>6, <1>7, <1>8 DEF Handlers
<1>10. PICK more \in Seq(Steps) : more = <<>> /\ Fits(Head(o.plan), more) BY Short
<1>11. Pushes(o, q, more) BY <1>3, <1>4, <1>6, <1>9, <1>10 DEF Pushes
<1>12. do \notin Cleaning \cup Finding \cup {"rkill", "lookup", "check"} BY DEF Renaming, Cleaning, Finding
<1>13. Head(o.plan) = o.plan[1] /\ 1 \in 1..Len(o.plan) BY SMT, <1>4, <1>5
<1>14. Has(o, "rkill", p) /\ x # Nil BY <1>0, <1>4, <1>13 DEF HandlerOK, RenameOK
<1>15. x \in Paths BY <1>0, <1>4, <1>14, Fields
<1>16. Has(q, "rkill", p)
  <2>1. Stays(o, q, "rkill", p) BY <1>4, <1>11, HasPushed
  <2> QED BY <1>4, <1>12, <1>14, <2>1 DEF Stays
<1>17. HandlerOK(o)' BY <1>4, HandlerKept
<1>18. HandlerOK(q)'
  <2>1. IdOK(o)' BY <1>17 DEF HandlerOK
  <2>2. IdOK(q)' BY <1>4, <1>9, <1>11, <1>12, <2>1, IdPushed DEF Cleaning
  <2>3. Len(more) = 0 BY SMT, <1>10
  <2>4. Head(o.plan).do \in Removing \cup Renaming /\ Head(o.plan).do \notin Finding BY <1>4, <1>12
  <2> QED BY <1>9, <1>10, <1>11, <1>17, <2>2, <2>3, <2>4, PushOK
<1>19. KillOld(o, q)
  <2>1. Came(o, q, more, "kill", Nil) BY <1>4, <1>11, HasBefore
  <2>2. \A n \in 1..Len(more) : FALSE BY SMT, <1>10
  <2> QED BY <1>9, <2>1, <2>2 DEF Came, KillOld
<1>20. NotServing(q)
  <2>1. \A n \in 1..Len(more) : more[n].do \notin Serving BY <1>10 DEF Fits, Fit
  <2> QED BY <1>4, <1>11, <2>1, ServePushed DEF NotServing
<1>21. DropsStay(o, q)
  <2> SUFFICES ASSUME NEW d \in Conns, NEW j \in Ids, Dropping(o, d, j) PROVE Dropping(q, d, j)
    BY DEF DropsStay
  <2>1. PICK n \in 1..Len(o.plan) : o.plan[n].do = "drop" /\ o.plan[n].arg = j /\ d \in o.plan[n].todo
    BY DEF Dropping
  <2>2. o.plan[n] # Head(o.plan) BY <1>4, <1>12, <2>1 DEF Cleaning
  <2>3. In(o.plan[n], q.plan) BY <1>4, <1>11, <2>2, PushedSteps
  <2> QED BY <2>1, <2>3 DEF Dropping, In
<1>22. AppendsStay(o, q) BY <1>4, <1>11, <1>12, AppendsPushed DEF Cleaning
<1>23. o.gone = {} BY <1>12, NoneGone
<1> QED BY <1>1, <1>2, <1>9, <1>15, <1>16, <1>18, <1>19, <1>20, <1>21, <1>22, <1>23 DEF Renames, Moves

\* fs.Rename.
LEMMA RenameStep ==
  ASSUME IInv, NEW c \in Conns, RenameFile(c)
  PROVE  /\ Grows /\ Head(req[c].plan).do \in Renaming
         /\ \/ Calm(c) /\ inode' = inode
            \/ \E q \in Handlers : \E p, x : Renames(c, req[c], q, p, x)
<1>1. PICK do \in Renaming : At(c, do) BY DEF RenameFile, Renaming
<1>2. PICK o : Acting(c, o, do) BY <1>1, Act
<1>3. Grows BY SameMaps DEF RenameFile, mapVars
<1>4. PICK p \in Paths : p = Arg(c) BY <1>1, <1>2 DEF Acting, StepOK, OnPath, Renaming
<1>5. o = req[c] /\ p = Head(o.plan).arg /\ Head(req[c].plan).do \in Renaming
  BY <1>1, <1>2, <1>4 DEF Acting
<1>6. do \notin Finding \cup Cleaning \cup {"lookup", "check", "rkill"}
  BY <1>1 DEF Finding, Cleaning, Renaming
<1>7. PICK x : x = o.to OBVIOUS
<1>8. PICK q : q = [o EXCEPT !.plan = Tail(@), !.left = @ \ {<<x, inode[p]>>},
                       !.gone = IF p = x THEN {} ELSE {<<p, inode[p]>>, <<x, inode[x]>>} \cap Pairs]
  OBVIOUS
<1>9. CASE Moves(c, o, q, p, x)
  <2>1. q \in Handlers /\ Renames(c, o, q, p, x) BY <1>1, <1>2, <1>3, <1>9, MovedStep
  <2> QED BY <1>3, <1>5, <2>1
<1>10. CASE Fail(c) /\ inode' = inode
  BY <1>2, <1>3, <1>5, <1>6, <1>10, Ends
<1>11. CASE inode' = inode /\ At(c, "rename") /\ GoOn(c, <<Step("rdrop", p), Step("rename2", p)>>, o)
  <2>2. "rename2" \in Labels /\ "rdrop" \in Labels BY DEF Labels
  <2>3. PICK s : IsStep(s, "rename2", p) BY <2>2, MakeStep
  <2>4. PICK d : IsStep(d, "rdrop", p) BY <2>2, MakeStep
  <2>5. s = Step("rename2", p) /\ d = Step("rdrop", p) /\ s \in Steps /\ d \in Steps
    BY <2>3, <2>4 DEF IsStep
  <2>6. PICK more : more = <<d, s>> OBVIOUS
  <2>7. OneOrTwo(more, d, s) /\ GoOn(c, more, o)
    <3>1. GoOn(c, more, o) BY <1>11, <2>5, <2>6
    <3> QED BY <2>5, <2>6, <3>1, Both
  <2>8. Fit(Head(o.plan), d) /\ Fit(Head(o.plan), s)
    <3>1. s.arg = p /\ s.do = "rename2" /\ d.arg = p /\ d.do = "rdrop"
          /\ Head(o.plan).do = "rename" /\ Head(o.plan).arg = p
      BY <1>5, <1>11, <2>3, <2>4 DEF IsStep, At
    <3> QED BY <3>1, FitPath
  <2>10. Ordered(d, s)
    BY <2>3, <2>4 DEF IsStep, Ordered, Alone, Carries, Removing, Renaming, Finding
  <2>12. Calm(c)
    BY <1>2, <1>3, <1>6, <2>7, <2>8, <2>10, Retries
  <2> QED BY <1>3, <1>5, <1>11, <2>12
<1> QED
  <2>1. RenameFile(c) OBVIOUS
  <2> QED BY <1>4, <1>5, <1>7, <1>8, <1>9, <1>10, <1>11, <2>1 DEF RenameFile, Moves

\* READ and WRITE have one step planned at a time.
LEMMA Lone ==
  ASSUME NEW o \in Handlers, o.plan # <<>>, OrderOK(o.plan), Head(o.plan).do \in Alone
  PROVE  /\ \A n \in 1..Len(o.plan) : o.plan[n] = Head(o.plan)
         /\ \A more \in Seq(Steps) : more \o Tail(o.plan) = more
         /\ \A q : DropsStay(o, q) /\ AppendsStay(o, q)
<1>1. o.plan \in Seq(Steps) BY Fields
<1>2. Head(o.plan) = o.plan[1] /\ 1 \in 1..Len(o.plan) /\ \A n \in 1..Len(o.plan) : n = 1 \/ 1 < n BY SMT, <1>1
<1>3. \A n \in 1..Len(o.plan) : n = 1
  <2>1. \A n \in 1..Len(o.plan) : 1 < n => Ordered(Head(o.plan), o.plan[n]) BY <1>2 DEF OrderOK
  <2> QED BY <1>2, <2>1 DEF Ordered
<1>4. \A n \in 1..Len(o.plan) : o.plan[n] = Head(o.plan) BY <1>2, <1>3
<1>5. PICK t : t = Tail(o.plan) OBVIOUS
<1>6. Len(o.plan) = 1
  <2>1. Len(o.plan) \in 1..Len(o.plan) BY SMT, <1>1, <1>2
  <2> QED BY <1>3, <2>1
<1>7. t = <<>> BY SMT, <1>1, <1>5, <1>6
<1>8. \A more \in Seq(Steps) : more \o <<>> = more BY SMT
<1>9. \A q : DropsStay(o, q) BY <1>4 DEF DropsStay, Dropping, Alone
<1>10. \A q : AppendsStay(o, q) BY <1>4 DEF AppendsStay, Has, Alone
<1> QED BY <1>4, <1>5, <1>7, <1>8, <1>9, <1>10

\* With a handle, and with a file once it is open.
Resume(c, o, r, do) ==
  /\ r \in Handlers /\ r.plan = o.plan /\ r.left = o.left /\ r.gone = o.gone
  /\ r.id # Nil /\ Findable(r.id)' /\ (do \in {"put", "use"} => r.ino # Nil)
  /\ GoOn(c, <<Step(do, Nil)>>, r) /\ do \in Serving

Keeps(r, q) == q.id = r.id /\ q.ino = r.ino /\ q.gen = r.gen

\* A plan of one step.
LEMMA Single ==
  \A s \in Steps :
    /\ <<s>> \in Seq(Steps) /\ <<s>> # <<>> /\ Head(<<s>>) = s /\ 1 \in 1..Len(<<s>>)
    /\ \A n \in 1..Len(<<s>>) : <<s>>[n] = s
    /\ \A m, n \in 1..Len(<<s>>) : ~ (m < n)
  BY SMT

\* Its handler then is as it should be.
LEMMA WorkStep ==
  ASSUME IInv, NEW c \in Conns, NEW o, NEW d, d \in Alone, Acting(c, o, d), NEW r, NEW do, Resume(c, o, r, do)
  PROVE  \E q \in Handlers : Working(c, o, q, do) /\ Keeps(r, q)
<1>1. r \in Handlers /\ r.plan = o.plan /\ r.left = o.left /\ r.gone = o.gone
      /\ r.id # Nil /\ Findable(r.id)' /\ (do \in {"put", "use"} => r.ino # Nil) /\ do \in Serving
  BY DEF Resume
<1>2. o \in Handlers /\ o.plan # <<>> /\ OrderOK(o.plan) /\ Head(o.plan).do = d BY DEF Acting
<1>3. do \in Labels BY <1>1 DEF Serving, Labels
<1>4. PICK s : IsStep(s, do, Nil) BY <1>3, MakeStep
<1>5. PICK more : more = <<s>> OBVIOUS
<1>6. s \in Steps /\ s.do = do /\ s.arg = Nil /\ GoOn(c, more, r) BY <1>4, <1>5 DEF IsStep, Resume
<1>7. /\ more \in Seq(Steps) /\ more # <<>> /\ Head(more) = s
      /\ \A n \in 1..Len(more) : more[n] = s
      /\ \A m, n \in 1..Len(more) : ~ (m < n)
  BY <1>5, <1>6, Single
<1>8. more \o Tail(r.plan) = more BY <1>1, <1>2, <1>7, Lone
<1>9. PICK q \in Handlers : Sets(c, q) /\ (Replies(r, q, more) \/ Continues(r, q, more))
  BY <1>1, <1>2, <1>6, <1>7, GoOnStep
<1>10. Continues(r, q, more) BY <1>7, <1>8, <1>9 DEF Replies
<1>11. q.plan = more /\ UNCHANGED <<known, left>> BY <1>8, <1>10 DEF Continues, Pushes
<1>12. q.id = r.id /\ q.ino = r.ino /\ q.gen = r.gen /\ q.left = r.left /\ q.gone = r.gone
  BY <1>10 DEF Continues, Same
<1>13. \A n \in 1..Len(q.plan) : q.plan[n] = s BY <1>7, <1>11
<1>14. \A m, n \in 1..Len(q.plan) : ~ (m < n) BY <1>7, <1>11
<1>15. q.plan # <<>> /\ Head(q.plan) = s BY <1>7, <1>11
<1>16. o.gone = {} BY NoneGone DEF Alone, Cleaning
<1>17. HandlerOK(q)'
  <2>1. StepOK(s)' BY <1>1, <1>6 DEF StepOK, Serving, OnPath, Carries
  <2>2. PlanOK(q.plan)' BY <1>13, <1>14, <2>1 DEF PlanOK
  <2>3. RemoveOK(q)' BY <1>1, <1>6, <1>13 DEF RemoveOK, Serving, Removing
  <2>4. RenameOK(q)' BY <1>1, <1>6, <1>13 DEF RenameOK, Serving, Renaming
  <2>5. Minted(q.id)' /\ q.id # Nil BY <1>1, <1>12 DEF Findable
  <2>6. IdOK(q)' BY <1>1, <1>12, <2>5 DEF IdOK
  <2>7. ServeOK(q)' BY <1>1, <1>6, <1>12, <1>15 DEF ServeOK, HeadIn
  <2>8. GoneOK(q)' BY <1>1, <1>12, <1>16 DEF GoneOK
  <2> QED BY <2>2, <2>3, <2>4, <2>6, <2>7, <2>8 DEF HandlerOK
<1>18. DropsStay(o, q) /\ AppendsStay(o, q) BY <1>2, Lone
<1>19. ~ Has(q, "kill", Nil) /\ \A n \in 1..Len(q.plan) : q.plan[n].do = do
  BY <1>1, <1>6, <1>13 DEF Has, Serving
<1>20. Working(c, o, q, do)
  BY <1>1, <1>6, <1>9, <1>11, <1>12, <1>15, <1>16, <1>17, <1>18, <1>19 DEF Working
<1> QED BY <1>12, <1>20 DEF Keeps

\* FromHandle.
LEMMA FromStep ==
  ASSUME IInv, NEW c \in Conns, FromHandle(c)
  PROVE  /\ Grows /\ Head(req[c].plan).do = "from"
         /\ \/ Calm(c)
            \/ \E q \in Handlers : Working(c, req[c], q, "get") /\ q.id \in active
<1>1. PICK o : Acting(c, o, "from") BY Act DEF FromHandle
<1>2. Grows BY SameMaps DEF FromHandle, mapVars
<1>3. o = req[c] /\ o \in Handlers /\ Head(o.plan).do = "from" /\ Arg(c) = Head(o.plan).arg
  BY <1>1 DEF Acting
<1>4. PICK i : i = Arg(c) OBVIOUS
<1>5. i \in Ids /\ Findable(i) BY <1>1, <1>3, <1>4 DEF Acting, StepOK, Findable, Minted
<1>6. CASE i \in active
  <2>1. PICK r : r = [o EXCEPT !.id = i] OBVIOUS
  <2>2. r \in Handlers /\ r.plan = o.plan /\ r.left = o.left /\ r.gone = o.gone /\ r.id = i
    BY <1>3, <1>5, <2>1 DEF Handlers
  <2>3. GoOn(c, <<Step("get", Nil)>>, r) BY <1>3, <1>4, <1>6, <2>1 DEF FromHandle
  <2>4. i # Nil /\ Findable(i)' BY <1>2, <1>5, LifeAssumption DEF Grows
  <2>5. Resume(c, o, r, "get") BY <2>2, <2>3, <2>4 DEF Resume, Serving
  <2>6. "from" \in Alone BY DEF Alone
  <2>7. \E q \in Handlers : Working(c, o, q, "get") /\ Keeps(r, q) BY <1>1, <2>5, <2>6, WorkStep
  <2> QED BY <1>2, <1>3, <1>6, <2>2, <2>7 DEF Keeps
<1>7. CASE i \notin active
  <2>1. Fail(c) BY <1>4, <1>7 DEF FromHandle
  <2>2. "from" \notin Finding \cup Cleaning \cup {"lookup", "check", "rkill"} BY DEF Finding, Cleaning
  <2> QED BY <1>1, <1>2, <1>3, <2>1, <2>2, Ends
<1> QED BY <1>6, <1>7

\* The id of a READ or WRITE in progress.
LEMMA ServingId ==
  ASSUME IInv, NEW c \in Conns, NEW o, NEW do \in Serving, Acting(c, o, do)
  PROVE  /\ o = req[c] /\ o \in Handlers /\ o.id \in Ids /\ o.id # Nil /\ Findable(o.id) /\ do \in Alone
         /\ do \in {"put", "use"} => o.ino # Nil
         /\ do \notin Finding \cup Cleaning \cup {"lookup", "check", "rkill"}
         /\ Head(o.plan).do = do
<1>1. o = req[c] /\ o \in Handlers /\ ServeOK(o) /\ o.plan # <<>> /\ Head(o.plan).do = do
  BY DEF Acting, HandlerOK
<1>2. o.id # Nil /\ Findable(o.id) /\ (do \in {"put", "use"} => o.ino # Nil)
  BY <1>1 DEF ServeOK, HeadIn
<1>3. do \in Alone /\ do \notin Finding \cup Cleaning \cup {"lookup", "check", "rkill"}
  BY DEF Alone, Serving, Finding, Cleaning
<1> QED BY <1>1, <1>2, <1>3 DEF Findable, Minted

\* fdcache.Get.
LEMMA GetStep ==
  ASSUME IInv, NEW c \in Conns, Get(c)
  PROVE  /\ Grows /\ Head(req[c].plan).do = "get"
         /\ \E q \in Handlers :
              /\ q.id = req[c].id
              /\ \/ Working(c, req[c], q, "use") /\ q.ino = entry[c][q.id]
                 \/ Working(c, req[c], q, "open") /\ q.gen = gen[c]
<1>1. PICK o : Acting(c, o, "get") BY Act DEF Get
<1>2. Grows BY SameMaps DEF Get, mapVars
<1>3. /\ o = req[c] /\ o \in Handlers /\ o.id \in Ids /\ o.id # Nil /\ Findable(o.id) /\ "get" \in Alone
      /\ Head(o.plan).do = "get"
  BY <1>1, ServingId DEF Serving
<1>4. PICK x : x = entry[c][o.id] OBVIOUS
<1>5. x \in Inodes \cup {Nil} /\ gen[c] \in Nat BY <1>3, <1>4 DEF IInv, TypeOK
<1>6. Findable(o.id)' BY <1>2, <1>3 DEF Grows
<1>7. CASE x # Nil
  <2>1. PICK r : r = [o EXCEPT !.ino = x] OBVIOUS
  <2>2. r \in Handlers /\ r.plan = o.plan /\ r.left = o.left /\ r.gone = o.gone /\ r.id = o.id /\ r.ino = x
    BY <1>3, <1>5, <2>1 DEF Handlers
  <2>3. GoOn(c, <<Step("use", Nil)>>, r) BY <1>3, <1>4, <1>7, <2>1 DEF Get
  <2>4. Resume(c, o, r, "use") BY <1>3, <1>6, <1>7, <2>2, <2>3 DEF Resume, Serving
  <2>5. PICK q \in Handlers : Working(c, o, q, "use") /\ Keeps(r, q) BY <1>1, <1>3, <2>4, WorkStep
  <2>6. q.id = o.id /\ q.ino = entry[c][q.id] BY <1>4, <2>2, <2>5 DEF Keeps
  <2> QED BY <1>2, <1>3, <2>5, <2>6
<1>8. CASE x = Nil
  <2>1. PICK r : r = [o EXCEPT !.gen = gen[c]] OBVIOUS
  <2>2. r \in Handlers /\ r.plan = o.plan /\ r.left = o.left /\ r.gone = o.gone /\ r.id = o.id /\ r.gen = gen[c]
    BY <1>3, <1>5, <2>1 DEF Handlers
  <2>3. GoOn(c, <<Step("open", Nil)>>, r) BY <1>3, <1>4, <1>8, <2>1 DEF Get
  <2>4. Resume(c, o, r, "open") BY <1>3, <1>6, <2>2, <2>3 DEF Resume, Serving
  <2>5. PICK q \in Handlers : Working(c, o, q, "open") /\ Keeps(r, q) BY <1>1, <1>3, <2>4, WorkStep
  <2>6. q.id = o.id /\ q.gen = gen[c] BY <2>2, <2>5 DEF Keeps
  <2> QED BY <1>2, <1>3, <2>5, <2>6
<1> QED BY <1>7, <1>8

\* fs.OpenFile.
LEMMA OpenStep ==
  ASSUME IInv, NEW c \in Conns, Open(c)
  PROVE  /\ Grows /\ Head(req[c].plan).do = "open"
         /\ \/ Calm(c)
            \/ \E q \in Handlers :
                 /\ q.id = req[c].id /\ Working(c, req[c], q, "put") /\ q.gen = req[c].gen
                 /\ q.ino = inode[pathOf[q.id]] /\ q.ino # Nil
<1>1. PICK o : Acting(c, o, "open") BY Act DEF Open
<1>2. Grows BY SameMaps DEF Open, mapVars
<1>3. /\ o = req[c] /\ o \in Handlers /\ o.id \in Ids /\ o.id # Nil /\ Findable(o.id) /\ "open" \in Alone
      /\ Head(o.plan).do = "open" /\ "open" \notin Finding \cup Cleaning \cup {"lookup", "check", "rkill"}
  BY <1>1, ServingId DEF Serving
<1>4. PICK x : x = inode[pathOf[o.id]] OBVIOUS
<1>5. x \in Inodes \cup {Nil} BY <1>3, <1>4 DEF IInv, TypeOK, Findable, Minted
<1>6. Findable(o.id)' BY <1>2, <1>3 DEF Grows
<1>7. CASE x # Nil
  <2>1. PICK r : r = [o EXCEPT !.ino = x] OBVIOUS
  <2>2. /\ r \in Handlers /\ r.plan = o.plan /\ r.left = o.left /\ r.gone = o.gone /\ r.id = o.id /\ r.ino = x
        /\ r.gen = o.gen
    BY <1>3, <1>5, <2>1 DEF Handlers
  <2>3. GoOn(c, <<Step("put", Nil)>>, r) BY <1>3, <1>4, <1>7, <2>1 DEF Open
  <2>4. Resume(c, o, r, "put") BY <1>3, <1>6, <1>7, <2>2, <2>3 DEF Resume, Serving
  <2>5. PICK q \in Handlers : Working(c, o, q, "put") /\ Keeps(r, q) BY <1>1, <1>3, <2>4, WorkStep
  <2>6. q.id = o.id /\ q.ino = x /\ q.gen = o.gen BY <2>2, <2>5 DEF Keeps
  <2> QED BY <1>2, <1>3, <1>4, <1>7, <2>5, <2>6
<1>8. CASE x = Nil
  <2>1. Fail(c) BY <1>3, <1>4, <1>8 DEF Open
  <2> QED BY <1>1, <1>2, <1>3, <2>1, Ends
<1> QED BY <1>7, <1>8

\* Another attempt, or an error.
LEMMA RetryStep ==
  ASSUME IInv, NEW c \in Conns, NEW o, NEW do \in Serving, Acting(c, o, do), Grows, Retry(c)
  PROVE  Calm(c) \/ \E q \in Handlers : q.id = req[c].id /\ Working(c, req[c], q, "get")
<1>1. /\ o = req[c] /\ o \in Handlers /\ o.id \in Ids /\ o.id # Nil /\ Findable(o.id) /\ do \in Alone
      /\ do \notin Finding \cup Cleaning \cup {"lookup", "check", "rkill"}
  BY ServingId
<1>2. CASE o.att = 0
  <2>1. PICK r : r = [o EXCEPT !.att = 1, !.ino = Nil] OBVIOUS
  <2>2. r \in Handlers /\ r.plan = o.plan /\ r.left = o.left /\ r.gone = o.gone /\ r.id = o.id
    <3>1. 1 \in 0..1 BY SMT
    <3> QED BY <1>1, <2>1, <3>1 DEF Handlers
  <2>3. GoOn(c, <<Step("get", Nil)>>, r) BY <1>1, <1>2, <2>1 DEF Retry
  <2>4. Findable(r.id)' BY <1>1, <2>2 DEF Grows
  <2>5. Resume(c, o, r, "get") BY <1>1, <2>2, <2>3, <2>4 DEF Resume, Serving
  <2>6. PICK q \in Handlers : Working(c, o, q, "get") /\ Keeps(r, q) BY <1>1, <2>5, WorkStep
  <2> QED BY <1>1, <2>2, <2>6 DEF Keeps
<1>3. CASE o.att # 0
  <2>1. Fail(c) BY <1>1, <1>3 DEF Retry
  <2> QED BY <1>1, <2>1, Ends
<1> QED BY <1>2, <1>3

\* fdcache.PutIfFresh.
LEMMA PutStep ==
  ASSUME IInv, NEW c \in Conns, PutIfFresh(c)
  PROVE  /\ Grows /\ Head(req[c].plan).do = "put" /\ req[c].plan # <<>>
         /\ \/ /\ entry' = [entry EXCEPT ![c][req[c].id] = req[c].ino] /\ gen[c] = req[c].gen
               /\ \E q \in Handlers : q.id = req[c].id /\ Working(c, req[c], q, "use") /\ q.ino = req[c].ino
            \/ entry' = entry /\ Calm(c)
            \/ entry' = entry /\ \E q \in Handlers : q.id = req[c].id /\ Working(c, req[c], q, "get")
<1>1. PICK o : Acting(c, o, "put") BY Act DEF PutIfFresh
<1>2. Grows BY SameMaps DEF PutIfFresh, mapVars
<1>3. /\ o = req[c] /\ o \in Handlers /\ o.id \in Ids /\ o.id # Nil /\ Findable(o.id) /\ "put" \in Alone
      /\ Head(o.plan).do = "put" /\ o.ino # Nil
  <2>1. "put" \in Serving /\ "put" \in {"put", "use"} BY DEF Serving
  <2> QED BY <1>1, <2>1, ServingId
<1>4. Findable(o.id)' /\ o.plan # <<>> BY <1>1, <1>2, <1>3 DEF Grows, Acting
<1>5. CASE gen[c] = req[c].gen
  <2>1. entry' = [entry EXCEPT ![c][req[c].id] = req[c].ino] /\ GoOn(c, <<Step("use", Nil)>>, o)
    BY <1>3, <1>5 DEF PutIfFresh
  <2>2. Resume(c, o, o, "use") BY <1>3, <1>4, <2>1 DEF Resume, Serving
  <2>3. PICK q \in Handlers : Working(c, o, q, "use") /\ Keeps(o, q) BY <1>1, <1>3, <2>2, WorkStep
  <2> QED BY <1>2, <1>3, <1>4, <1>5, <2>1, <2>3 DEF Keeps
<1>6. CASE gen[c] # req[c].gen
  <2>1. Retry(c) /\ entry' = entry BY <1>6 DEF PutIfFresh
  <2>2. Calm(c) \/ \E q \in Handlers : q.id = req[c].id /\ Working(c, req[c], q, "get")
    BY <1>1, <1>2, <2>1, RetryStep DEF Serving
  <2> QED BY <1>2, <1>3, <1>4, <2>1, <2>2
<1> QED BY <1>5, <1>6

\* The operation on the file.
LEMMA UseStep ==
  ASSUME IInv, NEW c \in Conns, Use(c)
  PROVE  /\ Grows /\ Head(req[c].plan).do = "use"
         /\ Calm(c) \/ \E q \in Handlers : q.id = req[c].id /\ Working(c, req[c], q, "get")
<1>1. PICK o : Acting(c, o, "use") BY Act DEF Use
<1>2. Grows BY SameMaps DEF Use, mapVars
<1>3. /\ o = req[c] /\ Head(o.plan).do = "use" /\ "use" \notin Finding \cup Cleaning \cup {"lookup", "check", "rkill"}
  <2>1. "use" \in Serving BY DEF Serving
  <2> QED BY <1>1, <2>1, ServingId
<1>4. CASE GoOn(c, <<>>, req[c]) BY <1>1, <1>2, <1>3, <1>4, Ends
<1>5. CASE Retry(c) BY <1>1, <1>2, <1>3, <1>5, RetryStep DEF Serving
<1> QED BY <1>4, <1>5 DEF Use

-----------------------------------------------------------------------------
\* The invariant holds in the beginning.
LEMMA InitOK == Init => IInv
<1> SUFFICES ASSUME Init PROVE IInv BY SMT
<1>1. /\ inode = Files0 /\ used = {Files0[p] : p \in Paths} \ {Nil}
      /\ active = {} /\ pathOf = [i \in Ids |-> Nil] /\ reverse = [p \in Paths |-> <<>>]
      /\ entry = [c \in Conns |-> [i \in Ids |-> Nil]] /\ gen = [c \in Conns |-> 0]
      /\ req = [c \in Conns |-> NoReq]
      /\ ops = 0 /\ known = {} /\ left = {} /\ dup = {} /\ late = {}
  BY DEF Init
<1>2. \A c \in Conns : req[c] = NoReq BY <1>1
<1>3. /\ NoReq.plan = <<>> /\ NoReq.op = Nil /\ NoReq.id = Nil /\ NoReq.gone = {} /\ NoReq.left = {}
      /\ NoReq \in Handlers
  BY Idle
<1>4. \A n : n \notin 1..Len(NoReq.plan)
  <2>1. Len(NoReq.plan) = 0 BY Idle
  <2> QED BY SMT, <2>1
<1>5. TypeOK
  <2>1. 0 \in Nat /\ <<>> \in Seq(Ids) BY SMT
  <2>2. used \subseteq Inodes BY <1>1, LifeAssumption
  <2> QED BY <1>1, <1>3, <2>1, <2>2, LifeAssumption DEF TypeOK
<1>6. \A S : ~ HeadIn(NoReq, S) BY <1>3 DEF HeadIn
<1>7. HandlerOK(NoReq)
  <2>1. NoReq.op \notin {"lookup", "create"} BY <1>3, LifeAssumption DEF Requests
  <2> QED BY <1>3, <1>4, <1>6, <2>1 DEF HandlerOK, PlanOK, RemoveOK, RenameOK, IdOK, ServeOK, GoneOK
<1>8. MapInv
  <2>1. \A p \in Paths : \A n : n \notin 1..Len(reverse[p])
    <3>1. \A n : n \notin 1..Len(<<>>) BY SMT
    <3> QED BY <1>1, <3>1
  <2> QED BY <1>1, <2>1 DEF MapInv
<1>9. ActiveIsFindable BY <1>1 DEF ActiveIsFindable
<1>10. DeadInv BY <1>1, <1>2, <1>6 DEF DeadInv
<1>11. FileInv
  <2>1. \A p \in Paths : inode[p] # Nil => inode[p] \in used /\ \A q \in Paths : inode[q] = inode[p] => q = p
    BY <1>1, LifeAssumption
  <2> QED BY <1>1, <1>2, <1>3, <2>1 DEF FileInv
<1>12. SoleInv /\ ServedInv BY <1>1 DEF SoleInv, ServedInv, Sole
<1>13. ReaderInv /\ GenInv BY <1>2, <1>6 DEF ReaderInv, GenInv
<1> QED BY <1>2, <1>5, <1>7, <1>8, <1>9, <1>10, <1>11, <1>12, <1>13 DEF IInv

-----------------------------------------------------------------------------
(* The beginning of a request.                                              *)

\* The handler of a new request.
IsNew(q, op, plan, to) ==
  /\ q \in Handlers /\ q.op = op /\ q.plan = plan /\ q.to = to /\ q.id = Nil /\ q.gone = {} /\ q.left = left

\* Begin starts with one.
LEMMA Begins ==
  ASSUME IInv, NEW c \in Conns, NEW op \in Requests, NEW plan \in Seq(Steps), NEW to \in Paths \cup {Nil},
         NEW r, r \in Handlers, r.to = to, r.id = Nil, r.gone = {}, Begin(c, op, plan, r)
  PROVE  \E q : /\ IsNew(q, op, plan, to)
                /\ HandlerOK(q)' /\ NotServing(q) => Starts(c, q)
<1>1. PICK q : q = [r EXCEPT !.op = op, !.plan = plan, !.left = left] OBVIOUS
<1>2. IsNew(q, op, plan, to)
  <2>1. left \subseteq Pairs BY DEF IInv, TypeOK
  <2> QED BY <1>1, <2>1 DEF IsNew, Handlers
<1>3. req[c] = NoReq /\ Sets(c, q) /\ UNCHANGED <<inode, used, mapVars, fdVars, histVars>> /\ ops' = ops + Cost[op]
  BY <1>1 DEF Begin, Sets
<1>4. ops' \in Nat
  <2>1. ops \in Nat /\ Cost[op] \in Nat BY LifeAssumption DEF IInv, TypeOK
  <2> QED BY SMT, <1>3, <2>1
<1> QED BY <1>2, <1>3, <1>4 DEF Starts, IsNew

\* LOOKUP, CREATE, READ and WRITE begin with one.
LEMMA OneStart ==
  ASSUME IInv, NEW c \in Conns, NEW op \in Requests, NEW do \in {"lookup", "check", "from"}, NEW arg,
         NEW s, IsStep(s, do, arg), StepOK(s)', op \in {"lookup", "create"} => do # "from",
         Begin(c, op, <<s>>, NoReq)
  PROVE  \E q \in Handlers : Starts(c, q)
<1>1. PICK plan : plan = <<s>> OBVIOUS
<1>2. s \in Steps /\ s.do = do BY DEF IsStep
<1>3. /\ plan \in Seq(Steps) /\ plan # <<>> /\ Head(plan) = s /\ 1 \in 1..Len(plan)
      /\ \A n \in 1..Len(plan) : plan[n] = s
      /\ \A m, n \in 1..Len(plan) : ~ (m < n)
  BY <1>1, <1>2, Single
<1>4. PICK q : IsNew(q, op, plan, Nil) /\ (HandlerOK(q)' /\ NotServing(q) => Starts(c, q))
  BY <1>1, <1>3, Idle, Begins
<1>5. q.op = op /\ q.plan = plan /\ q.id = Nil /\ q.gone = {} /\ q \in Handlers BY <1>4 DEF IsNew
<1>6. PlanOK(q.plan)' BY <1>3, <1>5 DEF PlanOK
<1>7. RemoveOK(q)' BY <1>2, <1>3, <1>5 DEF RemoveOK, Removing
<1>8. RenameOK(q)' BY <1>2, <1>3, <1>5 DEF RenameOK, Renaming
<1>9. IdOK(q)' BY <1>2, <1>3, <1>5 DEF IdOK
<1>10. NotServing(q) BY <1>2, <1>3, <1>5 DEF NotServing, HeadIn, Serving
<1>11. ServeOK(q)' /\ GoneOK(q)' BY <1>5, <1>10 DEF ServeOK, GoneOK, NotServing, HeadIn
<1>12. HandlerOK(q)' BY <1>6, <1>7, <1>8, <1>9, <1>11 DEF HandlerOK
<1> QED BY <1>4, <1>5, <1>10, <1>12

RemovesBy(plan, f, d, r, k) ==
  /\ plan \in Seq(Steps) /\ plan # <<>> /\ Head(plan) = f
  /\ \A n \in 1..Len(plan) : plan[n] = f \/ plan[n] = d \/ plan[n] = r \/ plan[n] = k
  /\ \A m, n \in 1..Len(plan) : m < n => plan[m] = f \/ plan[m] = d \/ plan[n] = d \/ plan[n] = k
  /\ 4 \in 1..Len(plan) /\ plan[4] = k

\* The plan of REMOVE.
LEMMA RemovePlan ==
  ASSUME NEW f \in Steps, NEW d \in Steps, NEW r \in Steps, NEW k \in Steps,
         NEW plan, plan = <<f, d, r, k, d>>
  PROVE  RemovesBy(plan, f, d, r, k)
<1>2. /\ plan \in Seq(Steps) /\ Len(plan) = 5 /\ plan[1] = f /\ plan[2] = d /\ plan[3] = r /\ plan[4] = k
      /\ plan[5] = d /\ plan # <<>> /\ Head(plan) = f
  BY SMT
<1>3. 1..Len(plan) = 1..5 BY <1>2
<1>4. \A n \in 1..5 : n = 1 \/ n = 2 \/ n = 3 \/ n = 4 \/ n = 5 BY SMT
<1>5. \A m, n \in 1..5 : m < n => m = 1 \/ m = 2 \/ n = 4 \/ n = 5 BY SMT
<1>6. 4 \in 1..5 BY SMT
<1>7. \A n \in 1..Len(plan) : plan[n] = f \/ plan[n] = d \/ plan[n] = r \/ plan[n] = k
  BY <1>2, <1>3, <1>4
<1>8. \A m, n \in 1..Len(plan) : m < n => plan[m] = f \/ plan[m] = d \/ plan[n] = d \/ plan[n] = k
  BY <1>2, <1>3, <1>5
<1> QED BY <1>2, <1>3, <1>6, <1>7, <1>8 DEF RemovesBy

\* REMOVE begins: it is going to find the handle of the file and to invalidate it.
LEMMA RemoveStart ==
  ASSUME IInv, NEW c \in Conns, NEW p \in Paths, Remove(c, p)
  PROVE  \E q \in Handlers : Starts(c, q)
<1>1. {"find", "remove", "kill"} \subseteq Labels BY DEF Labels
<1>2. PICK f, d, r, k : /\ IsStep(f, "find", p) /\ IsStep(r, "remove", p) /\ IsStep(k, "kill", Nil)
                        /\ IsStep(d, "drop", Nil) /\ d = Drop(Nil)
  BY <1>1, MakeStep, MakeDrop
<1>3. PICK plan : plan = <<f, d, r, k, d>> OBVIOUS
<1>4. /\ f \in Steps /\ r \in Steps /\ k \in Steps /\ d \in Steps
      /\ f.do = "find" /\ r.do = "remove" /\ k.do = "kill" /\ d.do = "drop"
      /\ f.arg = p /\ r.arg = p /\ k.arg = Nil /\ d.arg = Nil
  BY <1>2 DEF IsStep
<1>5. /\ plan \in Seq(Steps) /\ plan # <<>> /\ Head(plan) = f
      /\ \A n \in 1..Len(plan) : plan[n] = f \/ plan[n] = d \/ plan[n] = r \/ plan[n] = k
      /\ \A m, n \in 1..Len(plan) : m < n => plan[m] = f \/ plan[m] = d \/ plan[n] = d \/ plan[n] = k
      /\ 4 \in 1..Len(plan) /\ plan[4] = k
  <2>1. RemovesBy(plan, f, d, r, k) BY <1>3, <1>4, RemovePlan
  <2> QED BY <2>1 DEF RemovesBy
<1>6. Begin(c, "remove", plan, NoReq) BY <1>2, <1>3 DEF Remove, IsStep
<1>7. "remove" \in Requests BY DEF Requests
<1>8. PICK q : IsNew(q, "remove", plan, Nil) /\ (HandlerOK(q)' /\ NotServing(q) => Starts(c, q))
  BY <1>5, <1>6, <1>7, Idle, Begins
<1>9. q.op = "remove" /\ q.plan = plan /\ q.id = Nil /\ q.gone = {} /\ q \in Handlers BY <1>8 DEF IsNew
<1>10. StepOK(f)' /\ StepOK(d)' /\ StepOK(r)' /\ StepOK(k)'
  BY <1>4 DEF StepOK, Carries, OnPath, Serving
<1>11. ASSUME NEW s, s = f \/ s = d \/ s = r \/ s = k PROVE ~ Carries(s) /\ s.do \notin Alone
  BY <1>4, <1>11 DEF Carries, Alone
<1>12. ASSUME NEW s, NEW t, s = f \/ s = d \/ s = r \/ s = k, t = f \/ t = d \/ t = r \/ t = k,
              s = f \/ s = d \/ t = d \/ t = k
       PROVE  Ordered(s, t)
  <2>1. s = f \/ s = d \/ t.do \in Finishing BY <1>4, <1>12 DEF Finishing
  <2>2. s.do \in Removing \cup Renaming \cup {"kill", "rkill"} => s # f /\ s # d
    BY <1>4 DEF Removing, Renaming
  <2>3. s.do \in Finding /\ t.do \in Removing => s = f /\ t = r
    BY <1>4, <1>12 DEF Finding, Removing
  <2>4. ~ Carries(t) /\ s.do \notin Alone /\ t.do \notin Alone BY <1>11, <1>12
  <2> QED BY <1>4, <2>1, <2>2, <2>3, <2>4 DEF Ordered
<1>13. PlanOK(q.plan)' BY <1>5, <1>9, <1>10, <1>12 DEF PlanOK
<1>14. Has(q, "kill", Nil)' /\ HeadIn(q, Finding)' BY <1>4, <1>5, <1>9 DEF Has, HeadIn, Finding
<1>15. RemoveOK(q)' BY <1>14 DEF RemoveOK
<1>16. RenameOK(q)' BY <1>4, <1>5, <1>9 DEF RenameOK, Renaming
<1>17. IdOK(q)' BY <1>9 DEF IdOK
<1>18. NotServing(q) BY <1>4, <1>5, <1>9 DEF NotServing, HeadIn, Serving
<1>19. ServeOK(q)' /\ GoneOK(q)' BY <1>9, <1>18 DEF ServeOK, GoneOK, NotServing, HeadIn
<1>20. HandlerOK(q)' BY <1>13, <1>15, <1>16, <1>17, <1>19 DEF HandlerOK
<1> QED BY <1>8, <1>9, <1>18, <1>20

RenamesBy(plan, a, b, e) ==
  /\ plan \in Seq(Steps) /\ plan # <<>> /\ Head(plan) = a
  /\ \A n \in 1..Len(plan) : plan[n] = a \/ plan[n] = b \/ plan[n] = e
  /\ \A m, n \in 1..Len(plan) : m < n => plan[m] = a \/ plan[n] = e
  /\ 3 \in 1..Len(plan) /\ plan[3] = e

\* The plan of RENAME.
LEMMA RenamePlan ==
  ASSUME NEW a \in Steps, NEW b \in Steps, NEW e \in Steps, NEW plan, plan = <<a, b, e>>
  PROVE  RenamesBy(plan, a, b, e)
<1>2. /\ plan \in Seq(Steps) /\ Len(plan) = 3 /\ plan[1] = a /\ plan[2] = b /\ plan[3] = e
      /\ plan # <<>> /\ Head(plan) = a
  BY SMT
<1>3. 1..Len(plan) = 1..3 BY <1>2
<1>4. \A n \in 1..3 : n = 1 \/ n = 2 \/ n = 3 BY SMT
<1>5. \A m, n \in 1..3 : m < n => m = 1 \/ n = 3 BY SMT
<1>6. 3 \in 1..3 BY SMT
<1>7. \A n \in 1..Len(plan) : plan[n] = a \/ plan[n] = b \/ plan[n] = e BY <1>2, <1>3, <1>4
<1>8. \A m, n \in 1..Len(plan) : m < n => plan[m] = a \/ plan[n] = e BY <1>2, <1>3, <1>5
<1> QED BY <1>2, <1>3, <1>6, <1>7, <1>8 DEF RenamesBy

\* RENAME begins: it is going to invalidate the handles of both paths.
LEMMA RenameStart ==
  ASSUME IInv, NEW c \in Conns, NEW p \in Paths, NEW x \in Paths, Rename(c, p, x)
  PROVE  \E q \in Handlers : Starts(c, q)
<1>1. {"rdrop", "rename", "rkill"} \subseteq Labels BY DEF Labels
<1>2. PICK a, b, e : IsStep(a, "rdrop", p) /\ IsStep(b, "rename", p) /\ IsStep(e, "rkill", p)
  BY <1>1, MakeStep
<1>3. PICK plan : plan = <<a, b, e>> OBVIOUS
<1>4. /\ a \in Steps /\ b \in Steps /\ e \in Steps
      /\ a.do = "rdrop" /\ b.do = "rename" /\ e.do = "rkill" /\ a.arg = p /\ b.arg = p /\ e.arg = p
  BY <1>2 DEF IsStep
<1>5. /\ plan \in Seq(Steps) /\ plan # <<>> /\ Head(plan) = a
      /\ \A n \in 1..Len(plan) : plan[n] = a \/ plan[n] = b \/ plan[n] = e
      /\ \A m, n \in 1..Len(plan) : m < n => plan[m] = a \/ plan[n] = e
      /\ 3 \in 1..Len(plan) /\ plan[3] = e
  <2>1. RenamesBy(plan, a, b, e) BY <1>3, <1>4, RenamePlan
  <2> QED BY <2>1 DEF RenamesBy
<1>6. PICK r : r = [NoReq EXCEPT !.to = x] OBVIOUS
<1>7. r \in Handlers /\ r.to = x /\ r.id = Nil /\ r.gone = {} BY <1>6, Idle DEF Handlers
<1>8. Begin(c, "rename", plan, r) BY <1>2, <1>3, <1>6 DEF Rename, IsStep
<1>9. "rename" \in Requests BY DEF Requests
<1>10. PICK q : IsNew(q, "rename", plan, x) /\ (HandlerOK(q)' /\ NotServing(q) => Starts(c, q))
  BY <1>5, <1>7, <1>8, <1>9, Begins
<1>11. q.op = "rename" /\ q.plan = plan /\ q.id = Nil /\ q.gone = {} /\ q.to = x /\ q \in Handlers
  BY <1>10 DEF IsNew
<1>12. StepOK(a)' /\ StepOK(b)' /\ StepOK(e)' BY <1>4 DEF StepOK, Carries, OnPath, Serving
<1>13. ASSUME NEW s, s = a \/ s = b \/ s = e
       PROVE  ~ Carries(s) /\ s.do \notin Alone \cup Removing \cup Finding
  BY <1>4, <1>13 DEF Carries, Alone, Removing, Finding
<1>14. ASSUME NEW s, NEW t, s = a \/ s = b \/ s = e, t = a \/ t = b \/ t = e, s = a \/ t = e
       PROVE  Ordered(s, t)
  <2>1. s = a \/ t.do \in Finishing BY <1>4, <1>14 DEF Finishing
  <2>2. s.do \in Removing \cup Renaming \cup {"kill", "rkill"} => s # a
    BY <1>4 DEF Removing, Renaming
  <2>3. ~ Carries(t) /\ s.do \notin Alone \cup Finding /\ t.do \notin Alone BY <1>13, <1>14
  <2> QED BY <2>1, <2>2, <2>3 DEF Ordered
<1>15. PlanOK(q.plan)' BY <1>5, <1>11, <1>12, <1>14 DEF PlanOK
<1>16. Has(q, "rkill", p)' BY <1>4, <1>5, <1>11 DEF Has
<1>17. x # Nil BY LifeAssumption
<1>18. \A n \in 1..Len(q.plan) : q.plan[n].arg = p BY <1>4, <1>5, <1>11
<1>19. RenameOK(q)' BY <1>11, <1>16, <1>17, <1>18 DEF RenameOK
<1>20. RemoveOK(q)' BY <1>5, <1>11, <1>13 DEF RemoveOK
<1>21. IdOK(q)' BY <1>11 DEF IdOK
<1>22. NotServing(q) BY <1>4, <1>5, <1>11 DEF NotServing, HeadIn, Serving
<1>23. ServeOK(q)' /\ GoneOK(q)' BY <1>11, <1>22 DEF ServeOK, GoneOK, NotServing, HeadIn
<1>24. HandlerOK(q)' BY <1>15, <1>19, <1>20, <1>21, <1>23 DEF HandlerOK
<1> QED BY <1>10, <1>11, <1>22, <1>24

\* A request begins.
LEMMA RequestStarts ==
  ASSUME IInv, NEW c \in Conns, NEW p \in Paths, NEW x \in Paths,
         Lookup(c, p) \/ Create(c, p) \/ Remove(c, p) \/ Rename(c, p, x)
  PROVE  \E q \in Handlers : Starts(c, q)
<1>1. CASE Lookup(c, p)
  <2>1. "lookup" \in Labels /\ "lookup" \in Requests BY DEF Labels, Requests
  <2>2. PICK s : IsStep(s, "lookup", p) BY <2>1, MakeStep
  <2>3. StepOK(s)' BY <2>2 DEF IsStep, StepOK, Carries, OnPath, Serving
  <2>4. Begin(c, "lookup", <<s>>, NoReq) BY <1>1, <2>2 DEF Lookup, IsStep
  <2> QED BY <2>1, <2>2, <2>3, <2>4, OneStart
<1>2. CASE Create(c, p)
  <2>1. "check" \in Labels /\ "create" \in Requests BY DEF Labels, Requests
  <2>2. PICK s : IsStep(s, "check", p) BY <2>1, MakeStep
  <2>3. StepOK(s)' BY <2>2 DEF IsStep, StepOK, Carries, OnPath, Serving
  <2>4. Begin(c, "create", <<s>>, NoReq) BY <1>2, <2>2 DEF Create, IsStep
  <2> QED BY <2>1, <2>2, <2>3, <2>4, OneStart
<1> QED BY <1>1, <1>2, RemoveStart, RenameStart

\* READ or WRITE begins, with an id that a reply has carried.
LEMMA ServiceStarts ==
  ASSUME IInv, NEW c \in Conns, NEW i \in Ids, ReadOrWrite(c, i)
  PROVE  \E q \in Handlers : Starts(c, q)
<1>1. "from" \in Labels /\ "io" \in Requests BY DEF Labels, Requests
<1>2. PICK s : IsStep(s, "from", i) BY <1>1, MakeStep
<1>3. Begin(c, "io", <<s>>, NoReq) /\ i \in known BY <1>2 DEF ReadOrWrite, IsStep
<1>4. Findable(i)'
  <2>1. Findable(i) BY <1>3 DEF IInv, MapInv
  <2>2. Grows BY <1>3, SameMaps DEF Begin, mapVars, histVars
  <2> QED BY <2>1, <2>2 DEF Grows
<1>5. StepOK(s)' BY <1>2, <1>4 DEF IsStep, StepOK, Carries, OnPath, Serving
<1> QED BY <1>1, <1>2, <1>3, <1>5, OneStart

-----------------------------------------------------------------------------
(* Every step keeps the invariant.                                          *)

\* A step that changes nothing but its request,
LEMMA CalmStep ==
  ASSUME IInv, NEW c \in Conns, Calm(c), UNCHANGED <<inode, used, mapVars, fdVars, ops, dup, late>>,
         Head(req[c].plan).do \notin {"drop", "kill", "rkill"}
  PROVE  IInv'
<1>1. /\ inode' = inode /\ used' = used /\ active' = active /\ pathOf' = pathOf /\ reverse' = reverse
      /\ entry' = entry /\ gen' = gen /\ ops' = ops /\ dup' = dup /\ late' = late
  BY DEF mapVars, fdVars
<1>2. RevOK' BY <1>1, RevSame DEF Calm
<1>3. Still BY <1>1 DEF Still
<1> QED BY <1>1, <1>2, <1>3, CalmKept

\* the beginning of a request,
LEMMA StartStep ==
  ASSUME IInv, NEW c \in Conns,
         \/ \E p, q \in Paths : Lookup(c, p) \/ Create(c, p) \/ Remove(c, p) \/ Rename(c, p, q)
         \/ \E i \in Ids : ReadOrWrite(c, i)
  PROVE  IInv'
<1>1. \E q \in Handlers : Starts(c, q) BY RequestStarts, ServiceStarts
<1> QED BY <1>1, StartKept

\* a step on the handles,
LEMMA HandleStep ==
  ASSUME IInv, NEW c \in Conns,
         LookupStat(c) \/ Find(c) \/ Add(c) \/ AppendReverse(c) \/ Kill(c) \/ Unmap(c) \/ DropOne(c)
  PROVE  IInv'
<1>1. CASE LookupStat(c)
  <2>1. Head(req[c].plan).do = "lookup" BY <1>1 DEF LookupStat, At
  <2>2. UNCHANGED <<inode, used, mapVars, fdVars, ops, dup, late>> BY <1>1 DEF LookupStat
  <2> QED BY <1>1, <2>1, <2>2, LookupStatStep, CalmStep
<1>2. CASE Find(c)
  <2>1. Head(req[c].plan).do = "find" BY <1>2 DEF Find, At
  <2>2. UNCHANGED <<inode, used, mapVars, fdVars, ops, dup, late>> BY <1>2 DEF Find
  <2>3. Grows BY <1>2, FindStep
  <2>4. CASE \E q \in Handlers : Plain(c, req[c], q)
    <3>1. Calm(c) BY <2>3, <2>4 DEF Calm
    <3> QED BY <2>1, <2>2, <3>1, CalmStep
  <2>5. CASE \E q \in Handlers, i \in Ids : Goes(c, req[c], q) /\ i \in active /\ (q = NoReq \/ q.id = i)
    <3>1. PICK q \in Handlers, i \in Ids : Goes(c, req[c], q) /\ i \in active /\ (q = NoReq \/ q.id = i)
      BY <2>5
    <3>2. /\ inode' = inode /\ used' = used /\ active' = active /\ pathOf' = pathOf /\ reverse' = reverse
          /\ entry' = entry /\ gen' = gen /\ ops' = ops /\ dup' = dup /\ late' = late
      BY <2>2 DEF mapVars, fdVars
    <3>3. Still BY <3>2 DEF Still
    <3>4. RevOK' BY <2>3, <3>2, RevSame
    <3> QED BY <2>3, <3>1, <3>2, <3>3, <3>4, FindKept
  <2> QED BY <1>2, <2>4, <2>5, FindStep
<1>3. CASE Add(c)
  <2>1. PICK q \in Handlers : Goes(c, req[c], q) /\ \E n, v : Mints(c, q, n, v) BY <1>3, AddStep
  <2>2. Grows BY <1>3, AddStep
  <2> QED BY <2>1, <2>2, MintKept
<1>4. CASE AppendReverse(c)
  <2>1. Head(req[c].plan).do = "append" BY <1>4 DEF AppendReverse, At
  <2>2. UNCHANGED <<inode, used, active, pathOf, fdVars, ops, dup, late>> BY <1>4 DEF AppendReverse
  <2>3. Still BY <2>2 DEF Still, fdVars
  <2> QED BY <1>4, <2>1, <2>2, <2>3, AppendStep, CalmKept
<1>5. CASE Kill(c)
  <2>1. PICK q \in Handlers : \E i : Kills(c, req[c], q, i) BY <1>5, KillStep
  <2>2. UNCHANGED <<inode, used, pathOf, reverse, fdVars, ops, dup>> BY <1>5 DEF Kill
  <2> QED BY <1>5, <2>1, <2>2, KillStep, KillKept
<1>6. CASE Unmap(c)
  <2>1. Head(req[c].plan).do = "unmap" BY <1>6 DEF Unmap, At
  <2>2. UNCHANGED <<inode, used, active, pathOf, fdVars, ops, dup, late>> BY <1>6 DEF Unmap
  <2>3. Still BY <2>2 DEF Still, fdVars
  <2> QED BY <1>6, <2>1, <2>2, <2>3, UnmapStep, CalmKept
<1>7. CASE DropOne(c)
  <2>1. PICK q \in Handlers : \E t, i : Drops(c, req[c], q, t, i) BY <1>7, DropStep
  <2>2. UNCHANGED <<inode, used, mapVars, ops, dup, late>> BY <1>7 DEF DropOne
  <2> QED BY <1>7, <2>1, <2>2, DropStep, DropKept
<1> QED BY <1>1, <1>2, <1>3, <1>4, <1>5, <1>6, <1>7

\* CREATE,
LEMMA CreatingStep ==
  ASSUME IInv, NEW c \in Conns, CreateCheck(c) \/ CreateFile(c) \/ Apply(c)
  PROVE  IInv'
<1>1. CASE CreateCheck(c)
  <2>1. Head(req[c].plan).do = "check" BY <1>1 DEF CreateCheck, At
  <2>2. UNCHANGED <<inode, used, mapVars, fdVars, ops, dup, late>> BY <1>1 DEF CreateCheck
  <2> QED BY <1>1, <2>1, <2>2, CheckStep, CalmStep
<1>2. CASE CreateFile(c)
  <2>1. Calm(c) /\ Head(req[c].plan).do \in {"create", "create2"} BY <1>2, CreateStep
  <2>2. UNCHANGED <<mapVars, fdVars, ops, dup, late>> BY <1>2 DEF CreateFile
  <2>3. PICK p : p = Arg(c) OBVIOUS
  <2>4. CASE UNCHANGED <<inode, used>> BY <2>1, <2>2, <2>4, CalmStep
  <2>5. CASE /\ inode[p] = Nil
             /\ \E i \in Inodes \ used : inode' = [inode EXCEPT ![p] = i] /\ used' = used \cup {i}
    <3>1. /\ active' = active /\ pathOf' = pathOf /\ reverse' = reverse
          /\ entry' = entry /\ gen' = gen /\ ops' = ops /\ dup' = dup /\ late' = late
      BY <2>2 DEF mapVars, fdVars
    <3>2. RevOK' BY <2>1, <3>1, RevSame DEF Calm
    <3>3. Still BY <3>1 DEF Still
    <3>4. p \in Paths
      <4>1. PICK do : do \in {"create", "create2"} /\ At(c, do) BY <1>2 DEF CreateFile
      <4>2. PICK o : Acting(c, o, do) BY <4>1, Act
      <4> QED BY <2>3, <4>1, <4>2 DEF Acting, StepOK, OnPath
    <3> QED BY <2>1, <2>5, <3>1, <3>2, <3>3, <3>4, CreateKept
  <2> QED BY <1>2, <2>3, <2>4, <2>5 DEF CreateFile
<1>3. CASE Apply(c)
  <2>1. Head(req[c].plan).do = "apply" BY <1>3 DEF Apply, At
  <2>2. UNCHANGED <<inode, used, mapVars, fdVars, ops, dup, late>> BY <1>3 DEF Apply
  <2> QED BY <1>3, <2>1, <2>2, ApplyStep, CalmStep
<1> QED BY <1>1, <1>2, <1>3

\* REMOVE and RENAME,
LEMMA RemovingStep ==
  ASSUME IInv, NEW c \in Conns, RemoveFile(c) \/ RenameDrop(c) \/ RenameFile(c) \/ RenameKill(c)
  PROVE  IInv'
<1>1. CASE RemoveFile(c)
  <2>1. UNCHANGED <<used, mapVars, fdVars, ops, dup, late>> BY <1>1 DEF RemoveFile
  <2>2. Grows /\ Head(req[c].plan).do \notin {"drop", "kill", "rkill"} BY <1>1, RemoveStep DEF Removing
  <2>3. CASE Calm(c) /\ inode' = inode BY <2>1, <2>2, <2>3, CalmStep
  <2>4. CASE \E q \in Handlers : \E p : Removes(c, req[c], q, p) BY <2>1, <2>2, <2>4, RemoveKept
  <2> QED BY <1>1, <2>3, <2>4, RemoveStep
<1>2. CASE RenameDrop(c)
  <2>1. Head(req[c].plan).do = "rdrop" BY <1>2 DEF RenameDrop, At
  <2>2. UNCHANGED <<inode, used, mapVars, fdVars, ops, dup, late>> BY <1>2 DEF RenameDrop
  <2> QED BY <1>2, <2>1, <2>2, RenameDropStep, CalmStep
<1>3. CASE RenameFile(c)
  <2>1. UNCHANGED <<used, mapVars, fdVars, ops, dup, late>> BY <1>3 DEF RenameFile
  <2>2. Grows /\ Head(req[c].plan).do \notin {"drop", "kill", "rkill"} BY <1>3, RenameStep DEF Renaming
  <2>3. CASE Calm(c) /\ inode' = inode BY <2>1, <2>2, <2>3, CalmStep
  <2>4. CASE \E q \in Handlers : \E p, x : Renames(c, req[c], q, p, x) BY <2>1, <2>2, <2>4, RenameKept
  <2> QED BY <1>3, <2>3, <2>4, RenameStep
<1>4. CASE RenameKill(c)
  <2>1. UNCHANGED <<inode, used, mapVars, fdVars, ops, dup, late>> BY <1>4 DEF RenameKill
  <2>2. PICK q \in Handlers : \E p, x : Plain(c, req[c], q) /\ Rekills(req[c], q, p, x)
    BY <1>4, RenameKillStep
  <2>3. \A i \in Ids : Sole(i) /\ Findable(i) => Cached(pathOf[i]) = i BY SoleCached
  <2> QED BY <1>4, <2>1, <2>2, <2>3, RenameKillStep, RekillKept
<1> QED BY <1>1, <1>2, <1>3, <1>4

\* and READ and WRITE.
LEMMA ServiceStep ==
  ASSUME IInv, NEW c \in Conns, FromHandle(c) \/ Get(c) \/ Open(c) \/ PutIfFresh(c) \/ Use(c)
  PROVE  IInv'
<1>h. ASSUME NEW do \in Serving, At(c, do) PROVE HeadIn(req[c], Serving) BY <1>h DEF HeadIn, At
<1>s. {"get", "open", "put", "use"} \subseteq Serving BY DEF Serving
<1>1. CASE FromHandle(c)
  <2>1. UNCHANGED <<inode, used, mapVars, fdVars, ops, dup, late>> BY <1>1 DEF FromHandle
  <2>2. Grows /\ Head(req[c].plan).do = "from" BY <1>1, FromStep
  <2>3. CASE Calm(c) BY <2>1, <2>2, <2>3, CalmStep
  <2>4. CASE \E q \in Handlers : Working(c, req[c], q, "get") /\ q.id \in active
    BY <2>1, <2>2, <2>4, FromKept
  <2> QED BY <1>1, <2>3, <2>4, FromStep
<1>2. CASE Get(c)
  <2>1. UNCHANGED <<inode, used, mapVars, fdVars, ops, dup, late>> /\ At(c, "get") BY <1>2 DEF Get
  <2>2. HeadIn(req[c], Serving) BY <1>h, <1>s, <2>1
  <2>3. Grows BY <1>2, GetStep
  <2>4. PICK q \in Handlers :
              /\ q.id = req[c].id
              /\ \/ Working(c, req[c], q, "use") /\ q.ino = entry[c][q.id]
                 \/ Working(c, req[c], q, "open") /\ q.gen = gen[c]
    BY <1>2, GetStep
  <2>5. "use" # "put" /\ "use" # "open" /\ "open" # "put" BY SMT
  <2>6. CASE Working(c, req[c], q, "use") /\ q.ino = entry[c][q.id]
    BY <1>s, <2>1, <2>2, <2>3, <2>4, <2>5, <2>6, ServingKept
  <2>7. CASE Working(c, req[c], q, "open") /\ q.gen = gen[c]
    BY <1>s, <2>1, <2>2, <2>3, <2>4, <2>5, <2>7, ServingKept
  <2> QED BY <2>4, <2>6, <2>7
<1>r. ASSUME NEW do \in Serving, At(c, do), NEW q \in Handlers, q.id = req[c].id, Grows,
             Working(c, req[c], q, "get"), UNCHANGED <<inode, used, mapVars, fdVars, ops, dup, late>>
      PROVE  IInv'
  <2>1. HeadIn(req[c], Serving) BY <1>h, <1>r
  <2>2. "get" # "put" /\ "get" # "open" /\ "get" # "use" BY SMT
  <2> QED BY <1>r, <1>s, <2>1, <2>2, ServingKept
<1>3. CASE Open(c)
  <2>1. UNCHANGED <<inode, used, mapVars, fdVars, ops, dup, late>> /\ At(c, "open") BY <1>3 DEF Open
  <2>2. HeadIn(req[c], Serving) /\ HeadIn(req[c], {"open", "put"}) BY <1>h, <1>s, <2>1 DEF HeadIn, At
  <2>3. Grows /\ Head(req[c].plan).do \notin {"drop", "kill", "rkill"} BY <1>3, OpenStep
  <2>4. CASE Calm(c) BY <2>1, <2>3, <2>4, CalmStep
  <2>5. CASE \E q \in Handlers :
               /\ q.id = req[c].id /\ Working(c, req[c], q, "put") /\ q.gen = req[c].gen
               /\ q.ino = inode[pathOf[q.id]] /\ q.ino # Nil
    <3>1. PICK q \in Handlers :
               /\ q.id = req[c].id /\ Working(c, req[c], q, "put") /\ q.gen = req[c].gen
               /\ q.ino = inode[pathOf[q.id]] /\ q.ino # Nil
      BY <2>5
    <3>2. q.gen <= gen[c] BY <2>2, <3>1 DEF IInv, GenInv
    <3>3. "put" # "use" /\ "put" # "open" BY SMT
    <3> QED BY <1>s, <2>1, <2>2, <2>3, <3>1, <3>2, <3>3, ServingKept
  <2> QED BY <1>3, <2>4, <2>5, OpenStep
<1>4. CASE PutIfFresh(c)
  <2>1. UNCHANGED <<inode, used, mapVars, gen, ops, dup, late>> /\ At(c, "put") BY <1>4 DEF PutIfFresh
  <2>2. HeadIn(req[c], {"put"}) BY <2>1 DEF HeadIn, At
  <2>3. Grows /\ Head(req[c].plan).do \notin {"drop", "kill", "rkill"} BY <1>4, PutStep
  <2>4. CASE /\ entry' = [entry EXCEPT ![c][req[c].id] = req[c].ino] /\ gen[c] = req[c].gen
             /\ \E q \in Handlers : q.id = req[c].id /\ Working(c, req[c], q, "use") /\ q.ino = req[c].ino
    BY <2>1, <2>2, <2>3, <2>4, PutKept
  <2>5. CASE entry' = entry /\ Calm(c)
    <3>1. UNCHANGED <<inode, used, mapVars, fdVars, ops, dup, late>> BY <2>1, <2>5 DEF fdVars
    <3> QED BY <2>3, <2>5, <3>1, CalmStep
  <2>6. CASE entry' = entry /\ \E q \in Handlers : q.id = req[c].id /\ Working(c, req[c], q, "get")
    <3>1. UNCHANGED <<inode, used, mapVars, fdVars, ops, dup, late>> BY <2>1, <2>6 DEF fdVars
    <3> QED BY <1>r, <1>s, <2>1, <2>3, <2>6, <3>1
  <2> QED BY <1>4, <2>4, <2>5, <2>6, PutStep
<1>5. CASE Use(c)
  <2>1. UNCHANGED <<inode, used, mapVars, fdVars, ops, dup, late>> /\ At(c, "use") BY <1>5 DEF Use
  <2>2. Grows /\ Head(req[c].plan).do \notin {"drop", "kill", "rkill"} BY <1>5, UseStep
  <2>3. CASE Calm(c) BY <2>1, <2>2, <2>3, CalmStep
  <2>4. CASE \E q \in Handlers : q.id = req[c].id /\ Working(c, req[c], q, "get")
    BY <1>r, <1>s, <2>1, <2>2, <2>4
  <2> QED BY <1>5, <2>3, <2>4, UseStep
<1> QED BY <1>1, <1>2, <1>3, <1>4, <1>5

\* Nothing happens.
LEMMA Stutter ==
  ASSUME IInv, UNCHANGED vars
  PROVE  IInv'
<1>1. /\ inode' = inode /\ used' = used /\ active' = active /\ pathOf' = pathOf /\ reverse' = reverse
      /\ entry' = entry /\ gen' = gen /\ req' = req /\ ops' = ops
      /\ known' = known /\ left' = left /\ dup' = dup /\ late' = late
  BY DEF vars, mapVars, fdVars, histVars
<1>t. TypeOK /\ MapInv /\ DeadInv /\ FileInv /\ ServedInv BY DEF IInv
<1>2. TypeOK' BY <1>1, <1>t DEF TypeOK
<1>3. \A i : /\ Minted(i)' <=> Minted(i)
             /\ Findable(i)' <=> Findable(i)
             /\ Sole(i)' <=> Sole(i)
  BY <1>1 DEF Minted, Findable, Listed, Sole
<1>s. \A c, i, x : Serves(c, i, x)' <=> Serves(c, i, x) BY <1>1 DEF Serves, At
<1>4. MapInv' BY <1>1, <1>t, <1>3 DEF MapInv
<1>5. ActiveIsFindable' BY <1>1 DEF IInv, ActiveIsFindable, Has
<1>6. (\A c \in Conns : HandlerOK(req[c]))'
  <2>1. Grows BY <1>1, SameMaps
  <2>2. \A c \in Conns : HandlerOK(req[c])' BY <2>1, <1>1, HandlerKept DEF IInv
  <2> QED BY <2>2
<1>7. DeadInv' BY <1>1, <1>t DEF DeadInv
<1>8. FileInv' BY <1>1, <1>t DEF FileInv
<1>9. SoleInv' BY <1>1 DEF IInv, SoleInv, Sole, Has
<1>10. ServedInv'
  <2>1. \A c \in Conns, i \in Ids, x \in Inodes : (Sole(i) /\ Serves(c, i, x))' =>
          /\ <<pathOf[i], x>> \notin left
          /\ \A d \in Conns : <<pathOf[i], x>> \in req[d].gone => Killing(req[d], i, pathOf[i])
    BY <1>t, <1>3, <1>s DEF ServedInv
  <2> QED BY <1>1, <2>1 DEF ServedInv
<1>11. ReaderInv' /\ GenInv' BY <1>1 DEF IInv, ReaderInv, GenInv, HeadIn
<1> QED BY <1>2, <1>4, <1>5, <1>6, <1>7, <1>8, <1>9, <1>10, <1>11 DEF IInv

-----------------------------------------------------------------------------
\* The inductive invariant holds in every reachable state: what MapInv, DeadInv,
\* FileInv, SoleInv, ServedInv, ReaderInv and GenInv say of handles, fds and files.
THEOREM Invariance == Spec => []IInv
<1>1. Init => IInv BY InitOK
<1>2. IInv /\ [Next]_vars => IInv'
  <2> SUFFICES ASSUME IInv, [Next]_vars PROVE IInv' OBVIOUS
  <2>1. CASE Next
    <3>1. PICK c \in Conns :
            \/ \E p \in Paths : Lookup(c, p) \/ Create(c, p) \/ Remove(c, p) \/ \E q \in Paths : Rename(c, p, q)
            \/ \E i \in Ids : ReadOrWrite(c, i)
            \/ LookupStat(c) \/ Find(c) \/ Add(c) \/ AppendReverse(c) \/ Kill(c) \/ Unmap(c) \/ DropOne(c)
            \/ CreateCheck(c) \/ CreateFile(c) \/ Apply(c) \/ RemoveFile(c)
            \/ RenameDrop(c) \/ RenameFile(c) \/ RenameKill(c)
            \/ FromHandle(c) \/ Get(c) \/ Open(c) \/ PutIfFresh(c) \/ Use(c)
      BY <2>1 DEF Next
    <3>2. CASE \E p \in Paths : Lookup(c, p) \/ Create(c, p) \/ Remove(c, p) \/ \E q \in Paths : Rename(c, p, q)
      BY <3>2, StartStep
    <3>3. CASE \E i \in Ids : ReadOrWrite(c, i) BY <3>3, StartStep
    <3> QED BY <3>1, <3>2, <3>3, HandleStep, CreatingStep, RemovingStep, ServiceStep
  <2>2. CASE UNCHANGED vars BY <2>2, Stutter
  <2> QED BY <2>1, <2>2
<1> QED BY <1>1, <1>2, PTL DEF Spec

\* Every variable of the handle cache, the fd caches and the requests keeps its type.
THEOREM TypeCorrect == Spec => []TypeOK
<1>1. IInv => TypeOK BY DEF IInv
<1> QED BY <1>1, Invariance, PTL

\* Every handle that resolves can be found by its path, or its ToHandle is about to add
\* it to the reverse map (searchReverseCache, evictReverseCache).
THEOREM HandlesFindable == Spec => []ActiveIsFindable
<1>1. IInv => ActiveIsFindable BY DEF IInv
<1> QED BY <1>1, Invariance, PTL

\* No fd stays cached under a handle that was evicted or invalidated, but for the
\* handles that a READ or WRITE had resolved before they went (onCacheEvict).
THEOREM DeadDropped == Spec => []DeadFdsDropped
<1>1. ASSUME IInv PROVE DeadFdsDropped
  <2>1. \A c \in Conns, i \in Ids : entry[c][i] # Nil =>
          i \in active \cup late \/ \E d \in Conns : Dropping(req[d], c, i)
    BY <1>1 DEF IInv, DeadInv
  <2>2. \A c, d \in Conns, i \in Ids : Dropping(req[d], c, i) => Has(req[d], "drop", i)
    BY DEF Dropping, Has
  <2> QED BY <2>1, <2>2 DEF DeadFdsDropped
<1> QED BY <1>1, Invariance, PTL

\* A READ or WRITE sent after a REMOVE or RENAME replied does not reach, by name, the file
\* that this request took away, unless two handles stood for the name.
THEOREM ServedCurrent == Spec => []ServedFileCurrent
<1>1. ASSUME IInv PROVE ServedFileCurrent
  <2>1. \A c \in Conns : At(c, "use") => HeadIn(req[c], {"put", "use"}) BY DEF At, HeadIn
  <2> QED BY <1>1, <2>1 DEF IInv, ReaderInv, ServedFileCurrent
<1> QED BY <1>1, Invariance, PTL
=============================================================================
