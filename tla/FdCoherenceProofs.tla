-------------------------- MODULE FdCoherenceProofs --------------------------
(***************************************************************************)
(* FdCoherence for any numbers of connections, fds, WRITEs and changes:    *)
(* IInv (at the end of FdCoherence) is inductive.  Every action is first   *)
(* reduced to what it does to the locals of its request, and each conjunct *)
(* of IInv then has a lemma with one step per action.                      *)
(***************************************************************************)
EXTENDS FdCoherence, TLAPS

\* Most leaves are first-order; those with arithmetic or sequences ask for SMT.
USE Zenon

\* Every plan begins and ends with a drop; what is left of one ends with a drop.
LEMMA PlanEnds ==
  /\ \A op \in Workload : Plan[op] \in Seq(Stages) /\ EndsInDrop(Plan[op])
                          /\ Head(Plan[op]) = "drop"
  /\ \A p \in Seq(Stages) : EndsInDrop(p) =>
       /\ Head(p) \in Stages /\ Tail(p) \in Seq(Stages)
       /\ Tail(p) # <<>> => EndsInDrop(Tail(p))
       /\ Head(p) # "drop" => Tail(p) # <<>>
  /\ \A p \in Seq(Stages) : EndsInDrop(p) =>
       LET q == <<"drop", "again">> \o p IN
       q \in Seq(Stages) /\ EndsInDrop(q) /\ Head(q) = "drop"
  /\ LET q == <<"drop">> IN q \in Seq(Stages) /\ EndsInDrop(q) /\ Head(q) = "drop"
<1>1. \A op \in Workload : Plan[op] \in Seq(Stages) /\ EndsInDrop(Plan[op])
                          /\ Head(Plan[op]) = "drop"
  <2>1. \A op \in Workload : op \in {"setattr", "create"}
    BY ChangeKinds
  <2>2. Plan["setattr"] = <<"drop", "lstat", "mode", "owner", "size", "drop">>
    BY DEF Plan
  <2>3. Plan["create"] = <<"drop", "create", "drop", "lstat", "mode", "owner", "size", "drop">>
    BY DEF Plan
  <2>4. Plan["setattr"] \in Seq(Stages) /\ Plan["create"] \in Seq(Stages)
    BY SMT, <2>2, <2>3 DEF Stages
  <2>5. EndsInDrop(Plan["setattr"]) /\ Head(Plan["setattr"]) = "drop"
    BY SMT, <2>2 DEF EndsInDrop
  <2>6. EndsInDrop(Plan["create"]) /\ Head(Plan["create"]) = "drop"
    BY SMT, <2>3 DEF EndsInDrop
  <2> QED BY <2>1, <2>4, <2>5, <2>6
<1>2. ASSUME NEW p \in Seq(Stages), EndsInDrop(p)
      PROVE  /\ Head(p) \in Stages /\ Tail(p) \in Seq(Stages)
             /\ Tail(p) # <<>> => EndsInDrop(Tail(p))
             /\ Head(p) # "drop" => Tail(p) # <<>>
  <2>1. p # <<>> /\ Len(p) \in Nat /\ Len(p) > 0 /\ p[Len(p)] = "drop" /\ Head(p) = p[1]
    BY SMT, <1>2 DEF EndsInDrop
  <2>2. Head(p) \in Stages /\ Tail(p) \in Seq(Stages) /\ Len(Tail(p)) = Len(p) - 1
    BY SMT, <2>1
  <2>3. ASSUME Tail(p) # <<>> PROVE EndsInDrop(Tail(p))
    <3>1. Len(Tail(p)) > 0 BY SMT, <2>2, <2>3
    <3>2. Tail(p)[Len(p) - 1] = p[Len(p)] BY SMT, <2>1, <2>2, <3>1
    <3> QED BY <2>1, <2>2, <2>3, <3>2 DEF EndsInDrop
  <2>4. ASSUME Tail(p) = <<>> PROVE Head(p) = "drop"
    <3>0. Len(<<>>) = 0 BY SMT
    <3>1. Len(Tail(p)) = 0 BY <3>0, <2>4
    <3>2. \A n \in Nat : n - 1 = 0 => n = 1 BY SMT
    <3>3. Len(p) = 1 BY <2>1, <2>2, <3>1, <3>2
    <3> QED BY <2>1, <3>3
  <2> QED BY <2>2, <2>3, <2>4
<1>3. ASSUME NEW p \in Seq(Stages), EndsInDrop(p)
      PROVE  LET q == <<"drop", "again">> \o p IN
             q \in Seq(Stages) /\ EndsInDrop(q) /\ Head(q) = "drop"
  <2>1. <<"drop", "again">> \in Seq(Stages)
    BY SMT DEF Stages
  <2> QED BY SMT, <1>3, <2>1 DEF EndsInDrop
<1>4. LET q == <<"drop">> IN q \in Seq(Stages) /\ EndsInDrop(q) /\ Head(q) = "drop"
  BY SMT DEF EndsInDrop, Stages
<1> QED BY <1>1, <1>2, <1>3, <1>4

\* Updates of a request's locals.
LEMMA ReqUpdates ==
  ASSUME NEW r \in Requests, NEW v \in Nat
  PROVE  /\ LET q == [r EXCEPT !.ver = v] IN
            /\ q \in Requests /\ q.kind = r.kind /\ q.before = r.before
            /\ q.floor = r.floor /\ q.ver = v /\ q.cut = r.cut
         /\ LET q == [r EXCEPT !.ver = v, !.cut = TRUE] IN
            /\ q \in Requests /\ q.kind = r.kind /\ q.before = r.before
            /\ q.floor = r.floor /\ q.ver = v /\ q.cut
<1> DEFINE q1 == [r EXCEPT !.ver = v]
           q2 == [r EXCEPT !.ver = v, !.cut = TRUE]
<1>1. q1 \in Requests BY DEF Requests
<1>2. q2 \in Requests BY DEF Requests
<1>3. q1.kind = r.kind /\ q1.before = r.before /\ q1.floor = r.floor BY DEF Requests
<1>4. q2.kind = r.kind /\ q2.before = r.before /\ q2.floor = r.floor BY DEF Requests
<1>5. q1.ver = v /\ q2.ver = v /\ q1.cut = r.cut /\ q2.cut BY DEF Requests
<1> QED BY <1>1, <1>2, <1>3, <1>4, <1>5

\* The locals of a new request.
LEMMA NewReqs ==
  ASSUME NEW B \in SUBSET Writes, NEW n \in Nat, NEW w \in Writes \cup {Nil}
  PROVE  /\ NoReq \in Requests /\ NoReq.kind = "none" /\ NoReq.before = {}
         /\ NoReq.floor = 0 /\ NoReq.ver = 0
         /\ LET q == [NoReq EXCEPT !.kind = "change", !.before = B] IN
            /\ q \in Requests /\ q.kind = "change" /\ q.before = B
            /\ q.floor = 0 /\ q.ver = 0 /\ ~ q.cut
         /\ LET q == [NoReq EXCEPT !.kind = "r", !.floor = n] IN
            /\ q \in Requests /\ q.kind = "r" /\ q.before = {} /\ q.floor = n /\ q.ver = 0
         /\ LET q == [NoReq EXCEPT !.kind = "w", !.w = w, !.floor = n] IN
            /\ q \in Requests /\ q.kind = "w" /\ q.w = w /\ q.before = {} /\ q.floor = n
            /\ q.ver = 0
<1> DEFINE q1 == [NoReq EXCEPT !.kind = "change", !.before = B]
           q2 == [NoReq EXCEPT !.kind = "r", !.floor = n]
           q3 == [NoReq EXCEPT !.kind = "w", !.w = w, !.floor = n]
<1>1. NoReq \in Requests BY SMT DEF NoReq, Requests
<1>2. q1 \in Requests BY <1>1 DEF Requests
<1>3. q2 \in Requests BY <1>1 DEF Requests, Kinds
<1>4. q3 \in Requests BY <1>1 DEF Requests, Kinds
<1>5. NoReq.kind = "none" /\ NoReq.before = {} /\ NoReq.floor = 0 /\ NoReq.ver = 0
  BY DEF NoReq
<1>6. q1.kind = "change" /\ q1.before = B /\ q1.floor = 0 /\ q1.ver = 0 /\ ~ q1.cut
  BY DEF NoReq
<1>7. q2.kind = "r" /\ q2.before = {} /\ q2.floor = n /\ q2.ver = 0
  BY DEF NoReq
<1>8. q3.kind = "w" /\ q3.w = w /\ q3.before = {} /\ q3.floor = n /\ q3.ver = 0
  BY DEF NoReq
<1> QED BY <1>1, <1>2, <1>3, <1>4, <1>5, <1>6, <1>7, <1>8

\* The handlers of SETATTR and CREATE between two stages.
Advances(c) ==
  \/ \E op \in Workload : StartChange(c, op)
  \/ DropDone(c) \/ Lstat(c) \/ Mode(c) \/ Size(c) \/ Create(c)

\* c goes on with stage l and locals q.
Moves(c, l, q) ==
  /\ l \in {"drop"} \cup Applying /\ q \in Requests /\ q.kind = "change"
  /\ EndsInDrop(q.plan) /\ Head(q.plan) = l
  /\ q.todo = IF l = "drop" THEN Conns ELSE {}
  /\ l # "drop" => pc[c] # "idle" /\ req[c].todo = {}
  /\ q.before = IF pc[c] = "idle" THEN acked ELSE req[c].before
  /\ q.floor = IF pc[c] = "idle" THEN 0 ELSE req[c].floor
  /\ q.ver \in {0, ver', req[c].ver}
  /\ q.cut => pc[c] # "idle" /\ (req[c].cut \/ (Cut /\ req[c].todo = {}))
  /\ pc' = [pc EXCEPT ![c] = l] /\ req' = [req EXCEPT ![c] = q]
  /\ UNCHANGED <<okVer, dead>>

\* c's change replies OK.
Replies(c) ==
  /\ pc[c] = "drop" /\ req[c].todo = {}
  /\ okVer' = MaxOf(okVer, req[c].ver)
  /\ dead' = IF req[c].cut THEN dead \cup req[c].before ELSE dead
  /\ UNCHANGED <<ver, content, raced>>

\* GoOn with what is left of the plan.
LEMMA GoOnMoves ==
  ASSUME TypeOK, ControlInv, NEW c \in Conns, pc[c] \in {"idle", "drop"} \cup Applying,
         NEW p \in Seq(Stages), EndsInDrop(p), NEW r \in Requests, GoOn(c, p, r),
         r.kind = "change", Head(p) # "drop" => pc[c] # "idle" /\ req[c].todo = {},
         r.before = IF pc[c] = "idle" THEN acked ELSE req[c].before,
         r.floor = IF pc[c] = "idle" THEN 0 ELSE req[c].floor,
         r.ver \in {0, ver', req[c].ver},
         r.cut => pc[c] # "idle" /\ (req[c].cut \/ (Cut /\ req[c].todo = {}))
  PROVE  \E l, q : Moves(c, l, q)
<1> DEFINE q == [r EXCEPT !.plan = p, !.tgt = Nil, !.fd = Nil,
                          !.todo = IF Head(p) = "drop" THEN Conns ELSE {}]
<1>1. p # <<>> /\ Head(p) \in {"drop"} \cup Applying
  BY PlanEnds DEF EndsInDrop, Stages, Applying
<1>2. q \in Requests
  BY DEF Requests
<1>3. q.kind = r.kind /\ q.plan = p /\ q.before = r.before /\ q.floor = r.floor
      /\ q.ver = r.ver /\ q.cut = r.cut /\ q.todo = IF Head(p) = "drop" THEN Conns ELSE {}
  BY DEF Requests
<1>4. Moves(c, Head(p), q)
  BY <1>1, <1>2, <1>3 DEF Moves, GoOn, Goto
<1> QED BY <1>4

\* A change between two stages goes on, replies, or gives up.
LEMMA Advance ==
  ASSUME TypeOK, ControlInv, NEW c \in Conns, Advances(c)
  PROVE  /\ UNCHANGED <<fdVars, cacheVars, acked, sent, reads>>
         /\ pc[c] \in {"idle", "drop"} \cup Applying
         /\ UNCHANGED <<ver, content, raced>> \/ (ver' = ver + 1 /\ UNCHANGED <<content, raced>>) \/ (Cut /\ req[c].todo = {})
         /\ changes' \in {changes, changes + 1}
         /\ \/ \E l, q : Moves(c, l, q)
            \/ Return(c) /\ (Replies(c) \/ UNCHANGED <<okVer, dead>>)
<1> USE DEF Applying, fdVars, cacheVars, boundVars
<1>0. req[c] \in Requests
  BY DEF TypeOK
<1>1. CASE \E op \in Workload : StartChange(c, op)
  <2>1. PICK op \in Workload : StartChange(c, op) BY <1>1
  <2> DEFINE r == [NoReq EXCEPT !.kind = "change", !.before = acked]
  <2>2. r \in Requests /\ r.kind = "change" /\ r.before = acked /\ r.floor = 0 /\ r.ver = 0
        /\ ~ r.cut
    <3>1. acked \in SUBSET Writes /\ 0 \in Nat /\ Nil \in Writes \cup {Nil}
      BY DEF TypeOK
    <3> HIDE DEF TypeOK
    <3> QED BY <3>1, NewReqs
  <2>3. \E l, q : Moves(c, l, q)
    BY <2>1, <2>2, PlanEnds, GoOnMoves DEF StartChange
  <2> QED BY <2>1, <2>3 DEF StartChange
<1>2. CASE DropDone(c)
  <2>1. req[c].kind = "change" /\ EndsInDrop(req[c].plan) /\ req[c].plan \in Seq(Stages)
    BY <1>0, <1>2 DEF DropDone, ControlInv, Control, Dropping, Requests
  <2>2. CASE Tail(req[c].plan) = <<>>
    BY <1>2, <2>2 DEF DropDone, GoOn, Replies
  <2>3. CASE Tail(req[c].plan) # <<>>
    <3>1. \E l, q : Moves(c, l, q)
      BY <1>0, <1>2, <2>1, <2>3, PlanEnds, GoOnMoves DEF DropDone
    <3> QED BY <1>2, <3>1 DEF DropDone
  <2> QED BY <2>2, <2>3
<1>a. ASSUME pc[c] \in Applying
      PROVE  /\ req[c].kind = "change" /\ req[c].todo = {}
             /\ Tail(req[c].plan) \in Seq(Stages) /\ EndsInDrop(Tail(req[c].plan))
  <2>1. req[c].kind = "change" /\ req[c].todo = {} /\ EndsInDrop(req[c].plan)
        /\ req[c].plan \in Seq(Stages) /\ Head(req[c].plan) # "drop"
    BY <1>0, <1>a DEF ControlInv, Control, Requests
  <2> QED BY <2>1, PlanEnds
<1>3. CASE Lstat(c)
  <2>1. pc[c] \in Applying BY <1>3 DEF Lstat
  <2>2. CASE Fail(c)
    BY <1>3, <2>2, <2>1 DEF Lstat, Fail
  <2>3. CASE GoOn(c, Tail(req[c].plan), req[c])
    <3>1. \E l, q : Moves(c, l, q)
      BY <1>0, <1>3, <2>1, <1>a, <2>3, GoOnMoves DEF Lstat
    <3> QED BY <1>3, <3>1 DEF Lstat
  <2>4. CASE GoOn(c, <<"drop">>, req[c])
    <3>1. \E l, q : Moves(c, l, q)
      BY <1>0, <1>3, <2>1, <1>a, <2>4, GoOnMoves, PlanEnds DEF Lstat
    <3> QED BY <1>3, <3>1 DEF Lstat
  <2> QED BY <1>3, <2>2, <2>3, <2>4 DEF Lstat
<1>b. ASSUME pc[c] \in Applying, ver' = ver + 1
      PROVE  LET r == [req[c] EXCEPT !.ver = ver'] IN
             /\ r \in Requests /\ r.kind = "change" /\ r.before = req[c].before
             /\ r.floor = req[c].floor /\ r.ver = ver' /\ r.cut = req[c].cut
  <2>1. ver' \in Nat BY SMT, <1>b DEF TypeOK
  <2>2. req[c].kind = "change" BY <1>a, <1>b
  <2> QED BY <1>0, <2>1, <2>2, ReqUpdates
<1>c. ASSUME pc[c] \in Applying, Cut
      PROVE  /\ CutReq(c) \in Requests /\ CutReq(c).kind = "change"
             /\ CutReq(c).before = req[c].before /\ CutReq(c).floor = req[c].floor
             /\ CutReq(c).ver = ver' /\ CutReq(c).cut
  <2>1. ver' \in Nat BY SMT, <1>c DEF TypeOK, Cut
  <2>2. req[c].kind = "change" BY <1>a, <1>c
  <2> QED BY <1>0, <2>1, <2>2, ReqUpdates DEF CutReq
<1>4. CASE Mode(c)
  <2>1. pc[c] \in Applying BY <1>4 DEF Mode
  <2>2. CASE Fail(c)
    BY <1>4, <2>2, <2>1 DEF Mode, Fail
  <2>3. CASE UNCHANGED ver /\ GoOn(c, Tail(req[c].plan), req[c])
    <3>1. \E l, q : Moves(c, l, q)
      BY <1>0, <1>4, <2>1, <1>a, <2>3, GoOnMoves DEF Mode
    <3> QED BY <1>4, <3>1, <2>3 DEF Mode
  <2>4. CASE ver' = ver + 1 /\ GoOn(c, Tail(req[c].plan), [req[c] EXCEPT !.ver = ver'])
    <3>1. \E l, q : Moves(c, l, q)
      BY <1>4, <2>1, <1>a, <1>b, <2>4, GoOnMoves DEF Mode
    <3> QED BY <1>4, <3>1, <2>4 DEF Mode
  <2> QED BY <1>4, <2>2, <2>3, <2>4 DEF Mode
<1>5. CASE Size(c)
  <2>1. pc[c] \in Applying BY <1>5 DEF Size
  <2>2. CASE Fail(c)
    BY <1>5, <2>2, <2>1, <1>a DEF Size, Fail
  <2>3. CASE UNCHANGED <<ver, content, raced>> /\ GoOn(c, Tail(req[c].plan), req[c])
    <3>1. \E l, q : Moves(c, l, q)
      BY <1>0, <1>5, <2>1, <1>a, <2>3, GoOnMoves DEF Size
    <3> QED BY <1>5, <3>1, <2>3 DEF Size
  <2>4. CASE Cut /\ GoOn(c, Tail(req[c].plan), CutReq(c))
    <3>1. \E l, q : Moves(c, l, q)
      BY <1>5, <2>1, <1>a, <1>c, <2>4, GoOnMoves DEF Size
    <3> QED BY <1>5, <1>a, <2>1, <3>1, <2>4 DEF Size
  <2> QED BY <1>5, <2>2, <2>3, <2>4 DEF Size
<1>6. CASE Create(c)
  <2>1. pc[c] \in Applying BY <1>6 DEF Create
  <2>2. CASE Fail(c)
    BY <1>6, <2>2, <2>1, <1>a DEF Create, Fail
  <2>3. CASE UNCHANGED <<ver, content, raced>>
             /\ GoOn(c, <<"drop", "again">> \o Tail(req[c].plan), req[c])
    <3>1. \E l, q : Moves(c, l, q)
      BY <1>0, <1>6, <2>1, <1>a, <2>3, PlanEnds, GoOnMoves DEF Create
    <3> QED BY <1>6, <3>1, <2>3 DEF Create
  <2>4. CASE Cut /\ GoOn(c, Tail(req[c].plan), CutReq(c))
    <3>1. \E l, q : Moves(c, l, q)
      BY <1>6, <2>1, <1>a, <1>c, <2>4, GoOnMoves DEF Create
    <3> QED BY <1>6, <1>a, <2>1, <3>1, <2>4 DEF Create
  <2> QED BY <1>6, <2>2, <2>3, <2>4 DEF Create
<1> QED BY <1>1, <1>2, <1>3, <1>4, <1>5, <1>6 DEF Advances
\* Locals q are those of the same request r, at another step.
Keeps(q, r) ==
  /\ q \in Requests /\ q.kind = r.kind /\ q.w = r.w /\ q.floor = r.floor
  /\ q.plan = r.plan /\ q.ver = r.ver /\ q.before = r.before /\ q.cut = r.cut

\* c goes to label l with locals q.
Sets(c, l, q) == pc' = [pc EXCEPT ![c] = l] /\ req' = [req EXCEPT ![c] = q]

\* The updates of READ, WRITE and the drops.
LEMMA SetGen ==
  ASSUME NEW r \in Requests, NEW n \in Nat
  PROVE  LET q == [r EXCEPT !.gen = n] IN Keeps(q, r) /\ q.gen = n
  BY DEF Requests, Keeps

\* ... its fd,
LEMMA SetFd ==
  ASSUME NEW r \in Requests, NEW h \in Fds \cup {Nil}
  PROVE  LET q == [r EXCEPT !.fd = h] IN
         Keeps(q, r) /\ q.fd = h /\ q.gen = r.gen /\ q.todo = r.todo /\ q.tgt = r.tgt
  BY DEF Requests, Keeps

\* ... those of a retry,
LEMMA SetRetry ==
  ASSUME NEW r \in Requests
  PROVE  /\ LET q == [r EXCEPT !.att = 1, !.fd = Nil] IN Keeps(q, r)
         /\ LET q == [r EXCEPT !.again = TRUE, !.att = 0, !.fd = Nil] IN Keeps(q, r)
<1>1. 0 \in 0..1 /\ 1 \in 0..1 BY SMT
<1>2. LET q == [r EXCEPT !.att = 1, !.fd = Nil] IN Keeps(q, r)
  BY <1>1 DEF Requests, Keeps
<1>3. LET q == [r EXCEPT !.again = TRUE, !.att = 0, !.fd = Nil] IN Keeps(q, r)
  BY <1>1 DEF Requests, Keeps
<1> QED BY <1>2, <1>3

\* ... those of a drop that goes on to connection t.
Target(r, t, h) == [r EXCEPT !.todo = @ \ {t}, !.tgt = t, !.fd = h]
\* They are locals again, and keep the rest.
LEMMA SetTarget ==
  ASSUME NEW r \in Requests, NEW h \in Fds \cup {Nil}, NEW t \in Conns
  PROVE  LET q == Target(r, t, h) IN
         Keeps(q, r) /\ q.fd = h /\ q.todo = r.todo \ {t} /\ q.tgt = t
  BY DEF Requests, Keeps, Target

\* What each step of a request does to its locals.
LEMMA GetLocals ==
  ASSUME TypeOK, ControlInv, NEW c \in Conns, Get(c)
  PROVE  \E q : /\ Keeps(q, req[c])
                /\ \/ entry[Own(c)] = Nil /\ q.gen = gen[Own(c)] /\ Sets(c, "open", q)
                   \/ entry[Own(c)] # Nil /\ q.fd = entry[Own(c)] /\ Sets(c, "use", q)
<1>1. req[c] \in Requests /\ req \in [Conns -> Requests] /\ pc[c] = "get" /\ Own(c) \in Caches
  BY DEF TypeOK, ControlInv, Control, Own, Caches, Get
<1>2. gen[Own(c)] \in Nat /\ entry[Own(c)] \in Fds \cup {Nil}
  BY <1>1 DEF TypeOK
<1>3. CASE entry[Own(c)] = Nil
  <2>1. req' = [req EXCEPT ![c] = [req[c] EXCEPT !.gen = gen[Own(c)]]]
    BY <1>1, <1>3 DEF Get
  <2> QED BY <1>1, <1>2, <1>3, <2>1, SetGen DEF Get, Goto, Sets
<1>4. CASE entry[Own(c)] # Nil
  <2>1. req' = [req EXCEPT ![c] = [req[c] EXCEPT !.fd = entry[Own(c)]]]
    BY <1>1, <1>4 DEF Get
  <2> QED BY <1>1, <1>2, <1>4, <2>1, SetFd DEF Get, Goto, Sets
<1> QED BY <1>3, <1>4

\* Open fails, or takes an unused identity for the fd.
LEMMA OpenLocals ==
  ASSUME TypeOK, NEW c \in Conns, Open(c)
  PROVE  \/ Return(c) /\ UNCHANGED fver
         \/ \E h \in Fds : \E q : /\ fver[h] = Nil /\ fver' = [fver EXCEPT ![h] = ver]
                              /\ Keeps(q, req[c]) /\ q.fd = h /\ q.gen = req[c].gen
                              /\ Sets(c, "put", q)
<1>1. req[c] \in Requests /\ req \in [Conns -> Requests]
  BY DEF TypeOK
<1>2. ASSUME NEW h \in Fds, fver[h] = Nil, fver' = [fver EXCEPT ![h] = ver],
             req' = [req EXCEPT ![c].fd = h], Goto(c, "put")
      PROVE  \E q : /\ Keeps(q, req[c]) /\ q.fd = h /\ q.gen = req[c].gen
                    /\ Sets(c, "put", q)
  <2>1. req' = [req EXCEPT ![c] = [req[c] EXCEPT !.fd = h]]
    BY <1>1, <1>2
  <2>2. pc' = [pc EXCEPT ![c] = "put"]
    BY <1>2 DEF Goto
  <2> QED BY <1>1, <2>1, <2>2, SetFd DEF Sets
<1> QED BY <1>2 DEF Open

\* PutRefused and UseClosed give up or try once more.
LEMMA RetryLocals ==
  ASSUME TypeOK, NEW c \in Conns, PutRefused(c) \/ UseClosed(c)
  PROVE  Return(c) \/ \E q : Keeps(q, req[c]) /\ Sets(c, "get", q)
<1>1. req[c] \in Requests /\ req \in [Conns -> Requests]
  BY DEF TypeOK
<1>2. ASSUME Goto(c, "get"), req' = [req EXCEPT ![c].att = 1, ![c].fd = Nil]
      PROVE  \E q : Keeps(q, req[c]) /\ Sets(c, "get", q)
  <2>1. req' = [req EXCEPT ![c] = [req[c] EXCEPT !.att = 1, !.fd = Nil]]
    BY <1>1, <1>2
  <2> QED BY <1>1, <1>2, <2>1, SetRetry DEF Sets, Goto
<1>3. ASSUME Goto(c, "get"),
             req' = [req EXCEPT ![c].again = TRUE, ![c].att = 0, ![c].fd = Nil]
      PROVE  \E q : Keeps(q, req[c]) /\ Sets(c, "get", q)
  <2>1. req' = [req EXCEPT ![c] = [req[c] EXCEPT !.again = TRUE, !.att = 0, !.fd = Nil]]
    BY <1>1, <1>3
  <2> QED BY <1>1, <1>3, <2>1, SetRetry DEF Sets, Goto
<1> QED BY <1>2, <1>3 DEF PutRefused, UseClosed, RemoveIf, Retry

\* One step of a drop: it takes the fd of one cache out, or closes what it took.
LEMMA DropLocals ==
  ASSUME TypeOK, ControlInv, NEW c \in Conns
  PROVE  /\ DropW(c) => \E t \in req[c].todo : \E q :
              /\ gen' = [gen EXCEPT ![<<t, "w">>] = @ + 1]
              /\ entry' = [entry EXCEPT ![<<t, "w">>] = Nil]
              /\ Keeps(q, req[c]) /\ q.fd = entry[<<t, "w">>]
              /\ q.todo = req[c].todo \ {t} /\ q.tgt = t
              /\ Sets(c, IF q.fd = Nil THEN "dropr" ELSE "closew", q)
         /\ DropR(c) => \E q :
              /\ Keeps(q, req[c]) /\ q.fd = entry[<<req[c].tgt, "r">>]
              /\ q.todo = req[c].todo /\ q.tgt = req[c].tgt
              /\ Sets(c, IF q.fd = Nil THEN "drop" ELSE "closer", q)
         /\ CloseDropped(c) => \E q :
              /\ Keeps(q, req[c]) /\ q.todo = req[c].todo /\ q.tgt = req[c].tgt
              /\ Sets(c, IF pc[c] = "closew" THEN "dropr" ELSE "drop", q)
<1>1. req[c] \in Requests /\ req \in [Conns -> Requests] /\ req[c].todo \subseteq Conns
  BY DEF TypeOK, Requests
<1>2. ASSUME DropW(c)
      PROVE  \E t \in req[c].todo : \E q :
              /\ gen' = [gen EXCEPT ![<<t, "w">>] = @ + 1]
              /\ entry' = [entry EXCEPT ![<<t, "w">>] = Nil]
              /\ Keeps(q, req[c]) /\ q.fd = entry[<<t, "w">>]
              /\ q.todo = req[c].todo \ {t} /\ q.tgt = t
              /\ Sets(c, IF q.fd = Nil THEN "dropr" ELSE "closew", q)
  <2>1. PICK t \in req[c].todo :
              /\ gen' = [gen EXCEPT ![<<t, "w">>] = @ + 1]
              /\ entry' = [entry EXCEPT ![<<t, "w">>] = Nil]
              /\ req' = [req EXCEPT ![c].todo = @ \ {t}, ![c].tgt = t,
                                    ![c].fd = entry[<<t, "w">>]]
              /\ Goto(c, IF entry[<<t, "w">>] = Nil THEN "dropr" ELSE "closew")
    BY <1>2 DEF DropW
  <2>2. entry[<<t, "w">>] \in Fds \cup {Nil} /\ t \in Conns
    BY <1>1 DEF TypeOK, Caches, Kinds
  <2> DEFINE q == Target(req[c], t, entry[<<t, "w">>])
  <2>3. req' = [req EXCEPT ![c] = q]
    BY <1>1, <2>1 DEF Target
  <2>4. Keeps(q, req[c]) /\ q.fd = entry[<<t, "w">>] /\ q.todo = req[c].todo \ {t} /\ q.tgt = t
    BY SMT, <1>1, <2>2, SetTarget
  <2> HIDE DEF q
  <2>5. Sets(c, IF q.fd = Nil THEN "dropr" ELSE "closew", q)
    BY <2>1, <2>3, <2>4 DEF Sets, Goto
  <2> QED BY <2>1, <2>4, <2>5
<1>3. ASSUME DropR(c)
      PROVE  \E q :
              /\ Keeps(q, req[c]) /\ q.fd = entry[<<req[c].tgt, "r">>]
              /\ q.todo = req[c].todo /\ q.tgt = req[c].tgt
              /\ Sets(c, IF q.fd = Nil THEN "drop" ELSE "closer", q)
  <2>1. <<req[c].tgt, "r">> \in Caches
    BY <1>3 DEF DropR, ControlInv, Control, Caches, Kinds
  <2>2. entry[<<req[c].tgt, "r">>] \in Fds \cup {Nil}
    BY <2>1 DEF TypeOK
  <2> DEFINE q == [req[c] EXCEPT !.fd = entry[<<req[c].tgt, "r">>]]
  <2>3. req' = [req EXCEPT ![c] = q]
    BY <1>1, <1>3 DEF DropR
  <2>4. Keeps(q, req[c]) /\ q.fd = entry[<<req[c].tgt, "r">>]
        /\ q.todo = req[c].todo /\ q.tgt = req[c].tgt
    BY <1>1, <2>2, SetFd
  <2> HIDE DEF q
  <2>5. Sets(c, IF q.fd = Nil THEN "drop" ELSE "closer", q)
    BY <1>3, <2>3, <2>4 DEF Sets, Goto, DropR
  <2> QED BY <2>4, <2>5
<1>4. ASSUME CloseDropped(c)
      PROVE  \E q :
              /\ Keeps(q, req[c]) /\ q.todo = req[c].todo /\ q.tgt = req[c].tgt
              /\ Sets(c, IF pc[c] = "closew" THEN "dropr" ELSE "drop", q)
  <2> DEFINE q == [req[c] EXCEPT !.fd = Nil]
  <2>1. req' = [req EXCEPT ![c] = q]
    BY <1>1, <1>4 DEF CloseDropped
  <2>2. Keeps(q, req[c]) /\ q.todo = req[c].todo /\ q.tgt = req[c].tgt
    BY <1>1, SetFd
  <2> HIDE DEF q
  <2> QED BY <1>4, <2>1, <2>2 DEF CloseDropped, Sets, Goto
<1> QED BY <1>2, <1>3, <1>4
-----------------------------------------------------------------------------
(* Types and control.                                                      *)

Labels == {"idle", "get", "open", "put", "use", "drop", "dropr", "closew", "closer",
           "lstat", "mode", "owner", "size", "create", "again"}
\* The conjuncts of TypeOK about the requests, and the others.
LocalsOK == pc \in [Conns -> Labels] /\ req \in [Conns -> Requests]
SharedOK ==
  /\ ver \in Nat /\ content \subseteq Writes
  /\ fver \in [Fds -> Nat \cup {Nil}] /\ fbuf \in [Fds -> SUBSET Writes] /\ fclosed \subseteq Fds
  /\ entry \in [Caches -> Fds \cup {Nil}] /\ gen \in [Caches -> Nat]
  /\ evicting \subseteq Fds
  /\ sent \subseteq Writes /\ reads \in Nat /\ changes \in Nat
  /\ acked \subseteq Writes /\ okVer \in Nat 
  /\ dead \subseteq Writes /\ raced \subseteq Writes
\* Together they are TypeOK.
LEMMA TypeParts == /\ TypeOK <=> LocalsOK /\ SharedOK
                   /\ (TypeOK <=> LocalsOK /\ SharedOK)'
  BY DEF TypeOK, LocalsOK, SharedOK, Labels

\* A step that sets typed locals.
LEMMA SetsType ==
  ASSUME LocalsOK, NEW c \in Conns, NEW l \in Labels, NEW q \in Requests, Sets(c, l, q)
  PROVE  LocalsOK'
  BY DEF LocalsOK, Sets

\* The end of a request.
LEMMA ReturnType ==
  ASSUME LocalsOK, NEW c \in Conns, Return(c)
  PROVE  LocalsOK' /\ Sets(c, "idle", NoReq)
<1>1. NoReq \in Requests
  BY NewReqs
<1> QED BY <1>1 DEF LocalsOK, Return, Goto, Labels, Sets

\* The locals of a request stay well typed.
LEMMA LocalsStep ==
  ASSUME TypeOK, ControlInv, Next
  PROVE  LocalsOK'
<1>0. LocalsOK BY TypeParts
<1> USE DEF Labels, Keeps
<1>1. ASSUME NEW c \in Conns, StartRead(c) PROVE LocalsOK'
  <2>1. [NoReq EXCEPT !.kind = "r", !.floor = okVer] \in Requests /\ "get" \in Labels
    BY NewReqs DEF TypeOK
  <2> QED BY <1>0, <1>1, <2>1 DEF StartRead, Goto, LocalsOK
<1>2. ASSUME NEW c \in Conns, NEW w \in Writes, StartWrite(c, w) PROVE LocalsOK'
  <2>1. [NoReq EXCEPT !.kind = "w", !.w = w, !.floor = okVer] \in Requests /\ "get" \in Labels
    BY NewReqs DEF TypeOK
  <2> QED BY <1>0, <1>2, <2>1 DEF StartWrite, Goto, LocalsOK
<1>3. ASSUME NEW c \in Conns, Get(c) PROVE LocalsOK'
  BY <1>0, <1>3, GetLocals, SetsType
<1>4. ASSUME NEW c \in Conns, Open(c) PROVE LocalsOK'
  BY <1>0, <1>4, OpenLocals, SetsType, ReturnType
<1>5. ASSUME NEW c \in Conns, PutIfFresh(c) PROVE LocalsOK'
  BY <1>0, <1>5 DEF PutIfFresh, Goto, LocalsOK
<1>6. ASSUME NEW c \in Conns, PutRefused(c) \/ UseClosed(c) PROVE LocalsOK'
  BY <1>0, <1>6, RetryLocals, SetsType, ReturnType
<1>8. ASSUME NEW c \in Conns, Use(c) PROVE LocalsOK'
  BY <1>0, <1>8, ReturnType DEF Use
<1>9. ASSUME NEW c \in Conns, DropW(c) PROVE LocalsOK'
  BY ZenonT(40), <1>0, <1>9, DropLocals, SetsType
<1>10. ASSUME NEW c \in Conns, DropR(c) PROVE LocalsOK'
  BY <1>0, <1>10, DropLocals, SetsType
<1>11. ASSUME NEW c \in Conns, CloseDropped(c) PROVE LocalsOK'
  BY ZenonT(40), <1>0, <1>11, DropLocals, SetsType
<1>12. ASSUME UNCHANGED <<pc, req>> PROVE LocalsOK'
  BY <1>0, <1>12 DEF LocalsOK
<1>15. ASSUME NEW c \in Conns, Advances(c) PROVE LocalsOK'
  <2>1. CASE \E l, q : Moves(c, l, q)
    <3>1. PICK l, q : Moves(c, l, q) BY <2>1
    <3> QED BY <1>0, <3>1, SetsType DEF Moves, Sets, Applying
  <2> QED BY <1>0, <1>15, <2>1, Advance, ReturnType
<1> QED BY <1>1, <1>2, <1>3, <1>4, <1>5, <1>6, <1>8, <1>9, <1>10, <1>11, <1>12, <1>15
        DEF Next, Advances, Evict, Sync, CloseEvicted

\* What is detached and not yet closed is an fd.
LEMMA DetachedFds == TypeOK /\ ControlInv => Detached \subseteq Fds
<1> SUFFICES ASSUME TypeOK, ControlInv, NEW h \in Detached PROVE h \in Fds
  OBVIOUS
<1>1. evicting \subseteq Fds BY DEF TypeOK
<1>2. \A c \in Conns : pc[c] = "closew" => req[c].fd \in Fds BY DEF ControlInv, Control
<1> QED BY <1>1, <1>2 DEF Detached

\* Every step preserves the type invariant.
LEMMA TypeStep ==
  ASSUME TypeOK, ControlInv, Next
  PROVE  TypeOK'
<1>0. SharedOK BY TypeParts
<1> SUFFICES SharedOK' BY LocalsStep, TypeParts
<1> USE FdNil DEF fdVars, cacheVars, boundVars, histVars, SharedOK
<1>x. \A c \in Conns : /\ pc[c] \in {"get", "open", "put", "use"} => Own(c) \in Caches
                       /\ <<c, "w">> \in Caches /\ <<c, "r">> \in Caches
                       /\ req[c].w \in Writes \cup {Nil} /\ req[c].fd \in Fds \cup {Nil}
                       /\ req[c].before \subseteq Writes /\ req[c].ver \in Nat
                       /\ req[c].todo \subseteq Conns
  BY DEF TypeOK, ControlInv, Control, Own, Caches, Kinds, Requests
<1>1. ASSUME NEW c \in Conns, StartRead(c) PROVE SharedOK'
  BY SMT, <1>0, <1>1 DEF StartRead
<1>2. ASSUME NEW c \in Conns, NEW w \in Writes, StartWrite(c, w) PROVE SharedOK'
  BY SMT, <1>0, <1>2 DEF StartWrite
<1>3. ASSUME NEW c \in Conns, Get(c) PROVE SharedOK'
  BY <1>0, <1>3 DEF Get
<1>4. ASSUME NEW c \in Conns, Open(c) PROVE SharedOK'
  <2>1. fver' \in [Fds -> Nat \cup {Nil}]
    <3>1. UNCHANGED fver \/ \E h \in Fds : fver' = [fver EXCEPT ![h] = ver]
      BY <1>4 DEF Open
    <3> QED BY <1>0, <3>1
  <2> QED BY <1>0, <1>4, <2>1 DEF Open
<1>5. ASSUME NEW c \in Conns, PutIfFresh(c) PROVE SharedOK'
  BY <1>0, <1>x, <1>5 DEF PutIfFresh
<1>6. ASSUME NEW c \in Conns, PutRefused(c) PROVE SharedOK'
  <2>1. req[c].fd \in Fds BY <1>6 DEF PutRefused, ControlInv, Control
  <2> QED BY <1>0, <1>6, <2>1 DEF PutRefused
<1>7. ASSUME NEW c \in Conns, UseClosed(c) PROVE SharedOK'
  <2>1. Own(c) \in Caches BY <1>7, <1>x DEF UseClosed, RemoveIf
  <2> QED BY <1>0, <2>1, <1>7 DEF UseClosed, RemoveIf
<1>8. ASSUME NEW c \in Conns, Use(c) PROVE SharedOK'
  <2>1. (req[c].kind = "w" => req[c].w \in Writes) /\ req[c].fd \in Fds
    BY <1>8 DEF ControlInv, Control, Use
  <2>2. acked' \subseteq Writes
    BY <1>0, <1>8, <2>1 DEF Use
  <2>3. fbuf' \in [Fds -> SUBSET Writes]
    BY SMT, <1>0, <1>8, <2>1 DEF Use
  <2> QED BY <1>0, <1>8, <2>2, <2>3 DEF Use
<1>9. ASSUME NEW c \in Conns, DropW(c) PROVE SharedOK'
  <2>1. PICK t \in Conns : /\ gen' = [gen EXCEPT ![<<t, "w">>] = @ + 1]
                           /\ entry' = [entry EXCEPT ![<<t, "w">>] = Nil]
    BY ZenonT(40), <1>x, <1>9, DropLocals
  <2>2. <<t, "w">> \in Caches /\ gen \in [Caches -> Nat] BY <1>0, <1>x
  <2>3. \A n \in Nat : n + 1 \in Nat BY SMT
  <2>4. gen' \in [Caches -> Nat] BY <2>1, <2>2, <2>3
  <2> QED BY <1>0, <1>9, <2>1, <2>4 DEF DropW
<1>10. ASSUME NEW c \in Conns, DropR(c) PROVE SharedOK'
  <2>1. <<req[c].tgt, "r">> \in Caches BY <1>10, <1>x DEF DropR, ControlInv, Control
  <2>2. gen' \in [Caches -> Nat] BY SMT, <1>0, <1>10, <2>1 DEF DropR
  <2> QED BY <1>0, <1>10, <2>1, <2>2 DEF DropR
<1>11. ASSUME NEW c \in Conns, CloseDropped(c) PROVE SharedOK'
  <2>1. req[c].fd \in Fds BY <1>11 DEF CloseDropped, ControlInv, Control
  <2> QED BY <1>0, <1>11, <2>1 DEF CloseDropped, CloseFd
<1>12. ASSUME NEW x \in Caches, Evict(x) PROVE SharedOK'
  BY <1>0, <1>12 DEF Evict
<1>13. ASSUME NEW h \in Fds, Sync(h) PROVE SharedOK'
  BY <1>0, <1>13 DEF Sync
<1>14. ASSUME NEW h \in Fds, CloseEvicted(h) PROVE SharedOK'
  BY <1>0, <1>14 DEF CloseEvicted, CloseFd
<1>15. ASSUME NEW c \in Conns, Advances(c) PROVE SharedOK'
  <2>1. ver' \in Nat /\ changes' \in Nat /\ content' \subseteq Writes /\ raced' \subseteq Writes
    <3>1. \A n \in Nat : n + 1 \in Nat BY SMT
    <3>2. Cut => raced' \subseteq Writes
      <4>1. fbuf \in [Fds -> SUBSET Writes] /\ raced \subseteq Writes BY <1>0
      <4> HIDE DEF SharedOK
      <4> QED BY <4>1, DetachedFds DEF Cut
    <3>3. Cut => ver' \in Nat /\ content' \subseteq Writes
      BY <1>0, <3>1 DEF Cut
    <3>4. changes' \in Nat
      BY <1>0, <1>15, <3>1, Advance
    <3> QED BY <1>0, <1>15, <3>1, <3>2, <3>3, <3>4, Advance
  <2>2. okVer' \in Nat /\ dead' \subseteq Writes
    <3>1. CASE UNCHANGED <<okVer, dead>> BY <1>0, <3>1
    <3>2. CASE Replies(c) BY <1>0, <1>x, <3>2 DEF Replies, MaxOf
    <3> QED BY <1>15, <3>1, <3>2, Advance DEF Moves
  <2> QED BY <1>0, <1>15, <2>1, <2>2, Advance
<1> QED BY <1>1, <1>2, <1>3, <1>4, <1>5, <1>6, <1>7, <1>8, <1>9, <1>10, <1>11, <1>12,
           <1>13, <1>14, <1>15 DEF Next, Advances

\* Control after a step of c depends on c alone.
LEMMA SetsControl ==
  ASSUME TypeOK, ControlInv, NEW c \in Conns, NEW l, NEW q, Sets(c, l, q), Control(l, q)
  PROVE  ControlInv'
<1>1. ASSUME NEW d \in Conns PROVE Control(pc'[d], req'[d])
  <2>1. CASE d = c
    BY <2>1 DEF Sets, TypeOK
  <2>2. CASE d # c
    BY <2>2 DEF Sets, TypeOK, ControlInv
  <2> QED BY <2>1, <2>2
<1> QED BY <1>1 DEF ControlInv

\* A change goes through the stages of its plan; a READ or WRITE through its own steps.
LEMMA ControlStep ==
  ASSUME TypeOK, ControlInv, Next
  PROVE  ControlInv'
<1> USE DEF Dropping, Applying
<1>c. \A c \in Conns : Control(pc[c], req[c]) BY DEF ControlInv
<1>n. \A c \in Conns : Return(c) => ControlInv'
  <2> SUFFICES ASSUME NEW c \in Conns, Return(c) PROVE ControlInv' OBVIOUS
  <2>1. Sets(c, "idle", NoReq) BY ReturnType, TypeParts
  <2>2. NoReq.kind = "none" BY DEF NoReq
  <2>3. Control("idle", NoReq) BY <2>2 DEF Control
  <2> QED BY <2>1, <2>3, SetsControl
<1>1. ASSUME NEW c \in Conns, StartRead(c) PROVE ControlInv'
  <2> DEFINE q == [NoReq EXCEPT !.kind = "r", !.floor = okVer]
  <2>1. q.kind = "r" BY NewReqs DEF TypeOK
  <2>2. Sets(c, "get", q) BY <1>1 DEF StartRead, Goto, Sets
  <2> HIDE DEF q
  <2>3. Control("get", q) BY <2>1 DEF Control, Kinds
  <2> QED BY <2>2, <2>3, SetsControl
<1>2. ASSUME NEW c \in Conns, NEW w \in Writes, StartWrite(c, w) PROVE ControlInv'
  <2> DEFINE q == [NoReq EXCEPT !.kind = "w", !.w = w, !.floor = okVer]
  <2>1. q.kind = "w" /\ q.w = w BY DEF NoReq
  <2>2. Sets(c, "get", q) BY <1>2 DEF StartWrite, Goto, Sets
  <2> HIDE DEF q
  <2>3. Control("get", q) BY <2>1 DEF Control, Kinds
  <2> QED BY <2>2, <2>3, SetsControl
<1>3. ASSUME NEW c \in Conns, Get(c) PROVE ControlInv'
  <2>1. PICK q : /\ Keeps(q, req[c])
                 /\ \/ entry[Own(c)] = Nil /\ q.gen = gen[Own(c)] /\ Sets(c, "open", q)
                    \/ entry[Own(c)] # Nil /\ q.fd = entry[Own(c)] /\ Sets(c, "use", q)
    BY <1>3, GetLocals
  <2>2. Control("get", req[c]) BY <1>c, <1>3 DEF Get
  <2>3. entry[Own(c)] \in Fds \cup {Nil} BY <2>2 DEF Control, Own, Caches, TypeOK
  <2>4. Control("open", q) BY <2>1, <2>2 DEF Control, Keeps
  <2>5. entry[Own(c)] # Nil => Control("use", q) BY <2>1, <2>2, <2>3 DEF Control, Keeps
  <2> QED BY <2>1, <2>4, <2>5, SetsControl
<1>4. ASSUME NEW c \in Conns, Open(c) PROVE ControlInv'
  <2>1. CASE Return(c) BY <2>1, <1>n
  <2>2. CASE \E h \in Fds : \E q : Keeps(q, req[c]) /\ q.fd = h /\ Sets(c, "put", q)
    <3>1. PICK h, q : h \in Fds /\ Keeps(q, req[c]) /\ q.fd = h /\ Sets(c, "put", q) BY <2>2
    <3>2. Control("open", req[c]) BY <1>c, <1>4 DEF Open
    <3>3. Control("put", q) BY <3>1, <3>2 DEF Control, Keeps
    <3> QED BY <3>1, <3>3, SetsControl
  <2> QED BY <1>4, <2>1, <2>2, OpenLocals
<1>5. ASSUME NEW c \in Conns, PutIfFresh(c) PROVE ControlInv'
  <2>1. Sets(c, "use", req[c]) BY <1>5 DEF PutIfFresh, Goto, Sets, TypeOK
  <2>2. Control("put", req[c]) BY <1>c, <1>5 DEF PutIfFresh
  <2>3. Control("use", req[c]) BY <2>2 DEF Control
  <2> QED BY <2>1, <2>3, SetsControl
<1>6. ASSUME NEW c \in Conns, PutRefused(c) \/ UseClosed(c) PROVE ControlInv'
  <2>1. CASE Return(c) BY <2>1, <1>n
  <2>2. CASE \E q : Keeps(q, req[c]) /\ Sets(c, "get", q)
    <3>1. PICK q : Keeps(q, req[c]) /\ Sets(c, "get", q) BY <2>2
    <3>2. Control("put", req[c]) \/ Control("use", req[c])
      BY <1>c, <1>6 DEF PutRefused, UseClosed, RemoveIf
    <3>3. Control("get", q) BY <3>1, <3>2 DEF Control, Keeps
    <3> QED BY <3>1, <3>3, SetsControl
  <2> QED BY <1>6, <2>1, <2>2, RetryLocals
<1>8. ASSUME NEW c \in Conns, Use(c) PROVE ControlInv'
  BY <1>8, <1>n DEF Use
<1>9. ASSUME NEW c \in Conns, DropW(c) PROVE ControlInv'
  <2>1. PICK t, q :
              /\ t \in req[c].todo
              /\ Keeps(q, req[c]) /\ q.fd = entry[<<t, "w">>]
              /\ q.todo = req[c].todo \ {t} /\ q.tgt = t
              /\ Sets(c, IF q.fd = Nil THEN "dropr" ELSE "closew", q)
    BY <1>9, DropLocals
  <2>2. Control("drop", req[c]) BY <1>c, <1>9 DEF DropW
  <2>3. t \in Conns BY <2>1 DEF TypeOK, Requests
  <2>4. q.fd \in Fds \cup {Nil} BY <2>1, <2>3 DEF TypeOK, Caches, Kinds
  <2>5. Control("dropr", q) BY <2>1, <2>2, <2>3 DEF Control, Keeps
  <2>6. q.fd # Nil => Control("closew", q) BY <2>1, <2>2, <2>3, <2>4 DEF Control, Keeps
  <2> QED BY <2>1, <2>5, <2>6, SetsControl
<1>10. ASSUME NEW c \in Conns, DropR(c) PROVE ControlInv'
  <2>1. PICK q : /\ Keeps(q, req[c]) /\ q.fd = entry[<<req[c].tgt, "r">>]
                 /\ q.todo = req[c].todo /\ q.tgt = req[c].tgt
                 /\ Sets(c, IF q.fd = Nil THEN "drop" ELSE "closer", q)
    BY <1>10, DropLocals
  <2>2. Control("dropr", req[c]) BY <1>c, <1>10 DEF DropR
  <2>3. req[c].tgt \in Conns BY <2>2 DEF Control
  <2>4. q.fd \in Fds \cup {Nil} BY <2>1, <2>3 DEF TypeOK, Caches, Kinds
  <2>5. Control("drop", q) BY <2>1, <2>2 DEF Control, Keeps
  <2>6. q.fd # Nil => Control("closer", q) BY <2>1, <2>2, <2>4 DEF Control, Keeps
  <2> QED BY <2>1, <2>5, <2>6, SetsControl
<1>11. ASSUME NEW c \in Conns, CloseDropped(c) PROVE ControlInv'
  <2>1. PICK q : /\ Keeps(q, req[c]) /\ q.todo = req[c].todo /\ q.tgt = req[c].tgt
                 /\ Sets(c, IF pc[c] = "closew" THEN "dropr" ELSE "drop", q)
    BY <1>11, DropLocals
  <2>2. Control("closew", req[c]) \/ Control("closer", req[c]) BY <1>c, <1>11 DEF CloseDropped
  <2>3. Control("drop", q) /\ Control("dropr", q)
    BY <2>1, <2>2 DEF Control, Keeps
  <2> QED BY <2>1, <2>3, SetsControl
<1>12. ASSUME UNCHANGED <<pc, req>> PROVE ControlInv'
  BY <1>12 DEF ControlInv
<1>15. ASSUME NEW c \in Conns, Advances(c) PROVE ControlInv'
  <2>1. CASE \E l, q : Moves(c, l, q)
    <3>1. PICK l, q : Moves(c, l, q) BY <2>1
    <3>2. Control(l, q) BY <3>1 DEF Moves, Control
    <3> QED BY <3>1, <3>2, SetsControl DEF Moves, Sets
  <2> QED BY <1>15, <1>n, <2>1, Advance
<1> QED BY <1>1, <1>2, <1>3, <1>4, <1>5, <1>6, <1>8, <1>9, <1>10, <1>11, <1>12, <1>15
        DEF Next, Advances, Evict, Sync, CloseEvicted

-----------------------------------------------------------------------------
(* Owners.                                                                 *)

\* Who holds an fd after c has gone to label l with locals q.
LEMMA SetsHolds ==
  ASSUME TypeOK, NEW c \in Conns, NEW l, NEW q, Sets(c, l, q)
  PROVE  /\ \A d \in Conns \ {c} : \A h : Holds(d, h)' <=> Holds(d, h)
         /\ \A h : Holds(c, h)' <=> l \in {"put", "closew", "closer"} /\ q.fd = h
  BY DEF TypeOK, Sets, Holds

\* The owner of fd h stays as it is.
SameOwner(h) ==
  /\ (h \in fclosed => fver[h] # Nil)' /\ (IsOpen(h)' <=> IsOpen(h))
  /\ \A x \in Caches : entry'[x] = h <=> entry[x] = h
  /\ h \in evicting' <=> h \in evicting
  /\ \A d \in Conns : Holds(d, h)' <=> Holds(d, h)
\* It is still the only one.
LEMMA OwnerKept ==
  ASSUME NEW h \in Fds, SoleOwner(h), IsOpen(h) => Owned(h), SameOwner(h)
  PROVE  SoleOwner(h)' /\ (IsOpen(h) => Owned(h))'
<1> HIDE DEF IsOpen, Holds
<1> QED BY DEF SoleOwner, Owned, SameOwner

\* Nobody gains or loses an fd.
LEMMA OwnersKept ==
  ASSUME OwnerInv, FdOwned, UNCHANGED <<entry, evicting, fver, fclosed>>,
         \A d \in Conns : \A h : Holds(d, h)' <=> Holds(d, h)
  PROVE  OwnerInv' /\ FdOwned'
<1>1. ASSUME NEW h \in Fds PROVE SameOwner(h)
  BY DEF SameOwner, OwnerInv, SoleOwner, IsOpen
<1> QED BY <1>1, OwnerKept DEF OwnerInv, FdOwned

\* c, which held no fd, still holds none.
LEMMA OwnersSet ==
  ASSUME TypeOK, OwnerInv, FdOwned, UNCHANGED <<entry, evicting, fver, fclosed>>,
         NEW c \in Conns, NEW l, NEW q, Sets(c, l, q),
         pc[c] \notin {"put", "closew", "closer"}, l \notin {"put", "closew", "closer"}
  PROVE  OwnerInv' /\ FdOwned'
<1>1. \A h : ~ Holds(c, h) BY DEF Holds
<1>2. \A d \in Conns : \A h : Holds(d, h)' <=> Holds(d, h)
  BY <1>1, SetsHolds
<1> QED BY <1>2, OwnersKept

\* Fd h changes hands and all others stay.
LEMMA OwnersMove ==
  ASSUME OwnerInv, FdOwned, NEW h \in Fds, \A g \in Fds \ {h} : SameOwner(g),
         SoleOwner(h)', (IsOpen(h) => Owned(h))'
  PROVE  OwnerInv' /\ FdOwned'
<1>1. ASSUME NEW g \in Fds PROVE SoleOwner(g)' /\ (IsOpen(g) => Owned(g))'
  <2>1. CASE g = h BY <2>1
  <2>2. CASE g # h BY <2>2, OwnerKept DEF OwnerInv, FdOwned
  <2> QED BY <2>1, <2>2
<1> QED BY <1>1 DEF OwnerInv, FdOwned

\* c closes the fd it holds.
LEMMA OwnersClose ==
  ASSUME TypeOK, OwnerInv, FdOwned, NEW c \in Conns, NEW h \in Fds, Holds(c, h),
         fclosed' = fclosed \cup {h}, UNCHANGED <<evicting, fver, entry>>,
         NEW l, NEW q, Sets(c, l, q), l \notin {"put", "closew", "closer"}
  PROVE  OwnerInv' /\ FdOwned'
<1>o. \A g \in Fds : SoleOwner(g) BY DEF OwnerInv
<1>1. /\ \A d \in Conns \ {c} : \A g : Holds(d, g)' <=> Holds(d, g)
      /\ \A g : ~ Holds(c, g)'
  BY SetsHolds
<1>2. \A g : Holds(c, g) <=> g = h BY DEF Holds
<1>3. ASSUME NEW g \in Fds \ {h} PROVE SameOwner(g)
  <2>1. g \in fclosed => fver[g] # Nil BY <1>o DEF SoleOwner
  <2>2. \A d \in Conns : Holds(d, g)' <=> Holds(d, g) BY <1>1, <1>2
  <2> QED BY <2>1, <2>2 DEF SameOwner, IsOpen
<1>4. IsOpen(h) /\ h \notin evicting /\ (\A y \in Caches : entry[y] # h)
      /\ (\A d \in Conns : Holds(d, h) => d = c)
  BY <1>o DEF SoleOwner
<1>5. SoleOwner(h)' /\ ~ IsOpen(h)'
  <2>1. ~ IsOpen(h)' /\ fver'[h] # Nil BY <1>4 DEF IsOpen
  <2>2. \A d \in Conns : ~ Holds(d, h)' BY <1>1, <1>4
  <2> QED BY <1>4, <2>1, <2>2 DEF SoleOwner
<1> QED BY <1>3, <1>5, OwnersMove

\* c takes fd h, if there is one, out of cache x.
LEMMA OwnersTake ==
  ASSUME TypeOK, OwnerInv, FdOwned, NEW c \in Conns, NEW x \in Caches, NEW h, h = entry[x],
         entry' = [entry EXCEPT ![x] = Nil], UNCHANGED <<evicting, fver, fclosed>>,
         pc[c] \notin {"put", "closew", "closer"}, NEW l, NEW q, Sets(c, l, q), q.fd = h,
         l \in {"closew", "closer"} <=> h # Nil, l # "put"
  PROVE  OwnerInv' /\ FdOwned'
<1>o. \A g \in Fds : SoleOwner(g) BY DEF OwnerInv
<1>t. h \in Fds \cup {Nil} /\ \A y \in Caches : entry'[y] = IF y = x THEN Nil ELSE entry[y]
  BY DEF TypeOK
<1>1. CASE h = Nil
  <2>1. UNCHANGED entry BY <1>1 DEF TypeOK
  <2> QED BY <1>1, <2>1, OwnersSet
<1>2. CASE h # Nil
  <2>1. h \in Fds BY <1>2, <1>t
  <2>2. /\ \A d \in Conns \ {c} : \A g : Holds(d, g)' <=> Holds(d, g)
        /\ \A g : Holds(c, g)' <=> g = h
    BY <1>2, SetsHolds
  <2>3. \A g : ~ Holds(c, g) BY DEF Holds
  <2>4. ASSUME NEW g \in Fds \ {h} PROVE SameOwner(g)
    <3>1. g \in fclosed => fver[g] # Nil BY <1>o DEF SoleOwner
    <3>2. \A d \in Conns : Holds(d, g)' <=> Holds(d, g) BY <2>2, <2>3
    <3>3. \A y \in Caches : entry'[y] = g <=> entry[y] = g BY <1>t, FdNil
    <3> QED BY <3>1, <3>2, <3>3 DEF SameOwner, IsOpen
  <2>5. IsOpen(h) /\ h \notin evicting /\ (\A y \in Caches : entry[y] = h => y = x)
        /\ (\A d \in Conns : ~ Holds(d, h))
    BY <1>o, <2>1 DEF SoleOwner
  <2>6. SoleOwner(h)' /\ Owned(h)'
    <3>1. IsOpen(h)' BY <2>5 DEF IsOpen
    <3>2. \A d \in Conns : Holds(d, h)' <=> d = c BY <2>2, <2>5
    <3>3. \A y \in Caches : entry'[y] # h BY <1>2, <1>t, <2>5
    <3> QED BY <2>5, <3>1, <3>2, <3>3 DEF SoleOwner, Owned, IsOpen
  <2> QED BY <2>1, <2>4, <2>6, OwnersMove
<1> QED BY <1>1, <1>2

\* Every open fd has exactly one owner: a cache, the evicted ones, or a goroutine.
LEMMA OwnerStep ==
  ASSUME TypeOK, ControlInv, OwnerInv, FdOwned, Next
  PROVE  OwnerInv' /\ FdOwned'
<1> USE FdNil DEF fdVars, cacheVars, boundVars, histVars
<1>c. \A c \in Conns : Control(pc[c], req[c]) BY DEF ControlInv
<1>n. \A c \in Conns : Return(c) => Sets(c, "idle", NoReq) BY ReturnType, TypeParts
<1>o. \A h \in Fds : SoleOwner(h) BY DEF OwnerInv
<1>1. ASSUME NEW c \in Conns, StartRead(c) PROVE OwnerInv' /\ FdOwned'
  <2> DEFINE q == [NoReq EXCEPT !.kind = "r", !.floor = okVer]
  <2>1. Sets(c, "get", q) BY <1>1 DEF StartRead, Goto, Sets
  <2> HIDE DEF q
  <2> QED BY <1>1, <2>1, OwnersSet DEF StartRead
<1>2. ASSUME NEW c \in Conns, NEW w \in Writes, StartWrite(c, w) PROVE OwnerInv' /\ FdOwned'
  <2> DEFINE q == [NoReq EXCEPT !.kind = "w", !.w = w, !.floor = okVer]
  <2>1. Sets(c, "get", q) BY <1>2 DEF StartWrite, Goto, Sets
  <2> HIDE DEF q
  <2> QED BY <1>2, <2>1, OwnersSet DEF StartWrite
<1>3. ASSUME NEW c \in Conns, Get(c) PROVE OwnerInv' /\ FdOwned'
  BY <1>3, GetLocals, OwnersSet DEF Get
<1>4. ASSUME NEW c \in Conns, Open(c) PROVE OwnerInv' /\ FdOwned'
  <2>1. CASE Return(c) /\ UNCHANGED fver
    BY <1>4, <2>1, <1>n, OwnersSet DEF Open
  <2>2. CASE \E h \in Fds : \E q : /\ fver[h] = Nil /\ fver' = [fver EXCEPT ![h] = ver]
                              /\ q.fd = h /\ Sets(c, "put", q)
    <3>1. PICK h, q : /\ h \in Fds /\ fver[h] = Nil /\ fver' = [fver EXCEPT ![h] = ver]
                      /\ q.fd = h /\ Sets(c, "put", q)
      BY <2>2
    <3>2. \A g : ~ Holds(c, g) BY <1>4 DEF Open, Holds
    <3>3. /\ \A d \in Conns \ {c} : \A g : Holds(d, g)' <=> Holds(d, g)
          /\ \A g : Holds(c, g)' <=> g = h
      BY <3>1, SetsHolds
    <3>4. UNCHANGED <<entry, evicting, fclosed>> /\ ver # Nil
      BY <1>4 DEF Open, TypeOK
    <3>5. ASSUME NEW g \in Fds \ {h} PROVE SameOwner(g)
      <4>1. fver'[g] = fver[g] BY <3>1 DEF TypeOK
      <4>2. g \in fclosed => fver[g] # Nil BY <1>o DEF SoleOwner
      <4>3. \A d \in Conns : Holds(d, g)' <=> Holds(d, g) BY <3>2, <3>3
      <4> QED BY <3>4, <4>1, <4>2, <4>3 DEF SameOwner, IsOpen
    <3>6. h \notin fclosed /\ h \notin evicting /\ (\A x \in Caches : entry[x] # h)
          /\ (\A d \in Conns : ~ Holds(d, h))
      BY <1>o, <3>1 DEF SoleOwner, IsOpen
    <3>7. fver'[h] # Nil BY <3>1, <3>4 DEF TypeOK
    <3>8. SoleOwner(h)' /\ Owned(h)'
      BY <3>2, <3>3, <3>4, <3>6, <3>7 DEF SoleOwner, IsOpen, Owned
    <3> QED BY <3>1, <3>5, <3>8, OwnersMove
  <2> QED BY <1>4, <2>1, <2>2, OpenLocals
<1>5. ASSUME NEW c \in Conns, PutIfFresh(c) PROVE OwnerInv' /\ FdOwned'
  <2>h. PICK h, x : h = req[c].fd /\ x = Own(c) OBVIOUS
  <2>1. h \in Fds /\ x \in Caches /\ entry[x] = Nil /\ entry' = [entry EXCEPT ![x] = h]
        /\ UNCHANGED <<evicting, fver, fclosed>> /\ Holds(c, h)
    BY <1>5, <1>c, <2>h DEF PutIfFresh, Control, Own, Caches, Holds
  <2>i. PICK q : q = req[c] OBVIOUS
  <2>2. Sets(c, "use", q) BY <1>5, <2>i DEF PutIfFresh, Goto, Sets, TypeOK
  <2>3. /\ \A d \in Conns \ {c} : \A g : Holds(d, g)' <=> Holds(d, g)
        /\ \A g : ~ Holds(c, g)'
    BY <2>2, SetsHolds
  <2>4. \A g : Holds(c, g) <=> g = h BY <2>1, <2>h DEF Holds
  <2>5. \A y \in Caches : entry'[y] = IF y = x THEN h ELSE entry[y]
    BY <2>1 DEF TypeOK
  <2>6. ASSUME NEW g \in Fds \ {h} PROVE SameOwner(g)
    <3>1. g \in fclosed => fver[g] # Nil BY <1>o DEF SoleOwner
    <3>2. \A d \in Conns : Holds(d, g)' <=> Holds(d, g) BY <2>3, <2>4
    <3>3. \A y \in Caches : entry'[y] = g <=> entry[y] = g BY <2>1, <2>5
    <3> QED BY <2>1, <3>1, <3>2, <3>3 DEF SameOwner, IsOpen
  <2>7. IsOpen(h) /\ h \notin evicting /\ (\A y \in Caches : entry[y] # h)
          /\ (\A d \in Conns : Holds(d, h) => d = c)
    BY <1>o, <2>1 DEF SoleOwner
  <2>8. SoleOwner(h)' /\ Owned(h)'
    <3>1. IsOpen(h)' BY <2>1, <2>7 DEF IsOpen
    <3>2. \A d \in Conns : ~ Holds(d, h)' BY <2>3, <2>7
    <3>3. \A y \in Caches : entry'[y] = h <=> y = x BY <2>5, <2>7
    <3> QED BY <2>1, <2>7, <3>1, <3>2, <3>3 DEF SoleOwner, Owned, IsOpen
  <2> QED BY <2>1, <2>6, <2>8, OwnersMove
<1>6. ASSUME NEW c \in Conns, PutRefused(c) PROVE OwnerInv' /\ FdOwned'
  <2>1. /\ Holds(c, req[c].fd) /\ req[c].fd \in Fds /\ fclosed' = fclosed \cup {req[c].fd}
        /\ UNCHANGED <<evicting, fver, entry>>
    BY <1>6, <1>c DEF PutRefused, Control, Holds
  <2>2. \E l \in {"idle", "get"} : \E q : Sets(c, l, q)
    BY <1>6, <1>n, RetryLocals
  <2> QED BY <2>1, <2>2, OwnersClose
<1>7. ASSUME NEW c \in Conns, UseClosed(c) PROVE OwnerInv' /\ FdOwned'
  <2>1. Own(c) \in Caches /\ req[c].fd \in Fds /\ req[c].fd \in fclosed
    BY <1>7, <1>c DEF UseClosed, RemoveIf, Control, Own, Caches
  <2>2. entry[Own(c)] # req[c].fd
    BY <1>o, <2>1 DEF SoleOwner, IsOpen
  <2>3. UNCHANGED <<entry, evicting, fver, fclosed>>
    BY <1>7, <2>1, <2>2 DEF UseClosed, RemoveIf, TypeOK
  <2>4. \E l \in {"idle", "get"} : \E q : Sets(c, l, q)
    BY <1>7, <1>n, RetryLocals
  <2> QED BY <1>7, <2>3, <2>4, OwnersSet DEF UseClosed, RemoveIf
<1>8. ASSUME NEW c \in Conns, Use(c) PROVE OwnerInv' /\ FdOwned'
  BY <1>8, <1>n, OwnersSet DEF Use
<1>9. ASSUME NEW c \in Conns, DropW(c) PROVE OwnerInv' /\ FdOwned'
  <2>1. PICK t, q :
              /\ t \in req[c].todo
              /\ entry' = [entry EXCEPT ![<<t, "w">>] = Nil] /\ q.fd = entry[<<t, "w">>]
              /\ Sets(c, IF q.fd = Nil THEN "dropr" ELSE "closew", q)
    BY <1>9, DropLocals
  <2>2. <<t, "w">> \in Caches BY <2>1 DEF TypeOK, Requests, Caches, Kinds
  <2> QED BY <1>9, <2>1, <2>2, OwnersTake DEF DropW
<1>10. ASSUME NEW c \in Conns, DropR(c) PROVE OwnerInv' /\ FdOwned'
  <2>1. PICK q, x : /\ x = <<req[c].tgt, "r">> /\ q.fd = entry[x]
                    /\ Sets(c, IF q.fd = Nil THEN "drop" ELSE "closer", q)
    BY <1>10, DropLocals
  <2>2. x \in Caches /\ entry' = [entry EXCEPT ![x] = Nil]
    BY <1>10, <1>c, <2>1 DEF DropR, Control, Caches, Kinds
  <2> QED BY ZenonT(40), <1>10, <2>1, <2>2, OwnersTake DEF DropR
<1>11. ASSUME NEW c \in Conns, CloseDropped(c) PROVE OwnerInv' /\ FdOwned'
  <2>1. /\ Holds(c, req[c].fd) /\ req[c].fd \in Fds /\ fclosed' = fclosed \cup {req[c].fd}
        /\ UNCHANGED <<evicting, fver, entry>>
    BY <1>11, <1>c DEF CloseDropped, CloseFd, Control, Holds
  <2>2. \E l \in {"drop", "dropr"} : \E q : Sets(c, l, q)
    BY <1>11, DropLocals
  <2> QED BY <2>1, <2>2, OwnersClose
<1>h. UNCHANGED <<pc, req>> => \A d \in Conns : \A g : Holds(d, g)' <=> Holds(d, g)
  BY DEF Holds
<1>12. ASSUME NEW x \in Caches, Evict(x) PROVE OwnerInv' /\ FdOwned'
  <2>1. PICK h \in Fds : h = entry[x] BY <1>12 DEF Evict, TypeOK
  <2>2. evicting' = evicting \cup {h} /\ UNCHANGED <<fver, fclosed, pc, req>>
        /\ \A y \in Caches : entry'[y] = IF y = x THEN Nil ELSE entry[y]
    BY <1>12, <2>1 DEF Evict, TypeOK
  <2>3. ASSUME NEW g \in Fds \ {h} PROVE SameOwner(g)
    <3>1. g \in fclosed => fver[g] # Nil BY <1>o DEF SoleOwner
    <3>2. \A y \in Caches : entry'[y] = g <=> entry[y] = g BY <2>1, <2>2
    <3> QED BY <1>h, <2>2, <3>1, <3>2 DEF SameOwner, IsOpen
  <2>4. IsOpen(h) /\ (\A y \in Caches : entry[y] = h => y = x)
        /\ (\A d \in Conns : ~ Holds(d, h))
    BY <1>o, <2>1 DEF SoleOwner
  <2>5. SoleOwner(h)' /\ Owned(h)'
    <3>1. IsOpen(h)' BY <2>2, <2>4 DEF IsOpen
    <3>2. \A d \in Conns : ~ Holds(d, h)' BY <1>h, <2>2, <2>4
    <3>3. \A y \in Caches : entry'[y] # h BY <2>2, <2>4
    <3> QED BY <2>2, <3>1, <3>2, <3>3 DEF SoleOwner, Owned, IsOpen
  <2> QED BY <2>3, <2>5, OwnersMove
<1>13. ASSUME NEW h \in Fds, Sync(h) PROVE OwnerInv' /\ FdOwned'
  BY <1>13, <1>h, OwnersKept DEF Sync
<1>14. ASSUME NEW h \in Fds, CloseEvicted(h) PROVE OwnerInv' /\ FdOwned'
  <2>2. /\ h \in evicting /\ evicting' = evicting \ {h} /\ fclosed' = fclosed \cup {h}
        /\ UNCHANGED <<fver, entry, pc, req>>
    BY <1>14 DEF CloseEvicted, CloseFd
  <2>3. ASSUME NEW g \in Fds \ {h} PROVE SameOwner(g)
    <3>1. g \in fclosed => fver[g] # Nil BY <1>o DEF SoleOwner
    <3> QED BY <1>h, <2>2, <3>1 DEF SameOwner, IsOpen
  <2>4. IsOpen(h) /\ (\A y \in Caches : entry[y] # h) /\ (\A d \in Conns : ~ Holds(d, h))
    BY <1>o, <2>2 DEF SoleOwner
  <2>5. SoleOwner(h)' /\ ~ IsOpen(h)'
    <3>1. ~ IsOpen(h)' /\ fver'[h] # Nil BY <2>2, <2>4 DEF IsOpen
    <3>2. \A d \in Conns : ~ Holds(d, h)' BY <1>h, <2>2, <2>4
    <3> QED BY <2>2, <2>4, <3>1, <3>2 DEF SoleOwner
  <2> QED BY <2>3, <2>5, OwnersMove
<1>15. ASSUME NEW c \in Conns, Advances(c) PROVE OwnerInv' /\ FdOwned'
  <2>1. \E l \in {"idle", "drop"} \cup Applying : \E q : Sets(c, l, q)
    BY <1>15, <1>n, Advance DEF Moves, Sets
  <2>2. UNCHANGED <<entry, evicting, fver, fclosed>>
        /\ pc[c] \in {"idle", "drop"} \cup Applying
    BY <1>15, Advance
  <2> QED BY <2>1, <2>2, OwnersSet DEF Applying
<1> QED BY <1>1, <1>2, <1>3, <1>4, <1>5, <1>6, <1>7, <1>8, <1>9, <1>10, <1>11, <1>12,
           <1>13, <1>14, <1>15 DEF Next, Advances

-----------------------------------------------------------------------------
(* WRITEs and their acknowledgement.                                       *)

\* What c's locals become in any step: the same request goes on, or it ends.
LEMMA AnyLocals ==
  ASSUME TypeOK, ControlInv, NEW c \in Conns,
         Get(c) \/ Open(c) \/ PutIfFresh(c) \/ PutRefused(c) \/ UseClosed(c) \/ Use(c)
         \/ DropW(c) \/ DropR(c) \/ CloseDropped(c)
  PROVE  Return(c) \/ \E l, q : Keeps(q, req[c]) /\ Sets(c, l, q)
<1>0. Keeps(req[c], req[c]) BY DEF TypeOK, Keeps
<1>1. CASE PutIfFresh(c)
  <2>1. Sets(c, "use", req[c]) BY <1>1 DEF PutIfFresh, Goto, Sets, TypeOK
  <2> QED BY <1>0, <2>1
<1>2. CASE DropW(c) BY <1>2, DropLocals
<1>3. CASE DropR(c) BY <1>3, DropLocals
<1>4. CASE CloseDropped(c) BY <1>4, DropLocals
<1>5. CASE Get(c) BY <1>5, GetLocals
<1>6. CASE Open(c) BY <1>6, OpenLocals
<1>7. CASE PutRefused(c) \/ UseClosed(c) BY <1>7, RetryLocals
<1> QED BY <1>1, <1>2, <1>3, <1>4, <1>5, <1>6, <1>7 DEF Use

\* SentInv for the request of c alone.
LEMMA SentSet ==
  ASSUME TypeOK, SentInv, NEW c \in Conns, NEW l, NEW q, Sets(c, l, q),
         acked' \subseteq sent', dead' \subseteq acked', acked \subseteq acked',
         sent \subseteq sent', q.before \subseteq acked',
         q.kind = "w" => q.w \in sent' \ acked',
         \A d \in Conns \ {c} : req[d].kind = "w" =>
           req[d].w \notin acked' /\ (q.kind = "w" => req[d].w # q.w)
  PROVE  SentInv'
<1>1. /\ req'[c] = q
      /\ \A d \in Conns \ {c} : req'[d] = req[d]
  BY DEF Sets, TypeOK
<1>2. ASSUME NEW d \in Conns PROVE req'[d].before \subseteq acked'
  BY <1>1 DEF SentInv
<1>3. ASSUME NEW d \in Conns, req'[d].kind = "w"
      PROVE  /\ req'[d].w \in sent' \ acked'
             /\ \A e \in Conns : req'[e].kind = "w" /\ req'[e].w = req'[d].w => e = d
  <2>1. req'[d].w \in sent' \ acked'
    BY <1>1, <1>3 DEF SentInv
  <2>2. ASSUME NEW e \in Conns, req'[e].kind = "w", req'[e].w = req'[d].w PROVE e = d
    <3>1. CASE d = c BY <1>1, <1>3, <2>2, <3>1
    <3>2. CASE e = c BY <1>1, <1>3, <2>2, <3>2
    <3>3. CASE d # c /\ e # c
      <4>1. req[d].kind = "w" /\ req[e].kind = "w" /\ req[e].w = req[d].w
        BY <1>1, <1>3, <2>2, <3>3
      <4> QED BY <4>1 DEF SentInv
    <3> QED BY <3>1, <3>2, <3>3
  <2> QED BY <2>1, <2>2
<1> QED BY <1>2, <1>3 DEF SentInv

\* A WRITE is sent once and acknowledged at its end; what a change found acknowledged
\* stays so.
LEMMA SentStep ==
  ASSUME TypeOK, ControlInv, SentInv, Next
  PROVE  SentInv'
<1> USE DEF fdVars, cacheVars, boundVars, histVars
<1>s. /\ acked \subseteq sent /\ dead \subseteq acked
      /\ \A c \in Conns :
           /\ req[c].before \subseteq acked
           /\ req[c].kind = "w" =>
                /\ req[c].w \in sent \ acked
                /\ \A d \in Conns : req[d].kind = "w" /\ req[d].w = req[c].w => d = c
  BY DEF SentInv
<1>n. ASSUME NEW c \in Conns, Return(c)
      PROVE  Sets(c, "idle", NoReq) /\ NoReq.kind = "none" /\ NoReq.before = {}
  BY <1>n, ReturnType, TypeParts DEF NoReq
<1>1. ASSUME NEW c \in Conns, StartRead(c) PROVE SentInv'
  <2> DEFINE q == [NoReq EXCEPT !.kind = "r", !.floor = okVer]
  <2>1. Sets(c, "get", q) BY <1>1 DEF StartRead, Goto, Sets
  <2>2. q.kind = "r" /\ q.before = {} BY DEF NoReq
  <2> HIDE DEF q
  <2> QED BY <1>1, <1>s, <2>1, <2>2, SentSet DEF StartRead
<1>2. ASSUME NEW c \in Conns, NEW w \in Writes, StartWrite(c, w) PROVE SentInv'
  <2> DEFINE q == [NoReq EXCEPT !.kind = "w", !.w = w, !.floor = okVer]
  <2>1. Sets(c, "get", q) BY <1>2 DEF StartWrite, Goto, Sets
  <2>2. q.kind = "w" /\ q.w = w /\ q.before = {} BY DEF NoReq
  <2>3. w \notin sent /\ sent' = sent \cup {w} /\ UNCHANGED <<acked, dead>>
    BY <1>2 DEF StartWrite
  <2> HIDE DEF q
  <2> QED BY <1>s, <2>1, <2>2, <2>3, SentSet
<1>3. ASSUME NEW c \in Conns, UNCHANGED <<sent, acked, dead>>,
             Return(c) \/ \E l, q : Keeps(q, req[c]) /\ Sets(c, l, q)
      PROVE  SentInv'
  <2>1. CASE Return(c)
    BY <1>s, <1>n, <1>3, <2>1, SentSet
  <2>2. CASE \E l, q : Keeps(q, req[c]) /\ Sets(c, l, q)
    <3>1. PICK l, q : Keeps(q, req[c]) /\ Sets(c, l, q) BY <2>2
    <3>2. q.kind = req[c].kind /\ q.w = req[c].w /\ q.before = req[c].before
      BY <3>1 DEF Keeps
    <3> QED BY <1>s, <1>3, <3>1, <3>2, SentSet
  <2> QED BY <1>3, <2>1, <2>2
<1>4. ASSUME NEW c \in Conns, Use(c) PROVE SentInv'
  <2>1. Return(c) /\ UNCHANGED <<sent, dead>>
        /\ (acked' = acked \/ (req[c].kind = "w" /\ acked' = acked \cup {req[c].w}))
    BY <1>4 DEF Use
  <2>2. Sets(c, "idle", NoReq) /\ NoReq.kind = "none" /\ NoReq.before = {}
    BY <1>n, <2>1
  <2>3. \A d \in Conns \ {c} : req[d].kind = "w" => req[d].w \notin acked'
    BY <1>s, <2>1
  <2>4. acked \subseteq acked' /\ acked' \subseteq sent' /\ dead' \subseteq acked'
        /\ sent \subseteq sent'
    BY <1>s, <2>1
  <2> QED BY <2>2, <2>3, <2>4, SentSet
<1>5. ASSUME UNCHANGED <<pc, req, sent, acked, dead>> PROVE SentInv'
  BY <1>5 DEF SentInv
<1>6. ASSUME NEW c \in Conns, Advances(c) PROVE SentInv'
  <2>1. UNCHANGED <<sent, acked>> BY <1>6, Advance
  <2>2. CASE \E l, q : Moves(c, l, q)
    <3>1. PICK l, q : Moves(c, l, q) BY <2>2
    <3>2. q.kind = "change" /\ q.before \subseteq acked /\ Sets(c, l, q) /\ dead' = dead
      BY <1>s, <3>1 DEF Moves, Sets
    <3> QED BY <1>s, <2>1, <3>2, SentSet
  <2>3. CASE Return(c) /\ (Replies(c) \/ UNCHANGED <<okVer, dead>>)
    <3>1. dead' \subseteq acked BY <1>s, <2>3 DEF Replies
    <3> QED BY <1>s, <1>n, <2>1, <2>3, <3>1, SentSet
  <2> QED BY <1>6, <2>2, <2>3, Advance
<1>7. ASSUME NEW c \in Conns, Get(c) \/ Open(c) \/ PutIfFresh(c) \/ PutRefused(c) \/ UseClosed(c)
                              \/ DropW(c) \/ DropR(c) \/ CloseDropped(c)
      PROVE  SentInv'
  <2>1. UNCHANGED <<sent, acked, dead>>
    BY <1>7 DEF Get, Open, PutIfFresh, PutRefused, UseClosed, RemoveIf, DropW, DropR, CloseDropped
  <2> QED BY <1>3, <1>7, <2>1, AnyLocals
<1> QED BY <1>1, <1>2, <1>4, <1>5, <1>6, <1>7 DEF Next, Advances, Evict, Sync, CloseEvicted

-----------------------------------------------------------------------------
(* Versions and generations.                                               *)

\* Versions and generations only grow, and an fd keeps the version it was opened under.
LEMMA MonoStep ==
  ASSUME TypeOK, ControlInv, Next
  PROVE  /\ ver <= ver' /\ okVer <= okVer'
         /\ \A x \in Caches : gen[x] <= gen'[x]
         /\ \A h \in Fds : fver[h] # Nil => fver'[h] = fver[h]
<1> USE DEF fdVars, cacheVars, boundVars, histVars
<1>0. \A n \in Nat : n <= n /\ n <= n + 1 BY SMT
<1>t. /\ ver \in Nat /\ okVer \in Nat /\ gen \in [Caches -> Nat]
      /\ fver \in [Fds -> Nat \cup {Nil}]
      /\ \A c \in Conns : req[c].ver \in Nat
  BY DEF TypeOK, Requests
<1>1. ASSUME UNCHANGED <<ver, okVer, gen, fver>>
      PROVE  /\ ver <= ver' /\ okVer <= okVer'
             /\ \A x \in Caches : gen[x] <= gen'[x]
             /\ \A h \in Fds : fver[h] # Nil => fver'[h] = fver[h]
  BY <1>0, <1>t, <1>1
<1>2. ASSUME NEW c \in Conns, Open(c)
      PROVE  UNCHANGED <<ver, okVer, gen>> /\ \A h \in Fds : fver[h] # Nil => fver'[h] = fver[h]
  BY <1>t, <1>2 DEF Open
<1>3. ASSUME NEW c \in Conns, DropW(c)
      PROVE  UNCHANGED <<ver, okVer, fver>> /\ \A x \in Caches : gen[x] <= gen'[x]
  <2>1. PICK t \in req[c].todo : gen' = [gen EXCEPT ![<<t, "w">>] = @ + 1]
    BY <1>3 DEF DropW
  <2>2. \A x \in Caches : gen[x] <= gen'[x]
    BY <1>0, <1>t, <2>1
  <2> QED BY <1>3, <2>2 DEF DropW
<1>4. ASSUME NEW c \in Conns, DropR(c)
      PROVE  UNCHANGED <<ver, okVer, fver>> /\ \A x \in Caches : gen[x] <= gen'[x]
  BY <1>0, <1>t, <1>4 DEF DropR
<1>5. ASSUME NEW c \in Conns, Advances(c)
      PROVE  UNCHANGED <<gen, fver>> /\ ver <= ver' /\ okVer <= okVer'
  <2>1. UNCHANGED <<gen, fver>> /\ (ver' = ver \/ ver' = ver + 1)
    BY <1>5, Advance DEF Cut
  <2>2. okVer' = okVer \/ okVer' = MaxOf(okVer, req[c].ver)
    BY <1>5, Advance DEF Moves, Replies
  <2>3. okVer <= okVer' BY SMT, <1>t, <2>2 DEF MaxOf
  <2> QED BY <1>0, <1>t, <2>1, <2>3
<1> QED BY ZenonT(40), <1>0, <1>t, <1>1, <1>2, <1>3, <1>4, <1>5
        DEF Next, Advances, StartRead, StartWrite, Get, PutIfFresh, PutRefused, UseClosed, RemoveIf, Use,
            CloseDropped, CloseFd, Evict, Sync, CloseEvicted

\* VersionInv for the request of d.
Versions(d) ==
  /\ req[d].floor <= okVer /\ req[d].ver <= ver
  /\ pc[d] \in {"open", "put"} => req[d].gen <= gen[Own(d)]
  /\ pc[d] = "use" => fver[req[d].fd] # Nil /\ fver[req[d].fd] >= req[d].floor

\* The requests that do not move keep theirs.
LEMMA VersionsKept ==
  ASSUME TypeOK, ControlInv, Next, NEW d \in Conns, Versions(d),
         pc'[d] = pc[d], req'[d] = req[d]
  PROVE  Versions(d)'
<1>0. \A i, j, k \in Nat : i <= j /\ j <= k => i <= k BY SMT
<1>1. /\ okVer \in Nat /\ ver \in Nat /\ req[d].floor \in Nat /\ req[d].ver \in Nat
      /\ req[d].gen \in Nat /\ gen \in [Caches -> Nat]
  BY DEF TypeOK, Requests
<1>2. okVer' \in Nat /\ ver' \in Nat /\ gen' \in [Caches -> Nat]
  BY TypeStep DEF TypeOK
<1>3. ver <= ver' /\ okVer <= okVer' /\ (\A x \in Caches : gen[x] <= gen'[x])
      /\ (\A h \in Fds : fver[h] # Nil => fver'[h] = fver[h])
  BY MonoStep
<1>4. req'[d].floor <= okVer' /\ req'[d].ver <= ver'
  BY <1>0, <1>1, <1>2, <1>3 DEF Versions
<1>5. ASSUME pc'[d] \in {"open", "put"} PROVE req'[d].gen <= gen'[Own(d)']
  <2>1. Own(d) \in Caches /\ Own(d)' = Own(d)
    BY <1>5 DEF ControlInv, Control, Own, Caches
  <2> QED BY <1>0, <1>1, <1>2, <1>3, <1>5, <2>1 DEF Versions
<1>6. ASSUME pc'[d] = "use" PROVE fver'[req'[d].fd] # Nil /\ fver'[req'[d].fd] >= req'[d].floor
  <2>1. req[d].fd \in Fds BY <1>6 DEF ControlInv, Control
  <2> QED BY <1>3, <1>6, <2>1 DEF Versions
<1> QED BY <1>4, <1>5, <1>6 DEF Versions

\* VersionInv after a step of c, from what c's locals have become.
LEMMA VersionsSet ==
  ASSUME TypeOK, ControlInv, VersionInv, Next, NEW c \in Conns, NEW l, NEW q, Sets(c, l, q),
         okVer' <= ver', Versions(c)'
  PROVE  VersionInv'
<1>1. ASSUME NEW d \in Conns \ {c} PROVE Versions(d)'
  <2>1. pc'[d] = pc[d] /\ req'[d] = req[d] BY DEF Sets, TypeOK
  <2>2. Versions(d) BY DEF VersionInv, Versions
  <2> QED BY <2>1, <2>2, VersionsKept
<1> QED BY <1>1 DEF VersionInv, Versions

\* The versions a request has seen are not ahead of those there are, and an fd in use was
\* opened no earlier than the last change that had replied when the request was sent.
LEMMA VersionStep ==
  ASSUME TypeOK, ControlInv, OwnerInv, VersionInv, FreshInv, Next
  PROVE  VersionInv'
<1> USE DEF fdVars, cacheVars, boundVars, histVars
<1>0. \A i, j, k \in Nat : i <= i /\ (i <= j /\ j <= k => i <= k) /\ (i <= j <=> j >= i) BY SMT
<1>t. /\ okVer \in Nat /\ ver \in Nat /\ okVer' \in Nat /\ ver' \in Nat /\ 0 \in Nat
      /\ ver <= ver' /\ okVer <= okVer' /\ okVer <= ver
      /\ gen \in [Caches -> Nat]
  BY TypeStep, MonoStep DEF TypeOK, VersionInv
<1>c. \A c \in Conns : Control(pc[c], req[c]) BY DEF ControlInv
<1>v. \A c \in Conns : Versions(c) BY DEF VersionInv, Versions
<1>z. \A n \in Nat : 0 <= n BY SMT
<1>l. ASSUME NEW c \in Conns, NEW l, NEW q, Sets(c, l, q) PROVE pc'[c] = l /\ req'[c] = q
  BY <1>l DEF Sets, TypeOK
<1>n. ASSUME NEW c \in Conns, Return(c), okVer' <= ver' PROVE VersionInv'
  <2>1. Sets(c, "idle", NoReq) BY <1>n, ReturnType, TypeParts
  <2>2. NoReq.floor = 0 /\ NoReq.ver = 0 BY DEF NoReq
  <2>i. pc'[c] = "idle" /\ req'[c] = NoReq BY <1>l, <2>1
  <2>3. Versions(c)' BY <1>t, <1>z, <2>i, <2>2 DEF Versions
  <2> QED BY <1>n, <2>1, <2>3, VersionsSet
<1>1. ASSUME NEW c \in Conns, StartRead(c) \/ \E w \in Writes : StartWrite(c, w)
      PROVE  VersionInv'
  <2>1. PICK q : Sets(c, "get", q) /\ q.floor = okVer /\ q.ver = 0
    <3>1. CASE StartRead(c)
      <4> DEFINE q == [NoReq EXCEPT !.kind = "r", !.floor = okVer]
      <4>1. Sets(c, "get", q) BY <3>1 DEF StartRead, Goto, Sets
      <4>2. q.floor = okVer /\ q.ver = 0 BY DEF NoReq
      <4> HIDE DEF q
      <4> QED BY <4>1, <4>2
    <3>2. ASSUME NEW w \in Writes, StartWrite(c, w)
          PROVE  \E q : Sets(c, "get", q) /\ q.floor = okVer /\ q.ver = 0
      <4> DEFINE q == [NoReq EXCEPT !.kind = "w", !.w = w, !.floor = okVer]
      <4>1. Sets(c, "get", q) BY <3>2 DEF StartWrite, Goto, Sets
      <4>2. q.floor = okVer /\ q.ver = 0 BY DEF NoReq
      <4> HIDE DEF q
      <4> QED BY <4>1, <4>2
    <3> QED BY <1>1, <3>1, <3>2
  <2>2. UNCHANGED <<okVer, ver>> BY <1>1 DEF StartRead, StartWrite
  <2>i. pc'[c] = "get" /\ req'[c] = q BY <1>l, <2>1
  <2>j. okVer' <= okVer' /\ okVer' = q.floor /\ 0 <= ver' BY <1>0, <1>t, <1>z, <2>1, <2>2
  <2>3. Versions(c)' BY <2>1, <2>i, <2>j DEF Versions
  <2> QED BY <1>t, <2>1, <2>2, <2>3, VersionsSet
<1>3. ASSUME NEW c \in Conns, Get(c) PROVE VersionInv'
  <2>1. PICK q : /\ Keeps(q, req[c])
                 /\ \/ entry[Own(c)] = Nil /\ q.gen = gen[Own(c)] /\ Sets(c, "open", q)
                    \/ entry[Own(c)] # Nil /\ q.fd = entry[Own(c)] /\ Sets(c, "use", q)
    BY <1>3, GetLocals
  <2>2. UNCHANGED <<okVer, ver, gen, fver>> BY <1>3 DEF Get
  <2>3. Own(c) \in Caches BY <1>3, <1>c DEF Get, Control, Own, Caches
  <2>4. q.floor <= okVer /\ q.ver <= ver /\ q.kind = req[c].kind /\ q.floor \in Nat
    BY <1>v, <2>1 DEF Versions, Keeps, Requests
  <2>5. CASE entry[Own(c)] = Nil /\ q.gen = gen[Own(c)] /\ Sets(c, "open", q)
    <3>1. pc'[c] = "open" /\ req'[c] = q BY <1>l, <2>5
    <3>2. gen[Own(c)] <= gen[Own(c)] BY <1>0, <1>t, <2>3
    <3>3. Own(c)' = Own(c) BY <2>4, <3>1 DEF Own
    <3>4. Versions(c)' BY <2>2, <2>4, <2>5, <3>1, <3>2, <3>3 DEF Versions
    <3> QED BY <1>t, <2>2, <2>5, <3>4, VersionsSet
  <2>6. CASE entry[Own(c)] # Nil /\ q.fd = entry[Own(c)] /\ Sets(c, "use", q)
    <3>1. pc'[c] = "use" /\ req'[c] = q BY <1>l, <2>6
    <3>2. q.fd \in Fds BY <2>3, <2>6 DEF TypeOK
    <3>3. fver[q.fd] # Nil /\ fver[q.fd] >= okVer
      BY <2>3, <2>6, <3>2 DEF FreshInv, Serves, OwnerInv, SoleOwner, IsOpen
    <3>4. fver[q.fd] \in Nat BY <3>2, <3>3 DEF TypeOK
    <3>5. fver[q.fd] >= q.floor BY SMT, <1>t, <2>4, <3>3, <3>4
    <3>6. Versions(c)' BY <2>2, <2>4, <3>1, <3>3, <3>5 DEF Versions
    <3> QED BY <1>t, <2>2, <2>6, <3>6, VersionsSet
  <2> QED BY <2>1, <2>5, <2>6
<1>4. ASSUME NEW c \in Conns, Open(c) PROVE VersionInv'
  <2>1. UNCHANGED <<okVer, ver, gen>> /\ pc[c] = "open" BY <1>4 DEF Open
  <2>2. CASE Return(c) BY <1>n, <1>t, <2>1, <2>2
  <2>3. CASE \E q : Keeps(q, req[c]) /\ q.gen = req[c].gen /\ Sets(c, "put", q)
    <3>1. PICK q : Keeps(q, req[c]) /\ q.gen = req[c].gen /\ Sets(c, "put", q) BY <2>3
    <3>2. pc'[c] = "put" /\ req'[c] = q BY <1>l, <3>1
    <3>3. q.kind = req[c].kind /\ q.floor = req[c].floor /\ q.ver = req[c].ver
      BY <3>1 DEF Keeps
    <3>4. Own(c)' = Own(c) BY <3>2, <3>3 DEF Own
    <3>5. Versions(c)' BY <1>v, <2>1, <3>1, <3>2, <3>3, <3>4 DEF Versions
    <3> QED BY <1>t, <2>1, <3>1, <3>5, VersionsSet
  <2> QED BY <1>4, <2>2, <2>3, OpenLocals
<1>5. ASSUME NEW c \in Conns, PutIfFresh(c) PROVE VersionInv'
  <2>i. PICK q : q = req[c] OBVIOUS
  <2>1. Sets(c, "use", q) BY <1>5, <2>i DEF PutIfFresh, Goto, Sets, TypeOK
  <2>2. UNCHANGED <<okVer, ver, gen, fver>> /\ pc[c] = "put" /\ gen[Own(c)] = q.gen
    BY <1>5, <2>i DEF PutIfFresh
  <2>3. Own(c) \in Caches /\ q.fd \in Fds BY <2>i, <2>2, <1>c DEF Control, Own, Caches
  <2>4. Serves(Own(c), q.fd) BY <2>2, <2>i DEF Serves, Own
  <2>5. fver[q.fd] >= okVer BY <2>3, <2>4 DEF FreshInv
  <2>6. fver[q.fd] # Nil BY <2>2, <2>3, <2>i DEF OwnerInv, SoleOwner, IsOpen, Holds
  <2>7. fver[q.fd] \in Nat /\ q.floor \in Nat BY <2>i, <2>3, <2>6 DEF TypeOK, Requests
  <2>8. q.floor <= okVer /\ q.ver <= ver BY <1>v, <2>i DEF Versions
  <2>9. fver[q.fd] >= q.floor BY SMT, <1>t, <2>5, <2>7, <2>8
  <2>10. pc'[c] = "use" /\ req'[c] = q BY <1>l, <2>1
  <2>11. Versions(c)' BY <2>2, <2>6, <2>8, <2>9, <2>10 DEF Versions
  <2> QED BY <1>t, <2>1, <2>2, <2>11, VersionsSet
<1>6. ASSUME NEW c \in Conns, UNCHANGED <<okVer, ver>>, NEW l, NEW q, Keeps(q, req[c]),
             Sets(c, l, q), l \notin {"open", "put", "use"}
      PROVE  VersionInv'
  <2>1. q.floor <= okVer /\ q.ver <= ver BY <1>v, <1>6 DEF Versions, Keeps
  <2>2. Versions(c)' BY <1>6, <1>l, <2>1 DEF Versions
  <2> QED BY <1>t, <1>6, <2>2, VersionsSet
<1>7. ASSUME NEW c \in Conns, PutRefused(c) \/ UseClosed(c) PROVE VersionInv'
  <2>1. UNCHANGED <<okVer, ver>> BY <1>7 DEF PutRefused, UseClosed, RemoveIf
  <2> QED BY <1>n, <1>t, <1>6, <1>7, <2>1, RetryLocals
<1>8. ASSUME NEW c \in Conns, Use(c) PROVE VersionInv'
  BY <1>n, <1>t, <1>8 DEF Use
<1>9. ASSUME NEW c \in Conns, DropW(c) \/ DropR(c) \/ CloseDropped(c) PROVE VersionInv'
  <2>1. UNCHANGED <<okVer, ver>> BY <1>9 DEF DropW, DropR, CloseDropped
  <2>2. \E l \in Dropping : \E q : Keeps(q, req[c]) /\ Sets(c, l, q)
    BY <1>9, DropLocals DEF Dropping
  <2> QED BY <1>6, <2>1, <2>2 DEF Dropping
<1>10. ASSUME NEW c \in Conns, Advances(c) PROVE VersionInv'
  <2>1. ver' = ver \/ ver' = ver + 1 BY <1>10, Advance DEF Cut
  <2>2. req[c].ver <= ver /\ req[c].floor <= okVer /\ req[c].ver \in Nat /\ req[c].floor \in Nat
    BY <1>v DEF Versions, TypeOK, Requests
  <2>3. okVer' = okVer \/ okVer' = MaxOf(okVer, req[c].ver)
    BY <1>10, Advance DEF Moves, Replies
  <2>4. okVer' <= ver' BY SMT, <1>t, <2>2, <2>3 DEF MaxOf
  <2>5. CASE \E l, q : Moves(c, l, q)
    <3>1. PICK l, q : Moves(c, l, q) BY <2>5
    <3>2. /\ q.floor \in {0, req[c].floor} /\ q.ver \in {0, ver', req[c].ver} /\ Sets(c, l, q)
          /\ l \notin {"open", "put", "use"}
      BY <3>1 DEF Moves, Sets, Applying
    <3>3. q.floor <= okVer' BY SMT, <1>t, <2>2, <3>2
    <3>4. q.ver <= ver' BY SMT, <1>t, <2>2, <3>2
    <3>5. Versions(c)' BY <1>l, <3>2, <3>3, <3>4 DEF Versions
    <3> QED BY <2>4, <3>2, <3>5, VersionsSet
  <2> QED BY <1>n, <1>10, <2>4, <2>5, Advance
<1>11. ASSUME UNCHANGED <<pc, req, okVer, ver>> PROVE VersionInv'
  <2>1. \A d \in Conns : Versions(d)' BY <1>v, <1>11, VersionsKept
  <2> QED BY <1>t, <1>11, <2>1 DEF VersionInv, Versions
<1> QED BY <1>1, <1>3, <1>4, <1>5, <1>7, <1>8, <1>9, <1>10, <1>11
        DEF Next, Advances, Evict, Sync, CloseEvicted

-----------------------------------------------------------------------------
(* Fresh fds.                                                              *)

\* What a cache serves is open.
LEMMA ServedOpen ==
  ASSUME OwnerInv, NEW x \in Caches, NEW h \in Fds, Serves(x, h)
  PROVE  IsOpen(h)
<1>1. x[1] \in Conns BY DEF Caches
<1> QED BY <1>1 DEF OwnerInv, SoleOwner, Serves, Holds

\* A step of c to label l and locals q admits nothing new to a cache.
LEMMA ServesSet ==
  ASSUME TypeOK, ControlInv, Next, NEW c \in Conns, NEW l, NEW q, Sets(c, l, q), l # "put",
         NEW x \in Caches, NEW h \in Fds, entry'[x] = h => entry[x] = h, UNCHANGED gen,
         Serves(x, h)'
  PROVE  Serves(x, h)
<1>1. x[1] \in Conns BY DEF Caches
<1>2. pc'[x[1]] = "put" => pc'[x[1]] = pc[x[1]] /\ req'[x[1]] = req[x[1]]
  BY <1>1 DEF Sets, TypeOK
<1> QED BY <1>2 DEF Serves

\* A cache that has just been invalidated serves nothing.
LEMMA DroppedEmpty ==
  ASSUME TypeOK, VersionInv, NEW c \in Conns, NEW x \in Caches, NEW l \in Dropping, NEW q,
         Sets(c, l, q), entry' = [entry EXCEPT ![x] = Nil], gen' = [gen EXCEPT ![x] = @ + 1],
         NEW h \in Fds
  PROVE  ~ Serves(x, h)'
<1> SUFFICES ASSUME Serves(x, h)' PROVE FALSE OBVIOUS
<1>x. x[1] \in Conns /\ x = <<x[1], x[2]>> BY SMT DEF Caches
<1>1. entry'[x] # h BY FdNil DEF TypeOK
<1>2. pc'[x[1]] = "put" => pc'[x[1]] = pc[x[1]] /\ req'[x[1]] = req[x[1]]
  BY <1>x DEF Sets, TypeOK, Dropping
<1>3. pc[x[1]] = "put" /\ req[x[1]].kind = x[2] /\ gen'[x] = req[x[1]].gen
  BY <1>1, <1>2 DEF Serves
<1>4. Own(x[1]) = x BY <1>x, <1>3 DEF Own
<1>5. req[x[1]].gen <= gen[x] BY <1>x, <1>3, <1>4 DEF VersionInv
<1>6. gen[x] \in Nat /\ req[x[1]].gen \in Nat /\ gen'[x] = gen[x] + 1
  BY <1>x DEF TypeOK, Requests
<1> QED BY SMT, <1>3, <1>5, <1>6

\* Only Open admits an fd that a cache did not serve, one of the current version.
LEMMA ServesStep ==
  ASSUME TypeOK, ControlInv, OwnerInv, VersionInv, Next,
         NEW x \in Caches, NEW h \in Fds, Serves(x, h)'
  PROVE  \/ Serves(x, h) /\ fver'[h] = fver[h] /\ fver[h] \in Nat
         \/ fver'[h] = ver /\ UNCHANGED <<ver, okVer>>
<1> USE DEF fdVars, cacheVars, boundVars, histVars
<1>s. SUFFICES Serves(x, h) \/ (fver'[h] = ver /\ UNCHANGED <<ver, okVer>>)
  BY ServedOpen, MonoStep DEF IsOpen, TypeOK
<1>c. \A c \in Conns : Control(pc[c], req[c]) BY DEF ControlInv
<1>x. x[1] \in Conns /\ x[2] \in Kinds /\ x = <<x[1], x[2]>> BY SMT DEF Caches
<1>n. \A c \in Conns : Return(c) => Sets(c, "idle", NoReq) BY ReturnType, TypeParts
<1>1. ASSUME NEW c \in Conns, StartRead(c) \/ (\E w \in Writes : StartWrite(c, w))
      PROVE  Serves(x, h)
  <2>1. UNCHANGED <<entry, gen>> BY <1>1 DEF StartRead, StartWrite
  <2>2. \E q : Sets(c, "get", q) BY <1>1 DEF StartRead, StartWrite, Sets, Goto
  <2> QED BY <2>1, <2>2, ServesSet
<1>2. ASSUME NEW c \in Conns, Get(c) PROVE Serves(x, h)
  <2>1. UNCHANGED <<entry, gen>> BY <1>2 DEF Get
  <2>2. \E l \in {"open", "use"} : \E q : Sets(c, l, q) BY <1>2, GetLocals
  <2> QED BY <2>1, <2>2, ServesSet
<1>3. ASSUME NEW c \in Conns, Open(c)
      PROVE  Serves(x, h) \/ (fver'[h] = ver /\ UNCHANGED <<ver, okVer>>)
  <2>1. UNCHANGED <<entry, gen, ver, okVer>> BY <1>3 DEF Open
  <2>2. CASE Return(c) BY <1>n, <2>1, <2>2, ServesSet
  <2>3. CASE \E g \in Fds : \E q : fver' = [fver EXCEPT ![g] = ver] /\ q.fd = g /\ Sets(c, "put", q)
    <3>1. PICK g, q : g \in Fds /\ fver' = [fver EXCEPT ![g] = ver] /\ q.fd = g /\ Sets(c, "put", q)
      BY <2>3
    <3>2. CASE g = h
      <4>1. fver'[h] = ver BY <3>1, <3>2 DEF TypeOK
      <4> QED BY <2>1, <4>1
    <3>3. CASE g # h
      <4>1. pc'[x[1]] = "put" /\ req'[x[1]].fd = h => pc'[x[1]] = pc[x[1]] /\ req'[x[1]] = req[x[1]]
        BY <1>x, <3>1, <3>3 DEF Sets, TypeOK
      <4> QED BY <2>1, <4>1 DEF Serves
    <3> QED BY <3>2, <3>3
  <2> QED BY <1>3, <2>2, <2>3, OpenLocals
<1>4. ASSUME NEW c \in Conns, PutIfFresh(c) PROVE Serves(x, h)
  <2>i. PICK q, o : q = req[c] /\ o = Own(c) OBVIOUS
  <2>1. Sets(c, "use", q) BY <1>4, <2>i DEF PutIfFresh, Goto, Sets, TypeOK
  <2>2. UNCHANGED gen /\ gen[o] = q.gen /\ pc[c] = "put" /\ o \in Caches
        /\ entry' = [entry EXCEPT ![o] = q.fd]
    BY <1>4, <1>c, <2>i DEF PutIfFresh, Control, Own, Caches
  <2>3. CASE entry'[x] = h /\ entry[x] # h
    <3>1. x = o /\ h = q.fd BY <2>2, <2>3 DEF TypeOK
    <3> QED BY <2>2, <2>i, <3>1 DEF Serves, Own
  <2>4. CASE entry'[x] = h => entry[x] = h
    BY <2>1, <2>2, <2>4, ServesSet
  <2> QED BY <2>3, <2>4
<1>5. ASSUME NEW c \in Conns, PutRefused(c) \/ UseClosed(c) PROVE Serves(x, h)
  <2>1. UNCHANGED gen /\ (entry'[x] = h => entry[x] = h)
    BY <1>5, FdNil DEF PutRefused, UseClosed, RemoveIf, TypeOK
  <2>2. \E l \in {"idle", "get"} : \E q : Sets(c, l, q) BY <1>5, <1>n, RetryLocals
  <2> QED BY <2>1, <2>2, ServesSet
<1>6. ASSUME NEW c \in Conns, Use(c) PROVE Serves(x, h)
  BY <1>6, <1>n, ServesSet DEF Use
<1>7. ASSUME NEW c \in Conns, NEW y \in Caches, NEW l \in Dropping, NEW q, Sets(c, l, q),
             entry' = [entry EXCEPT ![y] = Nil], gen' = [gen EXCEPT ![y] = @ + 1]
      PROVE  Serves(x, h)
  <2>1. entry'[x] = h => entry[x] = h BY <1>7, FdNil DEF TypeOK
  <2>2. pc'[x[1]] = "put" => pc'[x[1]] = pc[x[1]] /\ req'[x[1]] = req[x[1]]
    BY <1>7, <1>x DEF Sets, TypeOK, Dropping
  <2>3. CASE x # y
    <3>1. gen'[x] = gen[x] BY <1>7, <2>3 DEF TypeOK
    <3> QED BY <2>1, <2>2, <3>1 DEF Serves
  <2>4. CASE x = y
    BY <1>7, <2>4, DroppedEmpty
  <2> QED BY <2>3, <2>4
<1>8. ASSUME NEW c \in Conns, DropW(c) PROVE Serves(x, h)
  <2>1. PICK t, q :
              /\ t \in req[c].todo
              /\ gen' = [gen EXCEPT ![<<t, "w">>] = @ + 1]
              /\ entry' = [entry EXCEPT ![<<t, "w">>] = Nil]
              /\ Sets(c, IF q.fd = Nil THEN "dropr" ELSE "closew", q)
    BY <1>8, DropLocals
  <2>2. <<t, "w">> \in Caches BY <2>1 DEF TypeOK, Requests, Caches, Kinds
  <2> QED BY <1>7, <2>1, <2>2 DEF Dropping
<1>9. ASSUME NEW c \in Conns, DropR(c) PROVE Serves(x, h)
  <2>1. \E l \in Dropping : \E q : Sets(c, l, q)
    BY <1>9, DropLocals DEF Dropping
  <2>2. PICK y \in Caches : y = <<req[c].tgt, "r">>
    BY <1>9, <1>c DEF DropR, Control, Caches, Kinds
  <2>3. gen' = [gen EXCEPT ![y] = @ + 1] /\ entry' = [entry EXCEPT ![y] = Nil]
    BY <1>9, <2>2 DEF DropR
  <2> QED BY <1>7, <2>1, <2>3
<1>10. ASSUME NEW c \in Conns, CloseDropped(c) PROVE Serves(x, h)
  <2>1. \E l \in Dropping : \E q : Sets(c, l, q)
    BY <1>10, DropLocals DEF Dropping
  <2> QED BY <1>10, <2>1, ServesSet DEF CloseDropped, Dropping
<1>11. ASSUME NEW c \in Conns, Advances(c) PROVE Serves(x, h)
  <2>1. \E l \in {"idle", "drop"} \cup Applying : \E q : Sets(c, l, q)
    BY <1>11, <1>n, Advance DEF Moves, Sets
  <2>2. UNCHANGED <<entry, gen>> BY <1>11, Advance
  <2> QED BY <2>1, <2>2, ServesSet DEF Applying
<1>12. ASSUME UNCHANGED <<pc, req, gen>>, entry'[x] = h => entry[x] = h PROVE Serves(x, h)
  BY <1>12 DEF Serves
<1>13. ASSUME NEW y \in Caches, Evict(y) PROVE Serves(x, h)
  BY <1>12, <1>13, FdNil DEF Evict, TypeOK
<1> QED BY <1>1, <1>2, <1>3, <1>4, <1>5, <1>6, <1>8, <1>9, <1>10, <1>11, <1>12, <1>13
        DEF Next, Advances, Sync, CloseEvicted

\* What a visited cache serves was visited before: a drop empties the cache it visits, and
\* a new drop has visited none.
LEMMA VisitedStep ==
  ASSUME TypeOK, ControlInv, VersionInv, Next, NEW c \in Conns, NEW x \in Caches,
         NEW h \in Fds, Serves(x, h)', Visited(c, x)'
  PROVE  Visited(c, x) /\ req'[c].ver = req[c].ver
<1>x. x[1] \in Conns /\ x[2] \in Kinds /\ x = <<x[1], x[2]>> BY SMT DEF Caches
<1>k. pc'[c] = pc[c] /\ req'[c] = req[c] => Visited(c, x) /\ req'[c].ver = req[c].ver
  BY DEF Visited
<1>l. ASSUME NEW d \in Conns, NEW l, NEW q, Sets(d, l, q), d # c \/ l \notin Dropping
      PROVE  Visited(c, x) /\ req'[c].ver = req[c].ver
  <2>1. CASE d = c
    <3>1. pc'[c] = l BY <1>l, <2>1 DEF Sets, TypeOK
    <3> QED BY <1>l, <2>1, <3>1 DEF Visited
  <2>2. CASE d # c
    <3>1. pc'[c] = pc[c] /\ req'[c] = req[c] BY <1>l, <2>2 DEF Sets, TypeOK
    <3> QED BY <1>k, <3>1
  <2> QED BY <2>1, <2>2
<1>n. \A d \in Conns : Return(d) => Sets(d, "idle", NoReq) BY ReturnType, TypeParts
<1> DEFINE Goal == Visited(c, x) /\ req'[c].ver = req[c].ver
<1> HIDE DEF Goal
<1>g. Goal => Visited(c, x) /\ req'[c].ver = req[c].ver BY DEF Goal
<1>m. ASSUME NEW d \in Conns, NEW l, NEW q, Sets(d, l, q), d # c \/ l \notin Dropping PROVE Goal
  BY <1>l, <1>m DEF Goal
<1>1. ASSUME NEW d \in Conns, StartRead(d) \/ (\E w \in Writes : StartWrite(d, w)) PROVE Goal
  <2>1. \E q : Sets(d, "get", q) BY <1>1 DEF StartRead, StartWrite, Sets, Goto
  <2> QED BY <1>m, <2>1 DEF Dropping
<1>2. ASSUME NEW d \in Conns, Get(d) PROVE Goal
  <2>1. \E l \in {"open", "use"} : \E q : Sets(d, l, q) BY <1>2, GetLocals
  <2> QED BY <1>m, <2>1 DEF Dropping
<1>3. ASSUME NEW d \in Conns, Open(d) PROVE Goal
  <2>1. \E l \in {"put", "idle"} : \E q : Sets(d, l, q) BY <1>3, <1>n, OpenLocals
  <2> QED BY <1>m, <2>1 DEF Dropping
<1>4. ASSUME NEW d \in Conns, PutIfFresh(d) PROVE Goal
  <2>i. PICK q : q = req[d] OBVIOUS
  <2>1. Sets(d, "use", q) BY <1>4, <2>i DEF PutIfFresh, Goto, Sets, TypeOK
  <2> QED BY <1>m, <2>1 DEF Dropping
<1>5. ASSUME NEW d \in Conns, PutRefused(d) \/ UseClosed(d) PROVE Goal
  <2>1. \E l \in {"idle", "get"} : \E q : Sets(d, l, q) BY <1>5, <1>n, RetryLocals
  <2> QED BY <1>m, <2>1 DEF Dropping
<1>6. ASSUME NEW d \in Conns, Use(d) PROVE Goal
  BY <1>6, <1>n, <1>m DEF Use, Dropping
<1>7. ASSUME NEW d \in Conns, DropW(d) PROVE Goal
  <2>1. PICK t, q :
              /\ t \in req[d].todo
              /\ gen' = [gen EXCEPT ![<<t, "w">>] = @ + 1]
              /\ entry' = [entry EXCEPT ![<<t, "w">>] = Nil]
              /\ Keeps(q, req[d]) /\ q.todo = req[d].todo \ {t} /\ q.tgt = t
              /\ Sets(d, IF q.fd = Nil THEN "dropr" ELSE "closew", q)
    BY <1>7, DropLocals
  <2>2. PICK l \in {"dropr", "closew"} : Sets(d, l, q) BY <2>1
  <2>3. CASE d # c BY <1>m, <2>2, <2>3
  <2>4. CASE d = c
    <3>1. pc'[c] = l /\ req'[c] = q BY <2>2, <2>4 DEF Sets, TypeOK
    <3>2. <<t, "w">> \in Caches BY <2>1 DEF TypeOK, Requests, Caches, Kinds
    <3>3. x # <<t, "w">> BY <2>1, <2>2, <3>2, DroppedEmpty DEF Dropping
    <3>4. x[1] # t BY <1>x, <2>1, <3>1, <3>3 DEF Visited
    <3>5. Visited(c, x) BY <1>7, <2>1, <2>4, <3>1, <3>4 DEF Visited, DropW, Dropping
    <3> QED BY <2>1, <2>4, <3>1, <3>5 DEF Keeps, Goal
  <2> QED BY <2>3, <2>4
<1>8. ASSUME NEW d \in Conns, DropR(d) PROVE Goal
  <2>1. PICK q : /\ Keeps(q, req[d]) /\ q.todo = req[d].todo /\ q.tgt = req[d].tgt
                 /\ Sets(d, IF q.fd = Nil THEN "drop" ELSE "closer", q)
    BY <1>8, DropLocals
  <2>2. PICK l \in {"drop", "closer"} : Sets(d, l, q) BY <2>1
  <2>3. CASE d # c BY <1>m, <2>2, <2>3
  <2>4. CASE d = c
    <3>1. pc'[c] = l /\ req'[c] = q BY <2>2, <2>4 DEF Sets, TypeOK
    <3>2. PICK y \in Caches : y = <<req[c].tgt, "r">>
      BY <1>8, <2>4 DEF DropR, Caches, Kinds, ControlInv, Control
    <3>3. gen' = [gen EXCEPT ![y] = @ + 1] /\ entry' = [entry EXCEPT ![y] = Nil]
      BY <1>8, <2>4, <3>2 DEF DropR
    <3>4. x # y BY <2>2, <3>3, DroppedEmpty DEF Dropping
    <3>5. x[1] = req[c].tgt => x[2] = "w" BY <1>x, <3>2, <3>4 DEF Kinds
    <3>6. Visited(c, x) BY <1>8, <2>1, <2>4, <3>1, <3>5 DEF Visited, DropR, Dropping
    <3> QED BY <2>1, <2>4, <3>1, <3>6 DEF Keeps, Goal
  <2> QED BY <2>3, <2>4
<1>9. ASSUME NEW d \in Conns, CloseDropped(d) PROVE Goal
  <2>1. PICK q : /\ Keeps(q, req[d]) /\ q.todo = req[d].todo /\ q.tgt = req[d].tgt
                 /\ Sets(d, IF pc[d] = "closew" THEN "dropr" ELSE "drop", q)
    BY <1>9, DropLocals
  <2>2. CASE d # c
    <3>1. pc'[c] = pc[c] /\ req'[c] = req[c] BY <2>1, <2>2 DEF Sets, TypeOK
    <3> QED BY <1>k, <3>1 DEF Goal
  <2>3. CASE d = c
    <3>1. pc'[c] = (IF pc[c] = "closew" THEN "dropr" ELSE "drop") /\ req'[c] = q
      BY <2>1, <2>3 DEF Sets, TypeOK
    <3>2. Visited(c, x) BY <1>9, <2>1, <2>3, <3>1 DEF Visited, CloseDropped, Dropping
    <3> QED BY <2>1, <2>3, <3>1, <3>2 DEF Keeps, Goal
  <2> QED BY <2>2, <2>3
<1>10. ASSUME NEW d \in Conns, Advances(d) PROVE Goal
  <2>1. CASE \E l, q : Moves(d, l, q)
    <3>1. PICK l, q : Moves(d, l, q) BY <2>1
    <3>2. Sets(d, l, q) BY <3>1 DEF Moves, Sets
    <3>3. CASE d # c \/ l # "drop" BY <1>m, <3>1, <3>2, <3>3 DEF Moves, Dropping, Applying
    <3>4. CASE d = c /\ l = "drop"
      <4>1. req'[c].todo = Conns BY <3>1, <3>2, <3>4 DEF Moves, Sets, TypeOK
      <4> QED BY <1>x, <4>1 DEF Visited
    <3> QED BY <3>3, <3>4
  <2> QED BY <1>m, <1>n, <1>10, <2>1, Advance DEF Dropping
<1>11. ASSUME UNCHANGED <<pc, req>> PROVE Goal
  BY <1>k, <1>11 DEF Goal
<1> QED BY <1>g, <1>1, <1>2, <1>3, <1>4, <1>5, <1>6, <1>7, <1>8, <1>9, <1>10, <1>11
        DEF Next, Advances, Evict, Sync, CloseEvicted

\* A change replies OK after its drop has visited every cache.
LEMMA OkStep ==
  ASSUME TypeOK, ControlInv, Next
  PROVE  \/ okVer' = okVer
         \/ \E c \in Conns : /\ \A x \in Caches : Visited(c, x)
                             /\ okVer' = MaxOf(okVer, req[c].ver)
<1> USE DEF fdVars, cacheVars, boundVars, histVars
<1>1. ASSUME NEW c \in Conns, Advances(c)
      PROVE  \/ okVer' = okVer
             \/ \E d \in Conns : /\ \A x \in Caches : Visited(d, x)
                                 /\ okVer' = MaxOf(okVer, req[d].ver)
  <2>1. okVer' = okVer \/ Replies(c) BY <1>1, Advance DEF Moves
  <2>2. ASSUME Replies(c) PROVE \A x \in Caches : Visited(c, x)
    BY <2>2 DEF Replies, Visited, Dropping
  <2> QED BY <2>1, <2>2 DEF Replies
<1> QED BY ZenonT(40), <1>1 DEF Next, Advances, StartRead, StartWrite, Get, Open, PutIfFresh, PutRefused,
                    UseClosed, RemoveIf, Use, DropW, DropR, CloseDropped, Evict, Sync, CloseEvicted

\* No cache serves an fd older than a change that replied OK, or whose drop has passed it.
LEMMA FreshStep ==
  ASSUME TypeOK, ControlInv, OwnerInv, VersionInv, FreshInv, Next
  PROVE  FreshInv'
<1> SUFFICES ASSUME NEW x \in Caches, NEW h \in Fds, Serves(x, h)'
             PROVE  /\ fver'[h] >= okVer'
                    /\ \A c \in Conns : Visited(c, x)' => fver'[h] >= req'[c].ver
  BY DEF FreshInv
<1>t. /\ okVer \in Nat /\ ver \in Nat /\ (\A c \in Conns : req[c].ver \in Nat)
      /\ okVer <= ver /\ (\A c \in Conns : req[c].ver <= ver)
  BY DEF TypeOK, Requests, VersionInv
<1>1. CASE Serves(x, h) /\ fver'[h] = fver[h] /\ fver[h] \in Nat
  <2>1. fver[h] >= okVer /\ \A c \in Conns : Visited(c, x) => fver[h] >= req[c].ver
    BY <1>1 DEF FreshInv
  <2>2. fver'[h] >= okVer'
    <3>1. CASE okVer' = okVer BY <1>1, <2>1, <3>1
    <3>2. CASE \E c \in Conns : (\A y \in Caches : Visited(c, y))
                                /\ okVer' = MaxOf(okVer, req[c].ver)
      <4>1. PICK c \in Conns : (\A y \in Caches : Visited(c, y))
                                /\ okVer' = MaxOf(okVer, req[c].ver)
        BY <3>2
      <4>2. fver[h] >= req[c].ver BY <2>1, <4>1
      <4> QED BY <1>1, <2>1, <4>1, <4>2 DEF MaxOf
    <3> QED BY <3>1, <3>2, OkStep
  <2>3. ASSUME NEW c \in Conns, Visited(c, x)' PROVE fver'[h] >= req'[c].ver
    <3>1. Visited(c, x) /\ req'[c].ver = req[c].ver BY <2>3, VisitedStep
    <3> QED BY <1>1, <2>1, <3>1
  <2> QED BY <2>2, <2>3
<1>2. CASE fver'[h] = ver /\ UNCHANGED <<ver, okVer>>
  <2>0. \A i, j \in Nat : i <= j => j >= i BY SMT
  <2>1. fver'[h] >= okVer' BY <1>t, <1>2, <2>0
  <2>2. ASSUME NEW c \in Conns, Visited(c, x)' PROVE fver'[h] >= req'[c].ver
    <3>1. Visited(c, x) /\ req'[c].ver = req[c].ver BY <2>2, VisitedStep
    <3> QED BY <1>t, <1>2, <2>0, <3>1
  <2> QED BY <2>1, <2>2
<1> QED BY <1>1, <1>2, ServesStep

-----------------------------------------------------------------------------
(* Buffered data.                                                          *)

\* An fd that may buffer data still may when it stays where it is.
LEMMA BufferingKept ==
  ASSUME NEW h, Buffering(h),
         h \in evicting => h \in evicting' \/ Buffering(h)',
         \A c \in Conns : pc[c] = "closew" /\ req[c].fd = h =>
            (pc'[c] = "closew" /\ req'[c].fd = h) \/ Buffering(h)',
         \A t \in Conns : entry[<<t, "w">>] = h => entry'[<<t, "w">>] = h \/ Buffering(h)'
  PROVE  Buffering(h)'
  BY DEF Buffering, Detached

\* The three places of an fd that may buffer data.
LEMMA BufferingIn ==
  ASSUME NEW h,
         \/ h \in evicting'
         \/ \E c \in Conns : pc'[c] = "closew" /\ req'[c].fd = h
         \/ \E t \in Conns : entry'[<<t, "w">>] = h
  PROVE  Buffering(h)'
  BY DEF Buffering, Detached

\* A step of c that takes no fd out of a write cache and closes none.
LEMMA BufferingSet ==
  ASSUME TypeOK, NEW c \in Conns, NEW l, NEW q, Sets(c, l, q), pc[c] # "closew",
         NEW h \in Fds, Buffering(h), evicting \subseteq evicting',
         \A t \in Conns : entry[<<t, "w">>] = h => entry'[<<t, "w">>] = h
  PROVE  Buffering(h)'
<1>1. \A d \in Conns : pc[d] = "closew" => pc'[d] = pc[d] /\ req'[d] = req[d]
  BY DEF Sets, TypeOK
<1> QED BY <1>1, BufferingKept

\* Data stays in a write cache or in a detached fd until its fd is closed.
LEMMA BufferingStep ==
  ASSUME TypeOK, ControlInv, OwnerInv, Next, NEW h \in Fds, Buffering(h)
  PROVE  Buffering(h)' \/ (h \in fclosed' /\ fbuf'[h] = {})
<1> USE DEF fdVars, cacheVars, boundVars, histVars
<1> DEFINE Goal == Buffering(h)' \/ (h \in fclosed' /\ fbuf'[h] = {})
<1>c. \A c \in Conns : Control(pc[c], req[c]) BY DEF ControlInv
<1>o. SoleOwner(h) BY DEF OwnerInv
<1>w. \A t \in Conns : <<t, "w">> \in Caches BY DEF Caches, Kinds
<1>n. \A c \in Conns : Return(c) => Sets(c, "idle", NoReq) BY ReturnType, TypeParts
<1>1. ASSUME NEW c \in Conns, StartRead(c) \/ (\E w \in Writes : StartWrite(c, w)) PROVE Goal
  <2>1. \E q : Sets(c, "get", q) BY <1>1 DEF StartRead, StartWrite, Sets, Goto
  <2> QED BY <1>1, <2>1, BufferingSet DEF StartRead, StartWrite
<1>2. ASSUME NEW c \in Conns, Get(c) PROVE Goal
  BY <1>2, GetLocals, BufferingSet DEF Get
<1>3. ASSUME NEW c \in Conns, Open(c) PROVE Goal
  <2>1. \E l, q : Sets(c, l, q) BY <1>3, <1>n, OpenLocals
  <2> QED BY <1>3, <2>1, BufferingSet DEF Open
<1>4. ASSUME NEW c \in Conns, PutIfFresh(c) PROVE Goal
  <2>i. PICK q : q = req[c] OBVIOUS
  <2>1. Sets(c, "use", q) BY <1>4, <2>i DEF PutIfFresh, Goto, Sets, TypeOK
  <2>2. \A x \in Caches : entry[x] = h => entry'[x] = h
    BY <1>4, FdNil DEF PutIfFresh, TypeOK
  <2> QED BY <1>4, <1>w, <2>1, <2>2, BufferingSet DEF PutIfFresh
<1>5. ASSUME NEW c \in Conns, PutRefused(c) \/ UseClosed(c) PROVE Goal
  <2>1. \E l, q : Sets(c, l, q) BY <1>5, <1>n, RetryLocals
  <2>2. \A x \in Caches : entry[x] = h => entry'[x] = h
    <3>1. entry' = entry \/ (\E v : /\ v \in fclosed
                                   /\ entry' = [entry EXCEPT ![Own(c)] = IF @ = v THEN Nil ELSE @])
      BY <1>5 DEF PutRefused, UseClosed, RemoveIf
    <3>2. \A x \in Caches : entry[x] = h => h \notin fclosed
      BY <1>o DEF SoleOwner, IsOpen
    <3>3. entry \in [Caches -> Fds \cup {Nil}] BY DEF TypeOK
    <3> QED BY <3>1, <3>2, <3>3
  <2> QED BY <1>5, <1>w, <2>1, <2>2, BufferingSet DEF PutRefused, UseClosed, RemoveIf
<1>6. ASSUME NEW c \in Conns, Use(c) PROVE Goal
  BY <1>6, <1>n, BufferingSet DEF Use
<1>7. ASSUME NEW c \in Conns, DropW(c) PROVE Goal
  <2>1. PICK t, q :
              /\ t \in req[c].todo
              /\ entry' = [entry EXCEPT ![<<t, "w">>] = Nil] /\ q.fd = entry[<<t, "w">>]
              /\ Sets(c, IF q.fd = Nil THEN "dropr" ELSE "closew", q)
    BY <1>7, DropLocals
  <2>2. CASE q.fd = h
    <3>1. pc'[c] = "closew" /\ req'[c] = q BY <2>1, <2>2, FdNil DEF Sets, TypeOK
    <3> QED BY <2>2, <3>1, BufferingIn
  <2>3. CASE q.fd # h
    <3>1. \A x \in Caches : entry[x] = h => entry'[x] = h
      BY <2>1, <2>3 DEF TypeOK
    <3> QED BY <1>7, <1>w, <2>1, <3>1, BufferingSet DEF DropW
  <2> QED BY <2>2, <2>3
<1>8. ASSUME NEW c \in Conns, DropR(c) PROVE Goal
  <2>1. \E l, q : Sets(c, l, q) BY <1>8, DropLocals
  <2>2. \A t \in Conns : <<t, "w">> # <<req[c].tgt, "r">> OBVIOUS
  <2>3. \A t \in Conns : entry'[<<t, "w">>] = entry[<<t, "w">>]
    BY <1>8, <1>w, <2>2 DEF DropR, TypeOK
  <2> QED BY <1>8, <2>1, <2>3, BufferingSet DEF DropR
<1>9. ASSUME NEW c \in Conns, CloseDropped(c) PROVE Goal
  <2>1. \E l, q : Sets(c, l, q) BY <1>9, DropLocals
  <2>2. CASE req[c].fd = h
    BY <1>9, <2>2 DEF CloseDropped, CloseFd, TypeOK
  <2>3. CASE req[c].fd # h
    <3>1. \A d \in Conns \ {c} : pc'[d] = pc[d] /\ req'[d] = req[d]
      BY <2>1 DEF Sets, TypeOK
    <3>2. UNCHANGED <<entry, evicting>> BY <1>9 DEF CloseDropped
    <3>3. \A d \in Conns : pc[d] = "closew" /\ req[d].fd = h =>
             pc'[d] = "closew" /\ req'[d].fd = h
      BY <2>3, <3>1
    <3> QED BY <3>2, <3>3, BufferingKept
  <2> QED BY <2>2, <2>3
<1>10. ASSUME NEW c \in Conns, Advances(c) PROVE Goal
  <2>1. \E l, q : Sets(c, l, q) BY <1>10, <1>n, Advance DEF Moves, Sets
  <2>2. UNCHANGED <<entry, evicting>> /\ pc[c] # "closew" BY <1>10, Advance DEF Applying
  <2> QED BY <2>1, <2>2, BufferingSet
<1>11. ASSUME NEW x \in Caches, Evict(x) PROVE Goal
  <2>1. \A y \in Caches : entry[y] = h => entry'[y] = h \/ h \in evicting'
    BY <1>11 DEF Evict, TypeOK
  <2>2. UNCHANGED <<pc, req>> /\ evicting \subseteq evicting' BY <1>11 DEF Evict
  <2> QED BY <1>w, <2>1, <2>2, BufferingKept, BufferingIn
<1>12. ASSUME NEW g \in Fds, Sync(g) PROVE Goal
  BY <1>12, BufferingKept DEF Sync
<1>13. ASSUME NEW g \in Fds, CloseEvicted(g) PROVE Goal
  <2>1. CASE g = h BY <1>13, <2>1 DEF CloseEvicted, CloseFd, TypeOK
  <2>2. CASE g # h
    <3>1. UNCHANGED <<pc, req, entry>> /\ (h \in evicting => h \in evicting')
      BY <1>13, <2>2 DEF CloseEvicted
    <3> QED BY <3>1, BufferingKept
  <2> QED BY <2>1, <2>2
<1> QED BY <1>1, <1>2, <1>3, <1>4, <1>5, <1>6, <1>7, <1>8, <1>9, <1>10, <1>11, <1>12, <1>13
        DEF Next, Advances

\* A WRITE is about to put w in the open fd h.
Fills(h, w) == \E c \in Conns : /\ pc[c] = "use" /\ req[c].kind = "w" /\ req[c].w = w
                                /\ req[c].fd = h /\ h \notin fclosed

\* Only writeAt puts data in an fd, that of a WRITE not yet acknowledged.
LEMMA BufStep ==
  ASSUME TypeOK, ControlInv, Next
  PROVE  \A h \in Fds : \A w \in fbuf'[h] : w \in fbuf[h] \/ Fills(h, w)
<1> SUFFICES ASSUME NEW h \in Fds, NEW w \in fbuf'[h] PROVE w \in fbuf[h] \/ Fills(h, w)
  OBVIOUS
<1> USE DEF fdVars, cacheVars, boundVars, histVars
<1>t. fbuf \in [Fds -> SUBSET Writes] BY DEF TypeOK
<1>1. ASSUME NEW c \in Conns, Use(c)
      PROVE  w \in fbuf[h] \/ Fills(h, w)
  <2>1. CASE req[c].fd = h
    <3>1. CASE fbuf' = [fbuf EXCEPT ![req[c].fd] = @ \cup {req[c].w}]
      <4>1. fbuf'[h] = fbuf[h] \cup {req[c].w} BY <1>t, <2>1, <3>1
      <4> QED BY <1>1, <2>1, <3>1, <4>1 DEF Use, Fills
    <3> QED BY <1>1, <2>1, <3>1 DEF Use
  <2>2. CASE req[c].fd # h BY <1>t, <1>1, <2>2 DEF Use
  <2> QED BY <2>1, <2>2
<1>2. ASSUME NEW c \in Conns, CloseDropped(c) PROVE w \in fbuf[h]
  BY <1>t, <1>2 DEF CloseDropped, CloseFd
<1>3. ASSUME NEW g \in Fds, Sync(g) \/ CloseEvicted(g) PROVE w \in fbuf[h]
  BY <1>t, <1>3 DEF Sync, CloseEvicted, CloseFd
<1>4. ASSUME NEW c \in Conns, Advances(c) PROVE w \in fbuf[h]
  BY <1>4, Advance
<1> QED BY ZenonT(40), <1>1, <1>2, <1>3, <1>4
        DEF Next, Advances, StartRead, StartWrite, Get, Open, PutIfFresh, PutRefused, UseClosed, RemoveIf,
            DropW, DropR, Evict

\* fds closed stay closed.
LEMMA ClosedStep ==
  ASSUME TypeOK, ControlInv, Next
  PROVE  fclosed \subseteq fclosed'
<1> USE DEF fdVars, cacheVars, boundVars, histVars
<1>1. ASSUME NEW c \in Conns, Advances(c) PROVE fclosed \subseteq fclosed'
  BY <1>1, Advance
<1> QED BY ZenonT(40), <1>1
        DEF Next, Advances, StartRead, StartWrite, Get, Open, PutIfFresh, PutRefused, UseClosed, RemoveIf,
            Use, DropW, DropR, CloseDropped, CloseFd, Evict, Sync, CloseEvicted

\* c begins to use the fd of its cache, or goes on with the one it uses.
LEMMA UseStep ==
  ASSUME TypeOK, ControlInv, Next, NEW c \in Conns, pc'[c] = "use"
  PROVE  \/ pc[c] = "use" /\ req'[c] = req[c]
         \/ /\ req'[c].kind = "w" => entry'[<<c, "w">>] = req'[c].fd
            /\ Get(c) \/ PutIfFresh(c)
<1> USE DEF fdVars, cacheVars, boundVars, histVars
<1> DEFINE Goal == \/ pc[c] = "use" /\ req'[c] = req[c]
                   \/ /\ req'[c].kind = "w" => entry'[<<c, "w">>] = req'[c].fd
                      /\ Get(c) \/ PutIfFresh(c)
<1>n. \A d \in Conns : Return(d) => Sets(d, "idle", NoReq) BY ReturnType, TypeParts
<1>m. ASSUME NEW d \in Conns, NEW l, NEW q, Sets(d, l, q), d # c \/ l # "use" PROVE Goal
  <2>1. CASE d = c
    <3>1. pc'[c] = l BY <1>m, <2>1 DEF Sets, TypeOK
    <3> QED BY <1>m, <2>1, <3>1
  <2>2. CASE d # c BY <1>m, <2>2 DEF Sets, TypeOK
  <2> QED BY <2>1, <2>2
<1> HIDE DEF Goal
<1>1. ASSUME NEW d \in Conns, StartRead(d) \/ (\E w \in Writes : StartWrite(d, w)) PROVE Goal
  <2>1. \E q : Sets(d, "get", q) BY <1>1 DEF StartRead, StartWrite, Sets, Goto
  <2> QED BY <1>m, <2>1
<1>2. ASSUME NEW d \in Conns, Get(d) PROVE Goal
  <2>1. PICK q : /\ Keeps(q, req[d])
                 /\ \/ entry[Own(d)] = Nil /\ Sets(d, "open", q)
                    \/ entry[Own(d)] # Nil /\ q.fd = entry[Own(d)] /\ Sets(d, "use", q)
    BY <1>2, GetLocals
  <2>2. CASE Sets(d, "open", q) \/ d # c BY <1>m, <2>1, <2>2
  <2>3. CASE d = c /\ q.fd = entry[Own(d)] /\ Sets(d, "use", q)
    <3>1. req'[c] = q BY <2>3 DEF Sets, TypeOK
    <3>2. q.kind = "w" => entry'[<<c, "w">>] = q.fd
      BY ZenonT(40), <1>2, <2>1, <2>3 DEF Get, Own, Keeps
    <3> QED BY <1>2, <2>3, <3>1, <3>2 DEF Goal
  <2> QED BY <2>1, <2>2, <2>3
<1>3. ASSUME NEW d \in Conns, Open(d) PROVE Goal
  <2>1. \E l \in {"put", "idle"} : \E q : Sets(d, l, q) BY <1>3, <1>n, OpenLocals
  <2> QED BY <1>m, <2>1
<1>4. ASSUME NEW d \in Conns, PutIfFresh(d) PROVE Goal
  <2>i. PICK q : q = req[d] OBVIOUS
  <2>1. Sets(d, "use", q) BY <1>4, <2>i DEF PutIfFresh, Goto, Sets, TypeOK
  <2>2. CASE d # c BY <1>m, <2>1, <2>2
  <2>3. CASE d = c
    <3>1. req'[c] = q BY <2>1, <2>3 DEF Sets, TypeOK
    <3>2. Own(c) \in Caches BY <1>4, <2>3 DEF PutIfFresh, ControlInv, Control, Own, Caches
    <3>3. q.kind = "w" => entry'[<<c, "w">>] = q.fd
      BY <1>4, <2>i, <2>3, <3>2 DEF PutIfFresh, Own, TypeOK
    <3> QED BY <1>4, <2>3, <3>1, <3>3 DEF Goal
  <2> QED BY <2>2, <2>3
<1>5. ASSUME NEW d \in Conns, PutRefused(d) \/ UseClosed(d) PROVE Goal
  <2>1. \E l \in {"idle", "get"} : \E q : Sets(d, l, q) BY <1>5, <1>n, RetryLocals
  <2> QED BY <1>m, <2>1
<1>6. ASSUME NEW d \in Conns, Use(d) PROVE Goal
  BY <1>6, <1>n, <1>m DEF Use
<1>7. ASSUME NEW d \in Conns, DropW(d) \/ DropR(d) \/ CloseDropped(d) PROVE Goal
  <2>1. \E l \in Dropping : \E q : Sets(d, l, q) BY <1>7, DropLocals DEF Dropping
  <2> QED BY <1>m, <2>1 DEF Dropping
<1>8. ASSUME NEW d \in Conns, Advances(d) PROVE Goal
  <2>1. \E l \in {"idle", "drop"} \cup Applying : \E q : Sets(d, l, q)
    <3>1. CASE Return(d) BY <1>n, <3>1
    <3>2. ASSUME NEW l, NEW q, Moves(d, l, q) PROVE l \in {"drop"} \cup Applying /\ Sets(d, l, q)
      BY <3>2 DEF Moves, Sets
    <3> QED BY <1>8, <3>1, <3>2, Advance
  <2> QED BY <1>m, <2>1 DEF Applying
<1>9. ASSUME UNCHANGED <<pc, req>> PROVE Goal
  BY <1>9 DEF Goal
<1>10. Goal BY ZenonT(40), <1>1, <1>2, <1>3, <1>4, <1>5, <1>6, <1>7, <1>8, <1>9
        DEF Next, Advances, Evict, Sync, CloseEvicted
<1> QED BY <1>10 DEF Goal

\* Only fds in write caches and detached ones buffer data.
LEMMA BufferStep ==
  ASSUME TypeOK, ControlInv, OwnerInv, BufferInv, Next
  PROVE  BufferInv'
<1>1. ASSUME NEW h \in Fds, fbuf'[h] # {} PROVE Buffering(h)'
  <2>1. PICK w : w \in fbuf'[h] BY <1>1
  <2>2. w \in fbuf[h] => Buffering(h) BY DEF BufferInv
  <2>3. ASSUME NEW c \in Conns, pc[c] = "use", req[c].kind = "w", req[c].fd = h, h \notin fclosed
        PROVE  Buffering(h)
    BY <2>3 DEF BufferInv, Buffering, Detached
  <2>4. w \in fbuf[h] \/ Fills(h, w) BY <2>1, BufStep
  <2>5. Buffering(h) BY <2>2, <2>3, <2>4 DEF Fills
  <2> QED BY <1>1, <2>5, BufferingStep
<1>2. ASSUME NEW c \in Conns, pc'[c] = "use", req'[c].kind = "w", NEW h, h = req'[c].fd
      PROVE  h \in fclosed' \/ Buffering(h)'
  <2>1. h \in Fds BY <1>2, ControlStep DEF ControlInv, Control
  <2>2. CASE pc[c] = "use" /\ req'[c] = req[c]
    <3>1. h \in fclosed \/ Buffering(h) BY <1>2, <2>2 DEF BufferInv, Buffering, Detached
    <3> QED BY <2>1, <3>1, BufferingStep, ClosedStep
  <2>3. CASE entry'[<<c, "w">>] = h BY <2>3, BufferingIn
  <2> QED BY <1>2, <2>2, <2>3, UseStep
<1> QED BY <1>1, <1>2 DEF BufferInv, Buffering, Detached

-----------------------------------------------------------------------------
(* Data that a change has cut.                                             *)

\* Data of a WRITE already acknowledged reaches no further fd, nor the file anew.
LEMMA AliveStep ==
  ASSUME TypeOK, ControlInv, SentInv, Next, NEW w \in acked
  PROVE  /\ \A h \in Fds : w \in fbuf'[h] => w \in fbuf[h]
         /\ Alive(w)' => Alive(w)
<1> USE DEF fdVars, cacheVars, boundVars, histVars
<1>1. \A h \in Fds : w \in fbuf'[h] => w \in fbuf[h]
  <2> SUFFICES ASSUME NEW h \in Fds, w \in fbuf'[h] PROVE w \in fbuf[h] OBVIOUS
  <2>1. w \in fbuf[h] \/ Fills(h, w) BY BufStep
  <2> QED BY <2>1 DEF SentInv, Fills
<1>2. ASSUME w \in content' PROVE Alive(w)
  <2>1. ASSUME NEW c \in Conns, Advances(c) PROVE Alive(w)
    BY <1>2, <2>1, Advance DEF Cut, Alive
  <2>2. ASSUME NEW c \in Conns, CloseDropped(c) PROVE Alive(w)
    <3>1. req[c].fd \in Fds BY <2>2 DEF CloseDropped, ControlInv, Control
    <3> QED BY <1>2, <2>2, <3>1 DEF CloseDropped, CloseFd, Alive
  <2>3. ASSUME NEW g \in Fds, Sync(g) \/ CloseEvicted(g) PROVE Alive(w)
    BY <1>2, <2>3 DEF Sync, CloseEvicted, CloseFd, Alive
  <2>4. ASSUME UNCHANGED content PROVE Alive(w) BY <1>2, <2>4 DEF Alive
  <2> QED BY ZenonT(40), <2>1, <2>2, <2>3, <2>4
        DEF Next, Advances, StartRead, StartWrite, Get, Open, PutIfFresh, PutRefused, UseClosed, RemoveIf,
            Use, DropW, DropR, Evict
<1> QED BY <1>1, <1>2 DEF Alive

\* raced only grows.
LEMMA RacedStep ==
  ASSUME TypeOK, ControlInv, Next
  PROVE  raced \subseteq raced'
<1> USE DEF fdVars, cacheVars, boundVars, histVars
<1>1. ASSUME NEW c \in Conns, Advances(c) PROVE raced \subseteq raced'
  BY <1>1, Advance DEF Cut
<1> QED BY ZenonT(40), <1>1
        DEF Next, Advances, StartRead, StartWrite, Get, Open, PutIfFresh, PutRefused, UseClosed, RemoveIf,
            Use, DropW, DropR, CloseDropped, Evict, Sync, CloseEvicted

\* What is acknowledged before a change that cut the file is dead when it replies OK.
LEMMA DeadStep ==
  ASSUME TypeOK, ControlInv, Next, NEW w \in dead'
  PROVE  \/ w \in dead
         \/ \E c \in Conns : req[c].kind = "change" /\ req[c].cut /\ w \in req[c].before
<1> USE DEF fdVars, cacheVars, boundVars, histVars
<1>1. ASSUME NEW c \in Conns, Advances(c)
      PROVE  w \in dead \/ (req[c].kind = "change" /\ req[c].cut /\ w \in req[c].before)
  <2>1. CASE Replies(c)
    BY <2>1 DEF Replies, ControlInv, Control, Dropping
  <2>2. CASE UNCHANGED dead BY <2>2
  <2> QED BY <1>1, <2>1, <2>2, Advance DEF Moves
<1>2. ASSUME UNCHANGED dead PROVE w \in dead BY <1>2
<1> QED BY ZenonT(40), <1>1, <1>2
        DEF Next, Advances, StartRead, StartWrite, Get, Open, PutIfFresh, PutRefused, UseClosed, RemoveIf,
            Use, DropW, DropR, CloseDropped, Evict, Sync, CloseEvicted

\* An fd that a step puts in a cache has no data yet.
LEMMA EntryStep ==
  ASSUME TypeOK, ControlInv, OwnerInv, BufferInv, Next,
         NEW x \in Caches, NEW h \in Fds, entry'[x] = h
  PROVE  entry[x] = h \/ (fbuf[h] = {} /\ fbuf'[h] = {})
<1> USE DEF fdVars, cacheVars, boundVars, histVars
<1> DEFINE Goal == entry[x] = h \/ (fbuf[h] = {} /\ fbuf'[h] = {})
<1>n. \A y \in Caches : [entry EXCEPT ![y] = Nil][x] = h => entry[x] = h
  BY FdNil DEF TypeOK
<1>1. ASSUME NEW c \in Conns, PutIfFresh(c) PROVE Goal
  <2>1. CASE entry[x] # h
    <3>1. req[c].fd = h /\ pc[c] = "put" /\ fbuf' = fbuf BY <1>1, <2>1 DEF PutIfFresh, TypeOK
    <3>2. Holds(c, h) BY <3>1 DEF Holds
    <3>3. h \notin evicting /\ (\A y \in Caches : entry[y] # h)
          /\ \A d \in Conns : Holds(d, h) => d = c
      BY <3>2 DEF OwnerInv, SoleOwner
    <3>4. \A d \in Conns : ~ (pc[d] = "closew" /\ req[d].fd = h) BY <3>1, <3>3 DEF Holds
    <3>5. ~ Buffering(h) BY <3>3, <3>4 DEF Buffering, Detached, Caches, Kinds
    <3> QED BY <3>1, <3>5 DEF BufferInv
  <2> QED BY <2>1
<1>2. ASSUME NEW c \in Conns, UseClosed(c) PROVE Goal
  <2>1. Own(c) \in Caches BY <1>2 DEF UseClosed, RemoveIf, ControlInv, Control, Own, Caches
  <2>2. entry'[x] = entry[x] \/ entry'[x] = Nil BY <1>2, <2>1 DEF UseClosed, RemoveIf, TypeOK
  <2> QED BY <2>2, FdNil
<1>3. ASSUME NEW c \in Conns, DropW(c) PROVE Goal
  <2>1. PICK t \in req[c].todo : entry' = [entry EXCEPT ![<<t, "w">>] = Nil] BY <1>3, DropLocals
  <2>2. <<t, "w">> \in Caches BY <2>1 DEF TypeOK, Requests, Caches, Kinds
  <2> QED BY <1>n, <2>1, <2>2
<1>4. ASSUME NEW c \in Conns, DropR(c) PROVE Goal
  <2>1. <<req[c].tgt, "r">> \in Caches
    BY <1>4 DEF DropR, ControlInv, Control, Caches, Kinds
  <2> QED BY <1>n, <1>4, <2>1 DEF DropR
<1>5. ASSUME NEW y \in Caches, Evict(y) PROVE Goal
  BY <1>n, <1>5 DEF Evict
<1>6. ASSUME UNCHANGED entry PROVE Goal BY <1>6
<1>7. ASSUME NEW c \in Conns, Advances(c) PROVE Goal BY <1>6, <1>7, Advance
<1> QED BY ZenonT(40), <1>1, <1>2, <1>3, <1>4, <1>5, <1>6, <1>7
        DEF Next, Advances, StartRead, StartWrite, Get, Open, PutRefused, Use, CloseDropped, Sync,
            CloseEvicted

\* A change in progress: it invalidates one more cache, goes to its next stage, or
\* waits for others.
LEMMA ChangeStep ==
  ASSUME TypeOK, ControlInv, Next, NEW c \in Conns, req'[c].kind = "change"
  PROVE  \/ /\ req[c].kind = "change" /\ req'[c].before = req[c].before
            /\ req'[c].cut = req[c].cut
            /\ \A t \in Conns \ req'[c].todo : t \notin req[c].todo \/ entry'[<<t, "w">>] = Nil
         \/ Advances(c) /\ \E l, q : Moves(c, l, q) /\ req'[c] = q
<1> USE DEF fdVars, cacheVars, boundVars, histVars
<1> DEFINE Same == /\ req[c].kind = "change" /\ req'[c].before = req[c].before
                   /\ req'[c].cut = req[c].cut
                   /\ \A t \in Conns \ req'[c].todo :
                         t \notin req[c].todo \/ entry'[<<t, "w">>] = Nil
<1> DEFINE Goal == Same \/ (Advances(c) /\ \E l, q : Moves(c, l, q) /\ req'[c] = q)
<1>n. \A d \in Conns : Return(d) => Sets(d, "idle", NoReq) BY ReturnType, TypeParts
<1>0. NoReq.kind = "none" BY DEF NoReq
<1>s. ASSUME req'[c] = req[c] PROVE Same BY <1>s
<1>m. ASSUME NEW d \in Conns, NEW l, NEW q, Sets(d, l, q), d # c \/ q.kind # "change" PROVE Same
  <2>1. CASE d = c
    <3>1. req'[c] = q BY <1>m, <2>1 DEF Sets, TypeOK
    <3> QED BY <1>m, <2>1, <3>1
  <2>2. CASE d # c
    <3>1. req'[c] = req[c] BY <1>m, <2>2 DEF Sets, TypeOK
    <3> QED BY <1>s, <3>1
  <2> QED BY <2>1, <2>2
<1> HIDE DEF Same
<1>k. ASSUME NEW d \in Conns, pc[d] \in {"get", "open", "put", "use"},
             Return(d) \/ \E l, q : Keeps(q, req[d]) /\ Sets(d, l, q)
      PROVE  Same
  <2>1. req[d].kind # "change" BY <1>k DEF ControlInv, Control, Kinds
  <2>2. CASE Return(d) BY <1>0, <1>n, <1>m, <2>2
  <2>3. ASSUME NEW l, NEW q, Keeps(q, req[d]), Sets(d, l, q) PROVE Same
    BY <1>m, <2>1, <2>3 DEF Keeps
  <2> QED BY <1>k, <2>2, <2>3
<1>1. ASSUME NEW d \in Conns, StartRead(d) \/ (\E w \in Writes : StartWrite(d, w)) PROVE Same
  <2>1. \E q : q.kind # "change" /\ Sets(d, "get", q)
    <3>1. okVer \in Nat BY DEF TypeOK
    <3>2. CASE StartRead(d) BY <3>1, <3>2, NewReqs DEF StartRead, Sets, Goto
    <3>3. ASSUME NEW w \in Writes, StartWrite(d, w) PROVE \E q : q.kind # "change" /\ Sets(d, "get", q)
      BY <3>1, <3>3, NewReqs DEF StartWrite, Sets, Goto
    <3> QED BY <1>1, <3>2, <3>3
  <2> QED BY <1>m, <2>1
<1>2. ASSUME NEW d \in Conns,
             Get(d) \/ Open(d) \/ PutIfFresh(d) \/ PutRefused(d) \/ UseClosed(d) \/ Use(d)
      PROVE  Same
  <2>1. pc[d] \in {"get", "open", "put", "use"}
    BY <1>2 DEF Get, Open, PutIfFresh, PutRefused, UseClosed, RemoveIf, Use
  <2> QED BY <1>2, <1>k, <2>1, AnyLocals
<1>3. ASSUME NEW d \in Conns, DropW(d) \/ DropR(d) \/ CloseDropped(d) PROVE Same
  <2>1. CASE d # c BY <1>3, <2>1, <1>m, DropLocals
  <2>2. ASSUME NEW l, NEW q, Sets(c, l, q), Keeps(q, req[c]), d = c,
               \A t \in Conns \ q.todo : t \notin req[c].todo \/ entry'[<<t, "w">>] = Nil
        PROVE  Same
    <3>1. req'[c] = q BY <2>2 DEF Sets, TypeOK
    <3>2. q.kind = req[c].kind /\ q.before = req[c].before /\ q.cut = req[c].cut
      BY <2>2 DEF Keeps
    <3> QED BY <2>2, <3>1, <3>2 DEF Same
  <2>3. CASE d = c /\ DropW(c)
    <3>1. PICK t, q :
              /\ t \in req[c].todo
              /\ entry' = [entry EXCEPT ![<<t, "w">>] = Nil]
              /\ Keeps(q, req[c]) /\ q.todo = req[c].todo \ {t}
              /\ Sets(c, IF q.fd = Nil THEN "dropr" ELSE "closew", q)
      BY <2>3, DropLocals
    <3>2. <<t, "w">> \in Caches BY <3>1 DEF TypeOK, Requests, Caches, Kinds
    <3>3. entry'[<<t, "w">>] = Nil BY <3>1, <3>2 DEF TypeOK
    <3>4. \A u \in Conns \ q.todo : u \notin req[c].todo \/ u = t BY <3>1
    <3>5. \A u \in Conns \ q.todo : u \notin req[c].todo \/ entry'[<<u, "w">>] = Nil
      BY <3>3, <3>4
    <3> QED BY <2>2, <2>3, <3>1, <3>5
  <2>4. CASE d = c /\ (DropR(c) \/ CloseDropped(c))
    <3>1. \E l, q : Keeps(q, req[c]) /\ q.todo = req[c].todo /\ Sets(c, l, q) BY <2>4, DropLocals
    <3> QED BY <2>2, <2>4, <3>1
  <2> QED BY <1>3, <2>1, <2>3, <2>4
<1>4. ASSUME NEW d \in Conns, Advances(d) PROVE Goal
  <2>1. CASE Return(d) BY <1>0, <1>n, <1>m, <2>1
  <2>2. ASSUME NEW l, NEW q, Moves(d, l, q) PROVE Goal
    <3>1. Sets(d, l, q) BY <2>2 DEF Moves, Sets
    <3>2. CASE d # c BY <1>m, <3>1, <3>2
    <3>3. CASE d = c
      <4>1. req'[c] = q BY <3>1, <3>3 DEF Sets, TypeOK
      <4> QED BY <1>4, <2>2, <3>3, <4>1
    <3> QED BY <3>2, <3>3
  <2> QED BY <1>4, <2>1, <2>2, Advance
<1>5. ASSUME UNCHANGED req PROVE Same BY <1>5, <1>s
<1>6. Goal BY <1>1, <1>2, <1>3, <1>4, <1>5 DEF Next, Advances, Evict, Sync, CloseEvicted
<1> QED BY <1>6 DEF Same

\* What is acknowledged before a change is in no write cache its drop has passed, and
\* once the change has cut the file only the WRITEs in raced come back.
LEMMA CutStep ==
  ASSUME TypeOK, ControlInv, OwnerInv, SentInv, BufferInv, CutInv, Next
  PROVE  CutInv'
<1> USE DEF fdVars, cacheVars, boundVars, histVars
<1>a. \A c \in Conns : \A w \in req[c].before : w \in acked BY DEF SentInv
<1>r. \A c \in Conns : req[c].kind = "change" /\ req[c].cut =>
         \A w \in req[c].before : Alive(w)' => w \in raced'
  BY <1>a, AliveStep, RacedStep DEF CutInv
<1>1. ASSUME NEW w \in dead', Alive(w)' PROVE w \in raced'
  <2>1. CASE w \in dead
    <3>1. w \in acked BY <2>1 DEF SentInv
    <3> QED BY <1>1, <2>1, <3>1, AliveStep, RacedStep DEF CutInv
  <2> QED BY <1>1, <1>r, <2>1, DeadStep
<1>2. ASSUME NEW c \in Conns, req'[c].kind = "change", NEW t \in Conns \ req'[c].todo,
             NEW h \in Fds, entry'[<<t, "w">>] = h, NEW w \in fbuf'[h]
      PROVE  w \notin req'[c].before
  <2>x. <<t, "w">> \in Caches BY DEF Caches, Kinds
  <2>1. entry[<<t, "w">>] = h BY <1>2, <2>x, EntryStep
  <2>2. ASSUME req[c].kind = "change", t \notin req[c].todo, req'[c].before = req[c].before,
               w \in req'[c].before
        PROVE  FALSE
    <3>1. w \in fbuf[h] BY <1>2, <1>a, <2>2, AliveStep
    <3> QED BY <2>1, <2>2, <3>1 DEF CutInv
  <2>3. ASSUME Advances(c), NEW l, NEW q, Moves(c, l, q), req'[c] = q
        PROVE  req[c].kind = "change" /\ t \notin req[c].todo /\ req'[c].before = req[c].before
    <3>1. l # "drop" BY <1>2, <2>3 DEF Moves
    <3>2. pc[c] # "idle" /\ req[c].todo = {} /\ q.before = req[c].before BY <2>3, <3>1 DEF Moves
    <3>3. pc[c] \in {"drop"} \cup Applying BY <2>3, <3>2, Advance
    <3> QED BY <2>3, <3>2, <3>3 DEF ControlInv, Control, Dropping
  <2> QED BY <1>2, <2>2, <2>3, FdNil, ChangeStep
<1>3. ASSUME NEW c \in Conns, req'[c].kind = "change", req'[c].cut,
             NEW w \in req'[c].before, Alive(w)'
      PROVE  w \in raced'
  <2>1. ASSUME Advances(c), NEW l, NEW q, Moves(c, l, q), req'[c] = q PROVE w \in raced'
    <3>1. pc[c] # "idle" /\ q.before = req[c].before BY <1>3, <2>1 DEF Moves
    <3>2. pc[c] \in {"drop"} \cup Applying BY <2>1, <3>1, Advance
    <3>3. req[c].kind = "change" BY <3>2 DEF ControlInv, Control, Dropping
    <3>4. CASE req[c].cut BY <1>3, <1>r, <2>1, <3>1, <3>3, <3>4
    <3>5. CASE Cut /\ req[c].todo = {}
      <4>1. fbuf' = fbuf /\ content' = {} BY <2>1, <3>5, Advance DEF Cut
      <4>2. PICK h \in Fds : w \in fbuf[h] BY <1>3, <4>1 DEF Alive
      <4>3. \A t \in Conns : entry[<<t, "w">>] # h
        BY <1>3, <2>1, <3>1, <3>3, <3>5, <4>2 DEF CutInv
      <4>4. h \in Detached BY <4>2, <4>3 DEF BufferInv, Buffering
      <4> QED BY <3>5, <4>2, <4>4 DEF Cut
    <3> QED BY <1>3, <2>1, <3>4, <3>5 DEF Moves
  <2> QED BY <1>3, <1>r, <2>1, ChangeStep
<1> QED BY <1>1, <1>2, <1>3 DEF CutInv, Alive

-----------------------------------------------------------------------------
(* The theorems.                                                           *)

\* Before the first request no fd is open and nothing was acknowledged.
LEMMA InitIInv == Init => IInv
<1> SUFFICES ASSUME Init PROVE IInv OBVIOUS
<1> USE DEF Init
<1>r. NoReq \in Requests /\ NoReq.kind = "none" /\ NoReq.floor = 0 /\ NoReq.ver = 0
      /\ NoReq.before = {}
  <2>1. <<>> \in Seq(Stages) /\ 0 \in 0..1 /\ 0 \in Nat BY SMT
  <2> QED BY <2>1 DEF NoReq, Requests
<1>q. \A c \in Conns : pc[c] = "idle" /\ req[c] = NoReq OBVIOUS
<1>x. \A x \in Caches : x[1] \in Conns BY SMT DEF Caches
<1>1. TypeOK
  <2>1. 0 \in Nat BY SMT
  <2> QED BY <1>r, <2>1 DEF TypeOK
<1>2. ControlInv BY <1>r, <1>q DEF ControlInv, Control, Dropping, Applying
<1>3. OwnerInv /\ FdOwned BY <1>q, FdNil DEF OwnerInv, SoleOwner, FdOwned, IsOpen, Holds
<1>4. SentInv BY <1>r, <1>q DEF SentInv
<1>5. VersionInv
  <2>1. 0 <= 0 BY SMT
  <2> QED BY <1>r, <1>q, <2>1 DEF VersionInv
<1>6. FreshInv BY <1>q, <1>x, FdNil DEF FreshInv, Serves
<1>7. BufferInv BY <1>q DEF BufferInv
<1>8. CutInv BY <1>r, <1>q DEF CutInv
<1> QED BY <1>1, <1>2, <1>3, <1>4, <1>5, <1>6, <1>7, <1>8 DEF IInv

\* Steps that change nothing.
LEMMA StutterIInv ==
  ASSUME IInv, UNCHANGED vars
  PROVE  IInv'
<1> USE DEF vars, fdVars, cacheVars, boundVars, histVars
<1>1. TypeOK' BY DEF IInv, TypeOK
<1>2. ControlInv' BY DEF IInv, ControlInv
<1>3. OwnerInv' /\ FdOwned'
  BY DEF IInv, OwnerInv, SoleOwner, FdOwned, IsOpen, Owned, Holds
<1>4. SentInv' BY DEF IInv, SentInv
<1>5. VersionInv' BY DEF IInv, VersionInv, Own
<1>6. FreshInv' BY DEF IInv, FreshInv, Serves, Visited
<1>7. BufferInv' BY ZenonT(40) DEF IInv, BufferInv, Buffering, Detached
<1>8. CutInv' BY DEF IInv, CutInv, Alive
<1> QED BY <1>1, <1>2, <1>3, <1>4, <1>5, <1>6, <1>7, <1>8 DEF IInv

\* The inductive invariant holds of every reachable state.
LEMMA Invariance == Spec => []IInv
<1>1. IInv /\ [Next]_vars => IInv'
  <2> SUFFICES ASSUME IInv, [Next]_vars PROVE IInv' OBVIOUS
  <2>1. CASE UNCHANGED vars BY <2>1, StutterIInv
  <2>2. CASE Next
    <3>1. /\ TypeOK /\ ControlInv /\ OwnerInv /\ FdOwned /\ SentInv /\ VersionInv /\ FreshInv
          /\ BufferInv /\ CutInv
      BY DEF IInv
    <3>2. TypeOK' /\ ControlInv' BY <2>2, <3>1, TypeStep, ControlStep
    <3>3. OwnerInv' /\ FdOwned' BY <2>2, <3>1, OwnerStep
    <3>4. SentInv' BY <2>2, <3>1, SentStep
    <3>5. VersionInv' BY <2>2, <3>1, VersionStep
    <3>6. FreshInv' BY <2>2, <3>1, FreshStep
    <3>7. BufferInv' BY <2>2, <3>1, BufferStep
    <3>8. CutInv' BY <2>2, <3>1, CutStep
    <3> QED BY <3>2, <3>3, <3>4, <3>5, <3>6, <3>7, <3>8 DEF IInv
  <2> QED BY <2>1, <2>2
<1> QED BY <1>1, InitIInv, PTL DEF Spec

\* The caches, the requests and the fds keep their types, whatever the workload.
THEOREM TypeCorrect == Spec => []TypeOK
<1>1. IInv => TypeOK BY DEF IInv
<1> QED BY <1>1, Invariance, PTL

\* No fd leaks: an open fd is in a cache, being closed, or with the goroutine that
\* opened it (removeIf, invalidate, putIfFresh).
THEOREM FdsOwned == Spec => []FdOwned
<1>1. IInv => FdOwned BY DEF IInv
<1> QED BY <1>1, Invariance, PTL

\* No READ or WRITE sent after a SETATTR or CREATE replied OK uses an fd opened before
\* that change.
THEOREM UsesAreFresh == Spec => []FreshUse
<1>1. IInv => FreshUse BY DEF IInv, VersionInv, FreshUse
<1> QED BY <1>1, Invariance, PTL

\* What a truncation cut comes back only from an fd that was detached, and not yet
\* closed, while the file was cut.
THEOREM CutsAreFinal == Spec => []CutIsFinal
<1>1. IInv => CutIsFinal BY DEF IInv, CutInv, Alive, CutIsFinal
<1> QED BY <1>1, Invariance, PTL

=============================================================================
