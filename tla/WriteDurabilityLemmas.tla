----------------------- MODULE WriteDurabilityLemmas ------------------------
(***************************************************************************)
(* Lemmas about WriteDurability: requests, types and control, and the life *)
(* of an fd.  WriteDurabilityProofs goes on with the data of WRITEs and    *)
(* has the theorems.                                                       *)
(*                                                                         *)
(* Leaves are for Zenon; those it does not find, mostly records and finite *)
(* sets of strings, are for SMT.                                           *)
(***************************************************************************)
EXTENDS WriteDurability, TLAPS

USE Zenon

-----------------------------------------------------------------------------
(* Requests, types and control.  The locals of a request stay well typed   *)
(* (ReqTypeStep), it keeps its operation, file and id until it is answered *)
(* (KeepsOp), and its connection is not drained (PhaseKept).  Types and    *)
(* control locations are preserved by every step: TypeStep, ControlStep.   *)

\* The locals of an idle connection are well typed.
LEMMA NoReqType == NoReq \in Requests
BY SMT, NilAssumption DEF NoReq, Requests

\* Assigning one local a value of its type keeps a request well typed.
LEMMA FieldType ==
  ASSUME NEW r \in Requests
  PROVE  /\ \A h \in Handles \cup {Nil} : [r EXCEPT !.h = h] \in Requests
         /\ \A n \in Nat : [r EXCEPT !.gen = n] \in Requests
         /\ \A n \in 0..1 : [r EXCEPT !.tries = n] \in Requests
         /\ \A T \in SUBSET Conns : [r EXCEPT !.todo = T] \in Requests
         /\ \A t \in Conns \cup {Nil} : [r EXCEPT !.tgt = t] \in Requests
         /\ \A b \in BOOLEAN : [r EXCEPT !.found = b] \in Requests
         /\ \A b \in BOOLEAN : [r EXCEPT !.err = b] \in Requests
BY SMT DEF Requests

\* The same for the operation of a request.
LEMMA OpType ==
  ASSUME NEW r \in Requests, NEW op \in {"unstable", "stable", "commit", "read", "drop"}
  PROVE  [r EXCEPT !.op = op] \in Requests
BY DEF Requests

\* The same for its file handle.
LEMMA KeyType ==
  ASSUME NEW r \in Requests, NEW k \in Keys
  PROVE  [r EXCEPT !.key = k] \in Requests
BY DEF Requests

\* The same for the id of its WRITE.
LEMMA IdType ==
  ASSUME NEW r \in Requests, NEW w \in Writes
  PROVE  [r EXCEPT !.w = w] \in Requests
BY DEF Requests

\* The same for the WRITEs it has to cover.
LEMMA SnapType ==
  ASSUME NEW r \in Requests, NEW S \in SUBSET Writes
  PROVE  [r EXCEPT !.snap = S] \in Requests
BY DEF Requests

\* The locals a WRITE begins with (StartWrite) are well typed.
LEMMA NewWriteType ==
  ASSUME NEW op \in {"unstable", "stable"}, NEW k \in Keys, NEW w \in Writes
  PROVE  [NoReq EXCEPT !.op = op, !.key = k, !.w = w] \in Requests
<1> DEFINE r1 == [NoReq EXCEPT !.op = op]
           r2 == [r1 EXCEPT !.key = k]
           r3 == [r2 EXCEPT !.w = w]
<1>1. r1 \in Requests
  BY NoReqType, OpType
<1>2. r2 \in Requests
  BY <1>1, KeyType
<1>3. r3 \in Requests
  BY <1>2, IdType
<1> QED
  BY <1>3

\* The locals a COMMIT, READ or drop begins with (StartBroadcast) are well typed.
LEMMA NewBroadcastType ==
  ASSUME NEW op \in {"commit", "read", "drop"}, NEW k \in Keys,
         NEW T \in SUBSET Conns, NEW S \in SUBSET Writes
  PROVE  [NoReq EXCEPT !.op = op, !.key = k, !.todo = T, !.snap = S] \in Requests
<1> DEFINE r1 == [NoReq EXCEPT !.op = op]
           r2 == [r1 EXCEPT !.key = k]
           r3 == [r2 EXCEPT !.todo = T]
           r4 == [r3 EXCEPT !.snap = S]
<1>1. r1 \in Requests
  BY NoReqType, OpType
<1>2. r2 \in Requests
  BY <1>1, KeyType
<1>3. r3 \in Requests
  BY <1>2, FieldType
<1>4. r4 \in Requests
  BY <1>3, SnapType
<1> QED
  BY <1>4

\* A returning handler leaves well-typed locals.
LEMMA ReturnType ==
  ASSUME TypeOK, NEW c \in Conns, Return(c)
  PROVE  pc' \in [Conns -> PCs] /\ req' \in [Conns -> Requests]
BY NoReqType DEF TypeOK, Return, Goto, PCs

\* So does another round of cachedWrite.
LEMMA RetryType ==
  ASSUME TypeOK, NEW c \in Conns, Retry(c)
  PROVE  pc' \in [Conns -> PCs] /\ req' \in [Conns -> Requests]
<1>1. [req[c] EXCEPT !.tries = 1] \in Requests
  <2>1. req[c] \in Requests /\ 1 \in 0..1
    BY SMT DEF TypeOK
  <2> QED
    BY <2>1, FieldType
<1>2. [[req[c] EXCEPT !.tries = 1] EXCEPT !.h = Nil] \in Requests
  BY <1>1, FieldType
<1> QED
  BY <1>2, ReturnType DEF TypeOK, Retry, Goto, PCs

\* So does the broadcast loop when it moves to another connection.
LEMMA NextConnType ==
  ASSUME TypeOK, NEW c \in Conns, NEW b \in BOOLEAN, NextConn(c, b)
  PROVE  pc' \in [Conns -> PCs] /\ req' \in [Conns -> Requests]
<1> DEFINE r1 == [req[c] EXCEPT !.todo = @ \ {req[c].tgt}]
           r2 == [r1 EXCEPT !.tgt = Nil]
           r3 == [r2 EXCEPT !.h = Nil]
           r4 == [r3 EXCEPT !.err = req[c].err \/ b]
<1>1. req[c] \in Requests /\ req[c].todo \subseteq Conns /\ req[c].err \in BOOLEAN
  BY DEF TypeOK, Requests
<1>2. r1 \in Requests
  BY <1>1, FieldType
<1>3. r2 \in Requests
  BY <1>2, FieldType
<1>4. r3 \in Requests
  BY <1>3, FieldType
<1>5. r4 \in Requests
  BY <1>1, <1>4, FieldType
<1>6. req' = [req EXCEPT ![c] = r4]
  BY <1>1 DEF NextConn, TypeOK
<1> QED
  BY SMT, <1>5, <1>6 DEF TypeOK, NextConn, Goto, PCs

\* Taking back unstable WRITEs keeps ack well typed.
LEMMA TellType ==
  ASSUME TypeOK, NEW c \in Conns, TellClient(c)
  PROVE  ack' \in [Writes -> Acks \cup {Nil}]
BY SMTT(30) DEF TypeOK, TellClient, Acks

\* Every step keeps the types of the request goroutines ...
LEMMA ReqTypeStep ==
  ASSUME IInv, Next
  PROVE  (pc \in [Conns -> PCs] /\ req \in [Conns -> Requests])'
<1>0. TypeOK /\ ControlInv
  BY DEF IInv
<1>1. ASSUME NEW c \in Conns, Connect(c) PROVE (pc \in [Conns -> PCs] /\ req \in [Conns -> Requests])'
  BY <1>0, <1>1 DEF Connect, TypeOK
<1>2. ASSUME NEW c \in Conns, Drain(c) PROVE (pc \in [Conns -> PCs] /\ req \in [Conns -> Requests])'
  BY <1>0, <1>2 DEF Drain, TypeOK
<1>3. ASSUME NEW c \in Conns, Unregister(c) PROVE (pc \in [Conns -> PCs] /\ req \in [Conns -> Requests])'
  BY <1>0, <1>3 DEF Unregister, TypeOK
<1>4. ASSUME NEW c \in Conns, SweepIdle(c) PROVE (pc \in [Conns -> PCs] /\ req \in [Conns -> Requests])'
  BY <1>0, <1>4 DEF SweepIdle, TypeOK
<1>5. ASSUME NEW c \in Conns, NEW w \in Writes, NEW how \in {"unstable", "stable"},
             StartWrite(c, w, how) PROVE (pc \in [Conns -> PCs] /\ req \in [Conns -> Requests])'
  BY <1>0, <1>5, NewWriteType, KeyOfAssumption DEF StartWrite, TypeOK, Goto, PCs
<1>6. ASSUME NEW c \in Conns, NEW k \in Keys, NEW op \in {"commit", "read", "drop"},
             StartBroadcast(c, k, op) PROVE (pc \in [Conns -> PCs] /\ req \in [Conns -> Requests])'
  <2> DEFINE S == IF op = "drop" THEN {} ELSE {w \in Writes : ack[w] # Nil /\ KeyOf[w] = k}
  <2>1. [NoReq EXCEPT !.op = op, !.key = k, !.todo = Registered, !.snap = S] \in Requests
    BY NewBroadcastType, Registered \in SUBSET Conns, S \in SUBSET Writes DEF Registered
  <2> QED
    BY <1>0, <1>6, <2>1 DEF StartBroadcast, TypeOK, Goto, PCs
<1>7. ASSUME NEW c \in Conns, Lookup(c) PROVE (pc \in [Conns -> PCs] /\ req \in [Conns -> Requests])'
  <2>1. req[c] \in Requests /\ gen[c] \in Nat /\ entries[c][req[c].key] \in Handles \cup {Nil}
    BY SMT, <1>0, <1>7 DEF Lookup, TypeOK, ControlInv
  <2>2. /\ [req[c] EXCEPT !.gen = gen[c]] \in Requests
        /\ [req[c] EXCEPT !.h = entries[c][req[c].key]] \in Requests
    BY <2>1, FieldType
  <2>3. \/ req' = [req EXCEPT ![c] = [req[c] EXCEPT !.gen = gen[c]]]
        \/ req' = [req EXCEPT ![c] = [req[c] EXCEPT !.h = entries[c][req[c].key]]]
    BY <1>0, <1>7 DEF Lookup, TypeOK
  <2>4. req' \in [Conns -> Requests]
    BY <1>0, <2>2, <2>3 DEF TypeOK
  <2> QED
    BY SMT, <1>0, <1>7, <2>4 DEF Lookup, TypeOK, Goto, PCs
<1>8. ASSUME NEW c \in Conns, OpenFile(c) PROVE (pc \in [Conns -> PCs] /\ req \in [Conns -> Requests])'
  <2>1. req[c] \in Requests
    BY <1>0 DEF TypeOK
  <2>2. CASE \E h \in Handles : req' = [req EXCEPT ![c].h = h] /\ Goto(c, "publish")
    <3>1. PICK h \in Handles : req' = [req EXCEPT ![c].h = h] /\ Goto(c, "publish")
      BY <2>2
    <3>2. [req[c] EXCEPT !.h = h] \in Requests
      BY <2>1, FieldType
    <3> QED
      BY <1>0, <3>1, <3>2 DEF TypeOK, Goto, PCs
  <2> QED
    BY <1>0, <1>8, <2>2, ReturnType DEF OpenFile
<1>9. ASSUME NEW c \in Conns, PutIfFresh(c) PROVE (pc \in [Conns -> PCs] /\ req \in [Conns -> Requests])'
  BY <1>0, <1>9 DEF PutIfFresh, TypeOK, Goto, PCs
<1>10. ASSUME NEW c \in Conns, PutRefused(c) PROVE (pc \in [Conns -> PCs] /\ req \in [Conns -> Requests])'
  BY <1>0, <1>10, RetryType DEF PutRefused, TypeOK
<1>11. ASSUME NEW c \in Conns, WriteAtClosed(c) PROVE (pc \in [Conns -> PCs] /\ req \in [Conns -> Requests])'
  BY <1>0, <1>11, RetryType DEF WriteAtClosed, TypeOK
<1>12. ASSUME NEW c \in Conns, WriteAt(c) PROVE (pc \in [Conns -> PCs] /\ req \in [Conns -> Requests])'
  BY <1>0, <1>12, ReturnType DEF WriteAt, TypeOK, Goto, PCs
<1>13. ASSUME NEW c \in Conns, StableSync(c) PROVE (pc \in [Conns -> PCs] /\ req \in [Conns -> Requests])'
  BY <1>0, <1>13, ReturnType DEF StableSync, TypeOK, Goto, PCs
<1>14. ASSUME NEW c \in Conns, StableDetach(c) PROVE (pc \in [Conns -> PCs] /\ req \in [Conns -> Requests])'
  BY ZenonT(40), <1>0, <1>14 DEF StableDetach, TypeOK, Goto, PCs
<1>15. ASSUME NEW c \in Conns, StableClosed(c) PROVE (pc \in [Conns -> PCs] /\ req \in [Conns -> Requests])'
  BY <1>0, <1>15, ReturnType DEF StableClosed, TypeOK, Goto, PCs
<1>16. ASSUME NEW c \in Conns, Wait(c) PROVE (pc \in [Conns -> PCs] /\ req \in [Conns -> Requests])'
  BY ZenonT(40), <1>0, <1>16, ReturnType DEF Wait, TypeOK, Goto, PCs
<1>17. ASSUME NEW c \in Conns, WriteReply(c) PROVE (pc \in [Conns -> PCs] /\ req \in [Conns -> Requests])'
  BY <1>0, <1>17, ReturnType DEF WriteReply, TypeOK
<1>18. ASSUME NEW c \in Conns, CommitGet(c) PROVE (pc \in [Conns -> PCs] /\ req \in [Conns -> Requests])'
  <2>1. PICK t \in req[c].todo :
          LET h == entries[t][req[c].key] IN
          IF h = Nil
          THEN req' = [req EXCEPT ![c].todo = @ \ {t}] /\ UNCHANGED pc
          ELSE /\ req' = [req EXCEPT ![c].tgt = t, ![c].h = h, ![c].found = TRUE]
               /\ Goto(c, "vsync")
    BY <1>0, <1>18 DEF CommitGet
  <2>2. req[c] \in Requests /\ req[c].todo \in SUBSET Conns
    BY <1>0 DEF TypeOK, Requests
  <2>3. entries[t][req[c].key] \in Handles \cup {Nil}
    BY SMT, <1>0, <1>18, <2>2 DEF CommitGet, TypeOK, ControlInv
  <2> DEFINE r1 == [req[c] EXCEPT !.tgt = t]
             r2 == [r1 EXCEPT !.h = entries[t][req[c].key]]
             r3 == [r2 EXCEPT !.found = TRUE]
  <2>4. [req[c] EXCEPT !.todo = @ \ {t}] \in Requests
    BY <2>2, req[c].todo \ {t} \in SUBSET Conns, FieldType
  <2>5. r1 \in Requests
    BY <2>2, FieldType
  <2>6. r2 \in Requests
    BY <2>3, <2>5, FieldType
  <2>7. r3 \in Requests
    BY <2>6, TRUE \in BOOLEAN, FieldType
  <2>8. req' = [req EXCEPT ![c] = [req[c] EXCEPT !.todo = @ \ {t}]] \/ req' = [req EXCEPT ![c] = r3]
    BY <1>0, <2>1, <2>2 DEF TypeOK
  <2>9. req' \in [Conns -> Requests]
    BY <1>0, <2>4, <2>7, <2>8 DEF TypeOK
  <2> QED
    BY <1>0, <2>1, <2>9 DEF TypeOK, Goto, PCs
<1>19. ASSUME NEW c \in Conns, ReadGet(c) PROVE (pc \in [Conns -> PCs] /\ req \in [Conns -> Requests])'
  <2>1. PICK t \in req[c].todo :
          LET h == entries[t][req[c].key] IN
          \/ /\ t \notin wc
             /\ req' = [req EXCEPT ![c].todo = @ \ {t}] /\ UNCHANGED pc
          \/ /\ t \in wc
             /\ req' = [req EXCEPT ![c].tgt = t, ![c].h = h]
             /\ Goto(c, IF h = Nil THEN "vawait" ELSE "vsync")
    BY <1>0, <1>19 DEF ReadGet
  <2>2. req[c] \in Requests /\ req[c].todo \in SUBSET Conns
    BY <1>0 DEF TypeOK, Requests
  <2>3. entries[t][req[c].key] \in Handles \cup {Nil}
    BY SMT, <1>0, <1>19, <2>2 DEF ReadGet, TypeOK, ControlInv
  <2> DEFINE r1 == [req[c] EXCEPT !.tgt = t]
             r2 == [r1 EXCEPT !.h = entries[t][req[c].key]]
  <2>4. [req[c] EXCEPT !.todo = @ \ {t}] \in Requests
    BY <2>2, req[c].todo \ {t} \in SUBSET Conns, FieldType
  <2>5. r1 \in Requests
    BY <2>2, FieldType
  <2>6. r2 \in Requests
    BY <2>3, <2>5, FieldType
  <2>7. req' = [req EXCEPT ![c] = [req[c] EXCEPT !.todo = @ \ {t}]] \/ req' = [req EXCEPT ![c] = r2]
    BY <1>0, <2>1, <2>2 DEF TypeOK
  <2>8. req' \in [Conns -> Requests]
    BY <1>0, <2>4, <2>6, <2>7 DEF TypeOK
  <2> QED
    BY <1>0, <2>1, <2>8 DEF TypeOK, Goto, PCs
<1>20. ASSUME NEW c \in Conns, VisitSync(c) PROVE (pc \in [Conns -> PCs] /\ req \in [Conns -> Requests])'
  BY <1>0, <1>20, NextConnType DEF VisitSync, TypeOK, Goto, PCs
<1>21. ASSUME NEW c \in Conns, VisitDetach(c) PROVE (pc \in [Conns -> PCs] /\ req \in [Conns -> Requests])'
  BY <1>0, <1>21, NextConnType DEF VisitDetach, TypeOK, Goto, PCs
<1>22. ASSUME NEW c \in Conns, VisitClosed(c) PROVE (pc \in [Conns -> PCs] /\ req \in [Conns -> Requests])'
  BY <1>0, <1>22, NextConnType DEF VisitClosed, TypeOK
<1>23. ASSUME NEW c \in Conns, VisitAwait(c) PROVE (pc \in [Conns -> PCs] /\ req \in [Conns -> Requests])'
  <2>1. NextConn(c, req[c].key \in errs)
    BY <1>23 DEF VisitAwait
  <2>2. (req[c].key \in errs) \in BOOLEAN
    BY SMT
  <2> QED
    BY <1>0, <2>1, <2>2, NextConnType
<1>24. ASSUME NEW c \in Conns, DropConn(c) PROVE (pc \in [Conns -> PCs] /\ req \in [Conns -> Requests])'
  <2>1. PICK t \in req[c].todo : req' = [req EXCEPT ![c].todo = @ \ {t}]
    BY <1>0, <1>24 DEF DropConn
  <2>2. req[c] \in Requests /\ req[c].todo \in SUBSET Conns
    BY <1>0 DEF TypeOK, Requests
  <2>3. [req[c] EXCEPT !.todo = @ \ {t}] \in Requests
    BY <2>2, req[c].todo \ {t} \in SUBSET Conns, FieldType
  <2> QED
    BY <1>0, <1>24, <2>1, <2>3 DEF DropConn, TypeOK
<1>25. ASSUME NEW c \in Conns, VisitDone(c) PROVE (pc \in [Conns -> PCs] /\ req \in [Conns -> Requests])'
  BY <1>0, <1>25, ReturnType DEF VisitDone, TypeOK, Goto, PCs
<1>26. ASSUME NEW c \in Conns, ReadAwait(c) PROVE (pc \in [Conns -> PCs] /\ req \in [Conns -> Requests])'
  BY <1>0, <1>26, ReturnType DEF ReadAwait, TypeOK
<1>27. ASSUME NEW c \in Conns, CommitByPath(c) PROVE (pc \in [Conns -> PCs] /\ req \in [Conns -> Requests])'
  BY <1>0, <1>27, ReturnType DEF CommitByPath, TypeOK, Goto, PCs
<1>28. ASSUME NEW c \in Conns, CommitReply(c) PROVE (pc \in [Conns -> PCs] /\ req \in [Conns -> Requests])'
  BY <1>0, <1>28, ReturnType DEF CommitReply, TypeOK
<1>29. ASSUME NEW h \in Handles, EvictFlush(h) PROVE (pc \in [Conns -> PCs] /\ req \in [Conns -> Requests])'
  <2>1. \A c \in Conns : [req[c] EXCEPT !.err = TRUE] \in Requests
    BY TRUE \in BOOLEAN, FieldType, <1>0 DEF TypeOK
  <2> QED
    BY SMT, <1>0, <1>29, <2>1 DEF EvictFlush, TypeOK
<1>30. ASSUME NEW h \in Handles, Finish(h) PROVE (pc \in [Conns -> PCs] /\ req \in [Conns -> Requests])'
  BY <1>0, <1>30 DEF Finish, TypeOK
<1>31. ASSUME NEW h \in Handles, FireLoss(h) PROVE (pc \in [Conns -> PCs] /\ req \in [Conns -> Requests])'
  BY <1>0, <1>31 DEF FireLoss, TypeOK
<1> QED
  BY <1>1, <1>2, <1>3, <1>4, <1>5, <1>6, <1>7, <1>8, <1>9, <1>10, <1>11, <1>12, <1>13, <1>14, <1>15, <1>16, <1>17, <1>18, <1>19, <1>20, <1>21, <1>22, <1>23, <1>24, <1>25, <1>26, <1>27, <1>28, <1>29, <1>30, <1>31
  DEF Next, Requesting, Serving, Flushing

-----------------------------------------------------------------------------
\* A connection is not drained while it serves a request.
LEMMA PhaseKept ==
  ASSUME IInv, Next, NEW d \in Conns, phase[d] = "up", pc[d] # "idle"
  PROVE  phase'[d] = "up"
<1> DEFINE Up == phase'[d] = "up"
<1>a. TypeOK /\ phase[d] = "up" /\ pc[d] # "idle"
  BY DEF IInv
<1> USE DEF TypeOK, cacheVars, fdVars, trackVars, flushVars, diskVars, replyVars
<1>1. ASSUME NEW c \in Conns, Connect(c) \/ Drain(c) \/ Unregister(c) \/ SweepIdle(c) PROVE Up
  BY <1>a, <1>1 DEF Connect, Drain, Unregister, SweepIdle
<1>2. ASSUME NEW c \in Conns, Requesting(c) PROVE Up
  BY <1>a, <1>2 DEF Requesting, StartWrite, StartBroadcast
<1>3. ASSUME NEW c \in Conns,
             Lookup(c) \/ OpenFile(c) \/ PutIfFresh(c) \/ PutRefused(c) \/ WriteAtClosed(c) \/ WriteAt(c) PROVE Up
  BY <1>a, <1>3 DEF Lookup, OpenFile, PutIfFresh, PutRefused, WriteAtClosed, WriteAt
<1>4. ASSUME NEW c \in Conns,
             StableSync(c) \/ StableDetach(c) \/ StableClosed(c) \/ Wait(c) \/ WriteReply(c) PROVE Up
  BY <1>a, <1>4 DEF StableSync, StableDetach, StableClosed, Wait, WriteReply
<1>5. ASSUME NEW c \in Conns,
             CommitGet(c) \/ ReadGet(c) \/ VisitSync(c) \/ VisitDetach(c) \/ VisitClosed(c) PROVE Up
  BY <1>a, <1>5 DEF CommitGet, ReadGet, VisitSync, VisitDetach, VisitClosed
<1>6. ASSUME NEW c \in Conns,
             VisitAwait(c) \/ DropConn(c) \/ VisitDone(c) \/ ReadAwait(c) \/ CommitByPath(c) \/ CommitReply(c) PROVE Up
  BY <1>a, <1>6 DEF VisitAwait, DropConn, VisitDone, ReadAwait, CommitByPath, CommitReply
<1>7. ASSUME NEW h \in Handles, EvictFlush(h) \/ Finish(h) \/ FireLoss(h) PROVE Up
  BY <1>a, <1>7 DEF EvictFlush, Finish, FireLoss
<1> HIDE DEF Up, TypeOK, cacheVars, fdVars, trackVars, flushVars, diskVars, replyVars
<1>z. Up
  BY <1>1, <1>2, <1>3, <1>4, <1>5, <1>6, <1>7 DEF Next, Serving, Flushing
<1> QED
  BY <1>z DEF Up

\* A request keeps its operation, file, id and snapshot until it is answered.
LEMMA KeepsOp ==
  ASSUME IInv, NEW c \in Conns, Serving(c)
  PROVE  \/ req'[c].op = "none" /\ pc'[c] = "idle"
         \/ /\ req'[c].op = req[c].op /\ req'[c].key = req[c].key
            /\ req'[c].w = req[c].w /\ req'[c].snap = req[c].snap
<1>1. pc \in [Conns -> PCs] /\ req \in [Conns -> Requests]
  BY DEF IInv, TypeOK
<1> USE <1>1
<1> DEFINE Keeps == /\ req'[c].op = req[c].op /\ req'[c].key = req[c].key
                    /\ req'[c].w = req[c].w /\ req'[c].snap = req[c].snap
<1>2. ASSUME NEW b \in BOOLEAN, NextConn(c, b) PROVE Keeps
  BY SMT, <1>2 DEF NextConn, Requests
<1>3. ASSUME Return(c) PROVE req'[c].op = "none" /\ pc'[c] = "idle"
  BY <1>3 DEF Return, Goto, NoReq
<1>4. CASE Lookup(c) \/ OpenFile(c) \/ PutIfFresh(c)
  BY SMT, <1>3, <1>4 DEF Lookup, OpenFile, PutIfFresh, Requests
<1>5. CASE PutRefused(c) \/ WriteAtClosed(c) \/ WriteAt(c)
  BY SMT, <1>3, <1>5 DEF PutRefused, WriteAtClosed, WriteAt, Retry, Requests
<1>6. CASE StableSync(c) \/ StableDetach(c) \/ StableClosed(c) \/ Wait(c) \/ WriteReply(c)
  BY <1>3, <1>6 DEF StableSync, StableDetach, StableClosed, Wait, WriteReply
<1>7. CASE CommitGet(c)
  <2>1. PICK t \in req[c].todo :
          \/ req' = [req EXCEPT ![c].todo = @ \ {t}]
          \/ req' = [req EXCEPT ![c].tgt = t, ![c].h = entries[t][req[c].key], ![c].found = TRUE]
    BY <1>7 DEF CommitGet
  <2> QED
    BY SMT, <2>1 DEF Requests
<1>8. CASE ReadGet(c)
  <2>1. PICK t \in req[c].todo :
          \/ req' = [req EXCEPT ![c].todo = @ \ {t}]
          \/ req' = [req EXCEPT ![c].tgt = t, ![c].h = entries[t][req[c].key]]
    BY <1>8 DEF ReadGet
  <2> QED
    BY SMT, <2>1 DEF Requests
<1>9. CASE VisitSync(c) \/ VisitDetach(c) \/ VisitClosed(c) \/ VisitAwait(c)
  <2>1. (req[c].key \in errs) \in BOOLEAN
    BY SMT
  <2>2. NextConn(c, FALSE) \/ NextConn(c, TRUE) \/ NextConn(c, req[c].key \in errs) \/ req' = req
    BY <1>9 DEF VisitSync, VisitDetach, VisitClosed, VisitAwait
  <2> QED
    BY <1>2, <2>1, <2>2
<1>10. CASE DropConn(c)
  BY SMT, <1>10 DEF DropConn, Requests
<1>11. CASE VisitDone(c) \/ ReadAwait(c) \/ CommitByPath(c) \/ CommitReply(c)
  BY <1>3, <1>11 DEF VisitDone, ReadAwait, CommitByPath, CommitReply
<1> QED
  BY <1>4, <1>5, <1>6, <1>7, <1>8, <1>9, <1>10, <1>11 DEF Serving

\* A WRITE that begins carries an id never sent before.
LEMMA StartedFresh ==
  ASSUME IInv, NEW d \in Conns, Requesting(d), req'[d].op \in {"unstable", "stable"}
  PROVE  /\ phase'[d] = "up" /\ d \in wc' /\ req'[d].w \in sent' \ sent /\ req'[d].w \in Writes
         /\ req'[d].key = KeyOf[req'[d].w] /\ pc'[d] = "lookup" /\ UNCHANGED <<buf, ack>>
<1>1. pc \in [Conns -> PCs] /\ req \in [Conns -> Requests]
  BY DEF IInv, TypeOK
<1>2. CASE \E k \in Keys, op \in {"commit", "read", "drop"} : StartBroadcast(d, k, op)
  <2>1. req'[d].op \in {"commit", "read", "drop"}
    BY SMT, <1>1, <1>2 DEF StartBroadcast, NoReq
  <2> QED
    BY <2>1
<1>3. CASE \E w \in Writes, how \in {"unstable", "stable"} : StartWrite(d, w, how)
  BY SMT, <1>1, <1>3 DEF StartWrite, Ready, NoReq, Goto, fdVars, replyVars
<1> QED
  BY <1>2, <1>3 DEF Requesting

-----------------------------------------------------------------------------
(* Types and control.                                                      *)

\* ... and all the others.
LEMMA TypeStep ==
  ASSUME IInv, Next
  PROVE  TypeOK'
<1> USE KeyOfAssumption, NilAssumption, BoundsAssumption
<1>a. TypeOK /\ ControlInv /\ MarkerInv
  BY DEF IInv
<1>b. (pc \in [Conns -> PCs] /\ req \in [Conns -> Requests])'
  BY ReqTypeStep
<1>e. entries \in [Conns -> [Keys -> Handles \cup {Nil}]] /\ \A c \in Conns : pc[c] # "idle" => req[c].key \in Keys
  BY <1>a DEF TypeOK, ControlInv
<1>f. /\ gen \in [Conns -> Nat] /\ pending \in [Keys -> SUBSET Handles]
      /\ flush \in [Handles -> {"none", "close", "finish", "rotate"}] /\ by \in [Handles -> Procs \cup {Nil}]
  BY <1>a DEF TypeOK
<1> USE DEF TypeOK, ControlInv, cacheVars, fdVars, trackVars, flushVars, diskVars, replyVars
<1>1. ASSUME NEW c \in Conns, Connect(c) PROVE TypeOK'
  BY <1>a, <1>b, <1>1 DEF Connect
<1>2. ASSUME NEW c \in Conns, Drain(c) PROVE TypeOK'
  BY SMT, <1>a, <1>b, <1>2 DEF Drain, Detach, Serve, Procs, CachedIn
<1>3. ASSUME NEW c \in Conns, Unregister(c) PROVE TypeOK'
  BY <1>a, <1>b, <1>3 DEF Unregister
<1>4. ASSUME NEW c \in Conns, SweepIdle(c) PROVE TypeOK'
  BY SMT, <1>a, <1>b, <1>4 DEF SweepIdle, Detach, Sweeper, Procs, CachedIn
<1>5. ASSUME NEW c \in Conns, NEW w \in Writes, NEW how \in {"unstable", "stable"},
             StartWrite(c, w, how) PROVE TypeOK'
  BY <1>a, <1>b, <1>5 DEF StartWrite
<1>6. ASSUME NEW c \in Conns, NEW k \in Keys, NEW op \in {"commit", "read", "drop"},
             StartBroadcast(c, k, op) PROVE TypeOK'
  BY SMT, <1>a, <1>b, <1>6 DEF StartBroadcast
<1>7. ASSUME NEW c \in Conns, Lookup(c) PROVE TypeOK'
  BY <1>a, <1>b, <1>7 DEF Lookup
<1>8. ASSUME NEW c \in Conns, OpenFile(c) PROVE TypeOK'
  <2>1. req[c].key \in Keys
    BY <1>a, <1>8 DEF OpenFile
  <2>2. hkey' \in [Handles -> Keys \cup {Nil}]
    BY <1>a, <1>8, <2>1 DEF OpenFile
  <2> QED
    BY <1>a, <1>b, <1>8, <2>2 DEF OpenFile
<1>9. ASSUME NEW c \in Conns, PutIfFresh(c) PROVE TypeOK'
  BY SMT, <1>a, <1>b, <1>9 DEF PutIfFresh, Detach, Serve, Procs, CachedIn
<1>10. ASSUME NEW c \in Conns, PutRefused(c) PROVE TypeOK'
  BY SMT, <1>a, <1>b, <1>10 DEF PutRefused
<1>11. ASSUME NEW c \in Conns, WriteAtClosed(c) PROVE TypeOK'
  <2>1. req[c].key \in Keys
    BY <1>e, <1>11 DEF WriteAtClosed
  <2>2. entries' = [entries EXCEPT ![c][req[c].key] = IF @ = req[c].h THEN Nil ELSE @]
    BY <1>11 DEF WriteAtClosed
  <2>3. entries' \in [Conns -> [Keys -> Handles \cup {Nil}]]
    BY <1>e, <2>1, <2>2
  <2> QED
    BY <1>a, <1>b, <1>11, <2>3 DEF WriteAtClosed
<1>12. ASSUME NEW c \in Conns, WriteAt(c) PROVE TypeOK'
  <2>1. req[c].h \in Handles /\ req[c].w \in Writes
    BY <1>a, <1>12 DEF WriteAt
  <2>2. \/ buf' = [buf EXCEPT ![req[c].h] = @ \cup {req[c].w}] /\ dirty' = dirty \cup {req[c].h}
        \/ UNCHANGED <<buf, dirty>>
    BY <1>12 DEF WriteAt
  <2>b. buf \in [Handles -> SUBSET Writes] /\ dirty \subseteq Handles
    BY <1>a
  <2>3. (buf \in [Handles -> SUBSET Writes] /\ dirty \subseteq Handles)'
    BY SMT, <2>b, <2>1, <2>2
  <2> QED
    BY <1>a, <1>b, <1>12, <2>3 DEF WriteAt
<1>13. ASSUME NEW c \in Conns, StableSync(c) PROVE TypeOK'
  <2>1. req[c].h \in Handles
    BY <1>a, <1>13 DEF StableSync
  <2>2. SyncFd(req[c].h) \/ UNCHANGED <<buf, dirty, durable>>
    BY <1>13 DEF StableSync
  <2>b. buf \in [Handles -> SUBSET Writes] /\ dirty \subseteq Handles /\ durable \subseteq Writes
    BY <1>a
  <2>3. (buf \in [Handles -> SUBSET Writes] /\ dirty \subseteq Handles /\ durable \subseteq Writes)'
    BY SMT, <2>b, <2>1, <2>2 DEF SyncFd
  <2> QED
    BY <1>a, <1>b, <1>13, <2>3 DEF StableSync
<1>14. ASSUME NEW c \in Conns, StableDetach(c) PROVE TypeOK'
  <2>1. req[c].key \in Keys
    BY <1>e, <1>14 DEF StableDetach
  <2>2. \/ UNCHANGED <<entries, pending, flushVars>>
        \/ /\ entries[c][req[c].key] # Nil /\ Detach({entries[c][req[c].key]}, Serve(c))
           /\ entries' = [entries EXCEPT ![c][req[c].key] = Nil]
    BY <1>14 DEF StableDetach
  <2>3. entries' \in [Conns -> [Keys -> Handles \cup {Nil}]]
    BY SMT, <1>e, <2>1, <2>2
  <2>4. (/\ pending \in [Keys -> SUBSET Handles]
         /\ flush \in [Handles -> {"none", "close", "finish", "rotate"}]
         /\ by \in [Handles -> Procs \cup {Nil}])'
    <3>1. Serve(c) \in Procs
      BY DEF Serve, Procs
    <3>2. entries[c][req[c].key] # Nil => {entries[c][req[c].key]} \subseteq Handles
      BY SMT, <1>e, <2>1
    <3>3. CASE UNCHANGED <<entries, pending, flushVars>>
      BY <1>a, <3>3
    <3>4. CASE entries[c][req[c].key] # Nil /\ Detach({entries[c][req[c].key]}, Serve(c))
      BY SMT, <1>a, <3>1, <3>2, <3>4 DEF Detach
    <3> QED
      BY <2>2, <3>3, <3>4
  <2> QED
    BY <1>a, <1>b, <1>14, <2>3, <2>4 DEF StableDetach
<1>15. ASSUME NEW c \in Conns, StableClosed(c) PROVE TypeOK'
  BY <1>a, <1>b, <1>15 DEF StableClosed
<1>16. ASSUME NEW c \in Conns, Wait(c) PROVE TypeOK'
  <2>1. /\ errs' = errs \ {req[c].key}
        /\ UNCHANGED <<phase, cacheVars, fdVars, pending, flushVars, verf, durable, lost,
                       sent, ops, committed, readOK, trusted, settled>>
    BY <1>16 DEF Wait
  <2>2. \/ reported' = reported \cup {w \in lost : KeyOf[w] = req[c].key}
        \/ reported' = reported
    BY <1>16 DEF Wait
  <2>3. TellClient(c) \/ ack' = ack
    BY <1>16 DEF Wait
  <2> QED
    BY <1>a, <1>b, <2>1, <2>2, <2>3, TellType
<1>17. ASSUME NEW c \in Conns, WriteReply(c) PROVE TypeOK'
  BY <1>a, <1>b, <1>17 DEF WriteReply, Acks
<1>18. ASSUME NEW c \in Conns, CommitGet(c) PROVE TypeOK'
  BY <1>a, <1>b, <1>18 DEF CommitGet
<1>19. ASSUME NEW c \in Conns, ReadGet(c) PROVE TypeOK'
  BY <1>a, <1>b, <1>19 DEF ReadGet
<1>20. ASSUME NEW c \in Conns, VisitSync(c) PROVE TypeOK'
  <2>1. req[c].h \in Handles
    BY <1>a, <1>20 DEF VisitSync
  <2>2. SyncFd(req[c].h) \/ UNCHANGED <<buf, dirty, durable>>
    BY <1>20 DEF VisitSync
  <2>b. buf \in [Handles -> SUBSET Writes] /\ dirty \subseteq Handles /\ durable \subseteq Writes
    BY <1>a
  <2>3. (buf \in [Handles -> SUBSET Writes] /\ dirty \subseteq Handles /\ durable \subseteq Writes)'
    BY SMT, <2>b, <2>1, <2>2 DEF SyncFd
  <2> QED
    BY <1>a, <1>b, <1>20, <2>3 DEF VisitSync
<1>21. ASSUME NEW c \in Conns, VisitDetach(c) PROVE TypeOK'
  <2> DEFINE d == entries[req[c].tgt][req[c].key]
  <2>1. \/ UNCHANGED <<entries, pending, flushVars>>
        \/ /\ d # Nil /\ Detach({d}, Serve(c))
           /\ entries' = [entries EXCEPT ![req[c].tgt][req[c].key] = Nil]
    BY <1>21 DEF VisitDetach
  <2>2. req[c].tgt \in Conns /\ req[c].key \in Keys
    BY <1>a, <1>21 DEF VisitDetach
  <2>3. (/\ entries \in [Conns -> [Keys -> Handles \cup {Nil}]]
         /\ pending \in [Keys -> SUBSET Handles]
         /\ flush \in [Handles -> {"none", "close", "finish", "rotate"}]
         /\ by \in [Handles -> Procs \cup {Nil}])'
    <3>1. CASE UNCHANGED <<entries, pending, flushVars>>
      BY <1>a, <3>1
    <3>2. CASE /\ d # Nil /\ Detach({d}, Serve(c))
               /\ entries' = [entries EXCEPT ![req[c].tgt][req[c].key] = Nil]
      <4>1. entries' \in [Conns -> [Keys -> Handles \cup {Nil}]]
        BY <1>e, <2>2, <3>2
      <4>2. {d} \subseteq Handles
        BY SMT, <1>e, <2>2, <3>2
      <4>3. Serve(c) \in Procs
        BY DEF Serve, Procs
      <4> QED
        BY <1>f, <3>2, <4>1, <4>2, <4>3 DEF Detach
    <3> QED
      BY <2>1, <3>1, <3>2
  <2> QED
    BY <1>a, <1>b, <1>21, <2>3 DEF VisitDetach
<1>22. ASSUME NEW c \in Conns, VisitClosed(c) PROVE TypeOK'
  BY <1>a, <1>b, <1>22 DEF VisitClosed
<1>23. ASSUME NEW c \in Conns, VisitAwait(c) PROVE TypeOK'
  BY <1>a, <1>b, <1>23 DEF VisitAwait
<1>24. ASSUME NEW c \in Conns, DropConn(c) PROVE TypeOK'
  <2>1. PICK t \in req[c].todo :
          /\ gen' = IF t \in wc THEN [gen EXCEPT ![t] = @ + 1] ELSE gen
          /\ Detach({entries[t][req[c].key]} \ {Nil}, Serve(c))
          /\ entries' = [entries EXCEPT ![t][req[c].key] = Nil]
    BY <1>24 DEF DropConn
  <2>2. t \in Conns /\ req[c].key \in Keys
    BY <1>a, <1>24 DEF DropConn, Requests
  <2>3. (/\ entries \in [Conns -> [Keys -> Handles \cup {Nil}]]
         /\ gen \in [Conns -> Nat]
         /\ pending \in [Keys -> SUBSET Handles]
         /\ flush \in [Handles -> {"none", "close", "finish", "rotate"}]
         /\ by \in [Handles -> Procs \cup {Nil}])'
    <3>1. entries' \in [Conns -> [Keys -> Handles \cup {Nil}]] /\ gen' \in [Conns -> Nat]
      BY SMT, <1>e, <1>f, <2>1, <2>2
    <3>2. {entries[t][req[c].key]} \ {Nil} \subseteq Handles
      BY SMT, <1>e, <2>2
    <3> QED
      BY SMT, <1>a, <2>1, <3>1, <3>2 DEF Detach, Serve, Procs
  <2> QED
    BY <1>a, <1>b, <1>24, <2>3 DEF DropConn
<1>25. ASSUME NEW c \in Conns, VisitDone(c) PROVE TypeOK'
  BY <1>a, <1>b, <1>25, TellType DEF VisitDone
<1>26. ASSUME NEW c \in Conns, ReadAwait(c) PROVE TypeOK'
  BY <1>a, <1>b, <1>26 DEF ReadAwait, Requests
<1>27. ASSUME NEW c \in Conns, CommitByPath(c) PROVE TypeOK'
  BY <1>a, <1>b, <1>27, TellType DEF CommitByPath
<1>28. ASSUME NEW c \in Conns, CommitReply(c) PROVE TypeOK'
  BY <1>a, <1>b, <1>28 DEF CommitReply, Requests
<1>29. ASSUME NEW h \in Handles, EvictFlush(h) PROVE TypeOK'
  BY <1>a, <1>b, <1>29 DEF EvictFlush
<1>30. ASSUME NEW h \in Handles, Finish(h) PROVE TypeOK'
  BY SMT, <1>a, <1>b, <1>30 DEF Finish, MarkerInv
<1>31. ASSUME NEW h \in Handles, FireLoss(h) PROVE TypeOK'
  <2>1. /\ UNCHANGED <<phase, cacheVars, fdVars, trackVars, diskVars, pc, req, sent, ops, replyVars>>
        /\ verf' = verf + 1
        /\ flush' = [flush EXCEPT ![h] = "none"] /\ by' = [by EXCEPT ![h] = Nil]
    BY <1>31 DEF FireLoss
  <2> QED
    BY SMT, <1>a, <1>b, <2>1 DEF Procs
<1> HIDE DEF TypeOK, ControlInv, cacheVars, fdVars, trackVars, flushVars, diskVars, replyVars
<1> QED
  BY SMT, <1>1, <1>2, <1>3, <1>4, <1>5, <1>6, <1>7, <1>8, <1>9, <1>10, <1>11, <1>12, <1>13, <1>14, <1>15, <1>16,
     <1>17, <1>18, <1>19, <1>20, <1>21, <1>22, <1>23, <1>24, <1>25, <1>26, <1>27, <1>28, <1>29, <1>30, <1>31
  DEF Next, Requesting, Serving, Flushing

\* Labels, operations and locals stay in step.
LEMMA ControlStep ==
  ASSUME IInv, Next
  PROVE  ControlInv'
<1> USE KeyOfAssumption, NilAssumption
<1>a. /\ ControlInv /\ pc \in [Conns -> PCs] /\ req \in [Conns -> Requests]
      /\ entries \in [Conns -> [Keys -> Handles \cup {Nil}]]
  BY DEF IInv, TypeOK
<1> USE DEF ControlInv, Requests
\* A request that ends leaves an idle connection.
<1>r. ASSUME NEW c \in Conns, Return(c) PROVE ControlInv'
  BY SMT, <1>a, <1>r DEF Return, NoReq, Goto
\* So does a broadcast that moves to another connection.
<1>t. ASSUME NEW c \in Conns, NEW t, pc[c] = "visit", UNCHANGED pc, req' = [req EXCEPT ![c].todo = @ \ {t}]
      PROVE  ControlInv'
  <2>1. \A d \in Conns \ {c} : req'[d] = req[d]
    BY SMT, <1>a, <1>t
  <2>2. /\ req'[c].op = req[c].op /\ req'[c].key = req[c].key /\ req'[c].w = req[c].w
        /\ req'[c].h = req[c].h /\ req'[c].tgt = req[c].tgt /\ req'[c].err = req[c].err
    BY SMT, <1>a, <1>t
  <2>3. ControlInv
    BY <1>a
  <2> HIDE DEF Requests
  <2> QED
    BY SMT, <1>t, <2>1, <2>2, <2>3
<1>1. ASSUME NEW c \in Conns, Connect(c) PROVE ControlInv'
  BY SMT, <1>a, <1>1 DEF Connect
<1>2. ASSUME NEW c \in Conns, Drain(c) PROVE ControlInv'
  BY SMT, <1>a, <1>2 DEF Drain
<1>3. ASSUME NEW c \in Conns, Unregister(c) PROVE ControlInv'
  BY SMT, <1>a, <1>3 DEF Unregister
<1>4. ASSUME NEW c \in Conns, SweepIdle(c) PROVE ControlInv'
  BY SMT, <1>a, <1>4 DEF SweepIdle
<1>5. ASSUME NEW c \in Conns, NEW w \in Writes, NEW how \in {"unstable", "stable"},
             StartWrite(c, w, how) PROVE ControlInv'
  BY SMT, <1>a, <1>5 DEF StartWrite, NoReq, Goto
<1>6. ASSUME NEW c \in Conns, NEW k \in Keys, NEW op \in {"commit", "read", "drop"},
             StartBroadcast(c, k, op) PROVE ControlInv'
  BY SMT, <1>a, <1>6 DEF StartBroadcast, NoReq, Goto, Registered
<1>7. ASSUME NEW c \in Conns, Lookup(c) PROVE ControlInv'
  <2>1. req[c].key \in Keys /\ entries[c][req[c].key] \in Handles \cup {Nil}
    BY SMT, <1>a, <1>7 DEF Lookup
  <2>2. /\ pc[c] = "lookup" /\ req'[c].op = req[c].op /\ req'[c].key = req[c].key
        /\ req'[c].w = req[c].w /\ req'[c].todo = req[c].todo /\ req'[c].err = req[c].err
        /\ pc'[c] = "open" \/ (pc'[c] = "write" /\ req'[c].h \in Handles)
    <3>1. CASE entries[c][req[c].key] = Nil
      <4>1. pc[c] = "lookup" /\ Goto(c, "open") /\ req' = [req EXCEPT ![c].gen = gen[c]]
        BY <1>7, <3>1 DEF Lookup
      <4> QED
        BY SMT, <1>a, <4>1 DEF Goto
    <3>2. CASE entries[c][req[c].key] \in Handles
      <4>1. /\ pc[c] = "lookup" /\ Goto(c, "write")
            /\ req' = [req EXCEPT ![c].h = entries[c][req[c].key]]
        BY <1>7, <3>2 DEF Lookup
      <4> QED
        BY SMT, <1>a, <3>2, <4>1 DEF Goto
    <3> QED
      BY <2>1, <3>1, <3>2
  <2>3. \A d \in Conns \ {c} : pc'[d] = pc[d] /\ req'[d] = req[d]
    BY <1>a, <1>7 DEF Lookup, Goto
  <2> HIDE DEF Requests
  <2> QED
    BY SMT, <1>a, <2>2, <2>3
<1>8. ASSUME NEW c \in Conns, OpenFile(c) PROVE ControlInv'
  <2>1. CASE Return(c)
    BY <1>a, <2>1 DEF Return, NoReq, Goto
  <2>2. CASE \E h \in Handles : req' = [req EXCEPT ![c].h = h] /\ Goto(c, "publish")
    BY SMT, <1>a, <1>8, <2>2 DEF OpenFile, Goto
  <2> QED
    BY <1>8, <2>1, <2>2 DEF OpenFile
<1>9. ASSUME NEW c \in Conns, PutIfFresh(c) PROVE ControlInv'
  BY SMT, <1>a, <1>9 DEF PutIfFresh, Goto
<1>10. ASSUME NEW c \in Conns, PutRefused(c) PROVE ControlInv'
  BY SMT, <1>a, <1>10 DEF PutRefused, Retry, Return, NoReq, Goto
<1>11. ASSUME NEW c \in Conns, WriteAtClosed(c) PROVE ControlInv'
  BY SMT, <1>a, <1>11 DEF WriteAtClosed, Retry, Return, NoReq, Goto
<1>12. ASSUME NEW c \in Conns, WriteAt(c) PROVE ControlInv'
  <2>1. /\ pc[c] = "write"
        /\ \/ Return(c)
           \/ Goto(c, IF req[c].op = "stable" THEN "sync" ELSE "reply") /\ req' = req
    BY <1>12 DEF WriteAt
  <2>2. CASE ~Return(c)
    BY SMT, <1>a, <2>1, <2>2 DEF Goto
  <2> QED
    BY <1>r, <2>2
<1>13. ASSUME NEW c \in Conns, StableSync(c) PROVE ControlInv'
  <2>1. /\ pc[c] = "sync"
        /\ \/ Return(c)
           \/ Goto(c, "wait") /\ req' = req
           \/ Goto(c, "reply") /\ req' = req
           \/ Goto(c, "detach") /\ req' = req
    BY <1>13 DEF StableSync
  <2>2. CASE ~Return(c)
    BY SMTT(30), <1>a, <2>1, <2>2 DEF Goto
  <2> QED
    BY <1>r, <2>2
<1>14. ASSUME NEW c \in Conns, StableDetach(c) PROVE ControlInv'
  BY SMT, <1>a, <1>14 DEF StableDetach, Goto
<1>15. ASSUME NEW c \in Conns, StableClosed(c) PROVE ControlInv'
  <2>1. /\ pc[c] = "closed"
        /\ \/ Return(c)
           \/ ~req[c].err /\ Goto(c, "wait") /\ req' = req
    BY <1>15 DEF StableClosed
  <2>2. CASE ~Return(c)
    BY SMT, <1>a, <2>1, <2>2 DEF Goto
  <2> QED
    BY <1>r, <2>2
<1>16. ASSUME NEW c \in Conns, Wait(c) PROVE ControlInv'
  <2>1. /\ pc[c] = "wait"
        /\ \/ Return(c)
           \/ Goto(c, IF req[c].op = "commit" /\ ~req[c].found THEN "path" ELSE "reply") /\ req' = req
    BY <1>16 DEF Wait
  <2>2. CASE ~Return(c)
    BY SMT, <1>a, <2>1, <2>2 DEF Goto
  <2> QED
    BY <1>r, <2>2
<1>17. ASSUME NEW c \in Conns, WriteReply(c) PROVE ControlInv'
  <2>1. Return(c)
    BY <1>17 DEF WriteReply
  <2> QED
    BY <1>r, <2>1
<1>18. ASSUME NEW c \in Conns, CommitGet(c) PROVE ControlInv'
  <2>1. PICK t \in req[c].todo :
          LET h == entries[t][req[c].key] IN
          \/ h = Nil /\ req' = [req EXCEPT ![c].todo = @ \ {t}] /\ UNCHANGED pc
          \/ /\ h # Nil /\ Goto(c, "vsync")
             /\ req' = [req EXCEPT ![c].tgt = t, ![c].h = h, ![c].found = TRUE]
    BY <1>18 DEF CommitGet
  <2>2. pc[c] = "visit" /\ req[c].op = "commit" /\ t \in Conns /\ req[c].key \in Keys
    BY <1>a, <1>18 DEF CommitGet
  <2>3. CASE req' = [req EXCEPT ![c].todo = @ \ {t}] /\ UNCHANGED pc
    BY <1>t, <2>2, <2>3
  <2>4. CASE /\ entries[t][req[c].key] \in Handles /\ Goto(c, "vsync")
             /\ req' = [req EXCEPT ![c].tgt = t, ![c].h = entries[t][req[c].key], ![c].found = TRUE]
    <3>1. /\ req'[c].op = req[c].op /\ req'[c].key = req[c].key /\ req'[c].tgt = t
          /\ pc'[c] = "vsync" /\ req'[c].h \in Handles
      BY SMT, <1>a, <2>2, <2>4 DEF Goto
    <3>2. \A d \in Conns \ {c} : pc'[d] = pc[d] /\ req'[d] = req[d]
      BY <1>a, <2>4 DEF Goto
    <3> HIDE DEF Requests
    <3> QED
      BY SMT, <1>a, <2>2, <3>1, <3>2
  <2> HIDE DEF ControlInv, Requests
  <2>5. entries[t][req[c].key] = Nil \/ entries[t][req[c].key] \in Handles
    BY SMT, <1>a, <2>2
  <2> QED
    BY <2>1, <2>3, <2>4, <2>5
<1>19. ASSUME NEW c \in Conns, ReadGet(c) PROVE ControlInv'
  <2>1. PICK t \in req[c].todo :
          LET h == entries[t][req[c].key] IN
          \/ req' = [req EXCEPT ![c].todo = @ \ {t}] /\ UNCHANGED pc
          \/ /\ req' = [req EXCEPT ![c].tgt = t, ![c].h = h]
             /\ Goto(c, IF h = Nil THEN "vawait" ELSE "vsync")
    BY <1>19 DEF ReadGet
  <2>2. pc[c] = "visit" /\ req[c].op = "read" /\ t \in Conns /\ req[c].key \in Keys
    BY <1>a, <1>19 DEF ReadGet
  <2>3. CASE req' = [req EXCEPT ![c].todo = @ \ {t}] /\ UNCHANGED pc
    BY SMT, <1>a, <2>2, <2>3
  <2>4. CASE /\ req' = [req EXCEPT ![c].tgt = t, ![c].h = entries[t][req[c].key]]
             /\ Goto(c, IF entries[t][req[c].key] = Nil THEN "vawait" ELSE "vsync")
    <3>1. entries[t][req[c].key] \in Handles \cup {Nil}
      BY SMTT(30), <1>a, <2>2
    <3> QED
      BY SMT, <1>a, <2>2, <2>4, <3>1 DEF Goto
  <2> HIDE DEF ControlInv, Requests
  <2> QED
    BY <2>1, <2>3, <2>4
\* The four visiting steps end in nextConn or move to another visiting label.
<1>v. ASSUME NEW c \in Conns, NEW b \in BOOLEAN, NextConn(c, b),
             pc[c] \in {"vsync", "vdetach", "vclosed", "vawait"} PROVE ControlInv'
  <2>1. req[c].op \in {"commit", "read", "drop"} /\ req[c].key \in Keys
    BY <1>a, <1>v
  <2>2. pc'[c] = "visit" /\ req'[c].op = req[c].op /\ req'[c].key = req[c].key
    BY SMT, <1>a, <1>v DEF NextConn, Goto
  <2>3. \A d \in Conns \ {c} : pc'[d] = pc[d] /\ req'[d] = req[d]
    BY <1>a, <1>v DEF NextConn, Goto
  <2> HIDE DEF Requests
  <2> QED
    BY SMT, <1>a, <2>1, <2>2, <2>3
<1>20. ASSUME NEW c \in Conns, VisitSync(c) PROVE ControlInv'
  <2>1. /\ pc[c] = "vsync"
        /\ \/ NextConn(c, FALSE) \/ NextConn(c, TRUE)
           \/ Goto(c, "vawait") /\ UNCHANGED req
           \/ Goto(c, "vdetach") /\ UNCHANGED req
    BY <1>20 DEF VisitSync
  <2>2. CASE (Goto(c, "vawait") \/ Goto(c, "vdetach")) /\ UNCHANGED req
    BY SMT, <1>a, <2>1, <2>2 DEF Goto
  <2> QED
    BY <1>v, <2>1, <2>2
<1>21. ASSUME NEW c \in Conns, VisitDetach(c) PROVE ControlInv'
  <2>1. pc[c] = "vdetach" /\ (NextConn(c, FALSE) \/ (Goto(c, "vclosed") /\ req' = req))
    BY <1>21 DEF VisitDetach
  <2>2. CASE Goto(c, "vclosed") /\ UNCHANGED req
    BY SMT, <1>a, <2>1, <2>2 DEF Goto
  <2> QED
    BY <1>v, <2>1, <2>2
<1>22. ASSUME NEW c \in Conns, VisitClosed(c) PROVE ControlInv'
  BY <1>v, <1>22 DEF VisitClosed
<1>23. ASSUME NEW c \in Conns, VisitAwait(c) PROVE ControlInv'
  <2>1. pc[c] = "vawait" /\ NextConn(c, req[c].key \in errs)
    BY <1>23 DEF VisitAwait
  <2>2. (req[c].key \in errs) \in BOOLEAN
    BY SMT
  <2> QED
    BY <1>v, <2>1, <2>2
<1>24. ASSUME NEW c \in Conns, DropConn(c) PROVE ControlInv'
  <2>1. PICK t \in req[c].todo : req' = [req EXCEPT ![c].todo = @ \ {t}]
    BY <1>24 DEF DropConn
  <2>2. pc[c] = "visit" /\ UNCHANGED pc
    BY <1>24 DEF DropConn
  <2> QED
    BY <1>t, <2>1, <2>2
<1>25. ASSUME NEW c \in Conns, VisitDone(c) PROVE ControlInv'
  <2>1. CASE ~Return(c)
    BY SMT, <1>a, <1>25, <2>1 DEF VisitDone, Goto
  <2> QED
    BY <1>r, <2>1
<1>26. ASSUME NEW c \in Conns, ReadAwait(c) PROVE ControlInv'
  <2>1. Return(c)
    BY <1>26 DEF ReadAwait
  <2> QED
    BY <1>r, <2>1
<1>27. ASSUME NEW c \in Conns, CommitByPath(c) PROVE ControlInv'
  <2>1. /\ pc[c] = "path"
        /\ \/ Return(c)
           \/ Goto(c, "reply") /\ req' = req
    BY <1>27 DEF CommitByPath
  <2>2. CASE ~Return(c)
    BY SMT, <1>a, <2>1, <2>2 DEF Goto
  <2> QED
    BY <1>r, <2>2
<1>28. ASSUME NEW c \in Conns, CommitReply(c) PROVE ControlInv'
  <2>1. Return(c)
    BY <1>28 DEF CommitReply
  <2> QED
    BY <1>r, <2>1
<1>29. ASSUME NEW h \in Handles, EvictFlush(h) PROVE ControlInv'
  <2>1. PICK fails \in BOOLEAN :
          req' = [c \in Conns |-> IF fails /\ by[h] = Serve(c) /\ pc[c] \in {"closed", "vclosed"}
                                  THEN [req[c] EXCEPT !.err = TRUE] ELSE req[c]]
    BY <1>29 DEF EvictFlush
  <2>2. \A c \in Conns :
          /\ req'[c].op = req[c].op /\ req'[c].key = req[c].key /\ req'[c].w = req[c].w
          /\ req'[c].h = req[c].h /\ req'[c].tgt = req[c].tgt /\ req'[c].todo = req[c].todo
          /\ req'[c].err => req[c].err \/ pc[c] \in {"closed", "vclosed"}
    BY SMT, <1>a, <2>1
  <2>3. ControlInv /\ UNCHANGED pc
    BY <1>a, <1>29 DEF EvictFlush
  <2> HIDE DEF Requests
  <2> QED
    BY SMT, <2>2, <2>3
<1>30. ASSUME NEW h \in Handles, Finish(h) PROVE ControlInv'
  BY <1>a, <1>30 DEF Finish
<1>31. ASSUME NEW h \in Handles, FireLoss(h) PROVE ControlInv'
  BY SMT, <1>a, <1>31 DEF FireLoss
<1> HIDE DEF ControlInv, Requests
<1> QED
  BY <1>1, <1>2, <1>3, <1>4, <1>5, <1>6, <1>7, <1>8, <1>9, <1>10, <1>11, <1>12, <1>13, <1>14, <1>15, <1>16,
     <1>17, <1>18, <1>19, <1>20, <1>21, <1>22, <1>23, <1>24, <1>25, <1>26, <1>27, <1>28, <1>29, <1>30, <1>31
  DEF Next, Requesting, Serving, Flushing

-----------------------------------------------------------------------------
(* The life of an fd.  A step is summed up by the fds it detaches (Takes)  *)
(* or publishes (Publishes); from that, CachedStep and MarkerStep.         *)
(* Buffered ids sit in open fds of their file (BufferStep), losses are     *)
(* recorded (LossStep), and an fd not yet published is out of the reach of *)
(* other goroutines (PrivateKept).                                         *)

\* The fds of S leave the caches and get markers: what Drain, SweepIdle and the
\* handlers that detach do to the fd state.
Takes(S) ==
  /\ \A g \in S : \E t \in Conns, k \in Keys : entries[t][k] = g
  /\ entries' = [t \in Conns |-> [k \in Keys |->
                   IF entries[t][k] \in S THEN Nil ELSE entries[t][k]]]
  /\ pending' = [k \in Keys |-> pending[k] \cup {h \in S : hkey[h] = k}]
  /\ flush' = [h \in Handles |-> IF h \in S THEN "close" ELSE flush[h]]
  /\ UNCHANGED <<wc, fdVars, errs, diskVars, sent, replyVars>>

\* Detaching the one fd cached under a key of a connection.
LEMMA TakeOne ==
  ASSUME TypeOK, CachedInv, NEW t \in Conns, NEW k \in Keys, entries[t][k] # Nil,
         entries' = [entries EXCEPT ![t][k] = Nil]
  PROVE  entries' = [u \in Conns |-> [j \in Keys |->
                       IF entries[u][j] \in {entries[t][k]} THEN Nil ELSE entries[u][j]]]
<1>1. \A u \in Conns, j \in Keys : entries[u][j] = entries[t][k] <=> u = t /\ j = k
  BY SMT DEF TypeOK, CachedInv
<1> QED
  BY <1>1 DEF TypeOK

\* Detaching nothing.
LEMMA TakeNone ==
  ASSUME TypeOK, UNCHANGED <<entries, pending, flush>>,
         UNCHANGED <<wc, fdVars, errs, diskVars, sent, replyVars>>
  PROVE  Takes({})
BY DEF TypeOK, Takes

\* Drain detaches exactly the fds it removes from the cache.
LEMMA DrainTakes ==
  ASSUME IInv, NEW c \in Conns, Drain(c)
  PROVE  \E S \in SUBSET Handles : Takes(S)
<1>1. CachedIn(c) \in SUBSET Handles
  BY SMT DEF IInv, TypeOK, CachedIn
<1>2. \A u \in Conns, j \in Keys : entries[u][j] \in CachedIn(c) => u = c
  BY SMT DEF IInv, TypeOK, CachedInv, CachedIn
<1>3. \A j \in Keys : entries[c][j] \notin CachedIn(c) => entries[c][j] = Nil
  BY DEF CachedIn
<1>4. entries' = [t \in Conns |-> [k \in Keys |->
                   IF entries[t][k] \in CachedIn(c) THEN Nil ELSE entries[t][k]]]
  BY ZenonT(40), <1>2, <1>3 DEF IInv, TypeOK, Drain
<1>5. \A g \in CachedIn(c) : \E t \in Conns, k \in Keys : entries[t][k] = g
  BY DEF CachedIn
<1> QED
  BY <1>1, <1>4, <1>5 DEF Drain, Detach, Takes

\* So does the idle sweep.
LEMMA SweepTakes ==
  ASSUME IInv, NEW c \in Conns, SweepIdle(c)
  PROVE  \E S \in SUBSET Handles : Takes(S)
<1>1. PICK S \in SUBSET CachedIn(c) :
        /\ Detach(S, Sweeper(c))
        /\ entries' = [entries EXCEPT ![c] =
             [k \in Keys |-> IF entries[c][k] \in S THEN Nil ELSE entries[c][k]]]
  BY DEF SweepIdle
<1>2. S \in SUBSET Handles
  BY SMT, <1>1 DEF IInv, TypeOK, CachedIn
<1>3. \A u \in Conns, j \in Keys : entries[u][j] \in S => u = c
  BY SMT, <1>1 DEF IInv, TypeOK, CachedInv, CachedIn
<1>4. entries' = [t \in Conns |-> [k \in Keys |->
                   IF entries[t][k] \in S THEN Nil ELSE entries[t][k]]]
  BY <1>1, <1>3 DEF IInv, TypeOK
<1>5. \A g \in S : \E t \in Conns, k \in Keys : entries[t][k] = g
  BY <1>1 DEF CachedIn
<1> QED
  BY <1>1, <1>2, <1>4, <1>5 DEF SweepIdle, Detach, Takes

\* So does a stable WRITE's removeAndTrack.
LEMMA StableDetachTakes ==
  ASSUME IInv, NEW c \in Conns, StableDetach(c)
  PROVE  \E S \in SUBSET Handles : Takes(S)
<1> DEFINE h == entries[c][req[c].key]
<1>1. TypeOK /\ CachedInv /\ req[c].key \in Keys
  BY DEF IInv, ControlInv, StableDetach
<1>2. CASE h = Nil
  BY <1>1, <1>2, TakeNone DEF StableDetach, flushVars
<1>3. CASE h # Nil
  <2>1. h \in Handles
    BY SMT, <1>1, <1>3 DEF TypeOK
  <2>2. Takes({h})
    BY <1>1, <1>3, TakeOne DEF StableDetach, Detach, Takes
  <2> QED
    BY <2>1, <2>2
<1> QED
  BY <1>2, <1>3

\* So does the removeAndTrack of a COMMIT's or READ's visit.
LEMMA VisitDetachTakes ==
  ASSUME IInv, NEW c \in Conns, VisitDetach(c)
  PROVE  \E S \in SUBSET Handles : Takes(S)
<1> DEFINE h == entries[req[c].tgt][req[c].key]
<1>1. TypeOK /\ CachedInv /\ req[c].key \in Keys /\ req[c].tgt \in Conns
  BY DEF IInv, ControlInv, VisitDetach
<1>2. CASE h = Nil
  BY <1>1, <1>2, TakeNone DEF VisitDetach, flushVars
<1>3. CASE h # Nil
  <2>1. h \in Handles
    BY SMT, <1>1, <1>3 DEF TypeOK
  <2>2. Takes({h})
    BY <1>1, <1>3, TakeOne DEF VisitDetach, Detach, Takes
  <2> QED
    BY <2>1, <2>2
<1> QED
  BY <1>2, <1>3

\* So does the invalidation of a dropped handle.
LEMMA DropTakes ==
  ASSUME IInv, NEW c \in Conns, DropConn(c)
  PROVE  \E S \in SUBSET Handles : Takes(S)
<1>1. PICK t \in req[c].todo :
        /\ Detach({entries[t][req[c].key]} \ {Nil}, Serve(c))
        /\ entries' = [entries EXCEPT ![t][req[c].key] = Nil]
  BY DEF DropConn
<1> DEFINE h == entries[t][req[c].key]
<1>2. TypeOK /\ CachedInv /\ req[c].key \in Keys /\ t \in Conns
  BY <1>1 DEF IInv, TypeOK, Requests, ControlInv, DropConn
<1>3. UNCHANGED <<wc, fdVars, errs, diskVars, sent, replyVars>>
  BY DEF DropConn
<1>4. CASE h = Nil
  <2>1. UNCHANGED <<entries, pending, flush>>
    BY <1>1, <1>2, <1>4 DEF TypeOK, Detach
  <2> QED
    BY <1>2, <1>3, <2>1, TakeNone
<1>5. CASE h # Nil
  <2>1. h \in Handles /\ {h} \ {Nil} = {h}
    BY SMT, <1>2, <1>5 DEF TypeOK
  <2>2. Takes({h})
    BY <1>1, <1>2, <1>3, <1>5, <2>1, TakeOne DEF Detach, Takes
  <2> QED
    BY <2>1, <2>2
<1> QED
  BY <1>4, <1>5

\* PutIfFresh: the fds of S, in the same cache, make room for the new one.
Publishes(c, S) ==
  /\ \A g \in S : \E k \in Keys : entries[c][k] = g
  /\ entries[c][req[c].key] = Nil
  /\ entries' = [t \in Conns |-> [k \in Keys |->
       IF t = c /\ k = req[c].key THEN req[c].h
       ELSE IF entries[t][k] \in S THEN Nil ELSE entries[t][k]]]
  /\ pending' = [k \in Keys |-> pending[k] \cup {h \in S : hkey[h] = k}]
  /\ flush' = [h \in Handles |-> IF h \in S THEN "close" ELSE flush[h]]
  /\ pc[c] = "publish" /\ pc' = [pc EXCEPT ![c] = "write"]
  /\ UNCHANGED <<phase, wc, fdVars, errs, diskVars, req, sent, replyVars>>

\* putIfFresh publishes the fd and detaches the victim it evicts.
LEMMA PutPublishes ==
  ASSUME IInv, NEW c \in Conns, PutIfFresh(c)
  PROVE  \E S \in SUBSET Handles : Publishes(c, S)
<1>1. PICK V \in SUBSET CachedIn(c) :
        /\ Detach(V, Serve(c))
        /\ entries' = [entries EXCEPT ![c] = [j \in Keys |->
             IF j = req[c].key THEN req[c].h ELSE IF entries[c][j] \in V THEN Nil ELSE entries[c][j]]]
  BY DEF PutIfFresh
<1>2. V \in SUBSET Handles
  BY SMT, <1>1 DEF IInv, TypeOK, CachedIn
<1>3. \A u \in Conns, j \in Keys : entries[u][j] \in V => u = c
  BY SMT, <1>1 DEF IInv, TypeOK, CachedInv, CachedIn
<1>4. entries' = [t \in Conns |-> [k \in Keys |->
       IF t = c /\ k = req[c].key THEN req[c].h
       ELSE IF entries[t][k] \in V THEN Nil ELSE entries[t][k]]]
  BY <1>1, <1>3 DEF IInv, TypeOK
<1>5. \A g \in V : \E k \in Keys : entries[c][k] = g
  BY <1>1 DEF CachedIn
<1> QED
  BY <1>1, <1>2, <1>4, <1>5 DEF PutIfFresh, Detach, Publishes, Goto, fdVars, diskVars, replyVars

-----------------------------------------------------------------------------
\* A request goroutine's step leaves the other goroutines' labels and locals alone.
LEMMA OthersKeep ==
  ASSUME IInv, NEW c \in Conns, Requesting(c) \/ Serving(c)
  PROVE  \A d \in Conns \ {c} : pc'[d] = pc[d] /\ req'[d] = req[d]
<1>1. pc \in [Conns -> PCs] /\ req \in [Conns -> Requests]
  BY DEF IInv, TypeOK
<1>2. CASE Requesting(c)
  BY <1>1, <1>2 DEF Requesting, StartWrite, StartBroadcast, Goto
<1> USE <1>1 DEF Goto, Return, Retry, NextConn
<1>3. CASE Lookup(c) \/ OpenFile(c) \/ PutIfFresh(c) \/ PutRefused(c) \/ WriteAtClosed(c) \/ WriteAt(c)
  BY <1>3 DEF Lookup, OpenFile, PutIfFresh, PutRefused, WriteAtClosed, WriteAt
<1>4. CASE StableSync(c) \/ StableDetach(c) \/ StableClosed(c) \/ Wait(c) \/ WriteReply(c)
  BY <1>4 DEF StableSync, StableDetach, StableClosed, Wait, WriteReply
<1>5. CASE CommitGet(c) \/ ReadGet(c) \/ VisitSync(c) \/ VisitDetach(c) \/ VisitClosed(c)
  BY <1>5 DEF CommitGet, ReadGet, VisitSync, VisitDetach, VisitClosed
<1>6. CASE VisitAwait(c) \/ DropConn(c) \/ VisitDone(c) \/ ReadAwait(c) \/ CommitByPath(c) \/ CommitReply(c)
  BY <1>6 DEF VisitAwait, DropConn, VisitDone, ReadAwait, CommitByPath, CommitReply
<1> QED
  BY <1>2, <1>3, <1>4, <1>5, <1>6 DEF Serving

\* Only OpenFile brings a goroutine to the label "publish".
LEMMA PublishAfterOpen ==
  ASSUME IInv, NEW c \in Conns, Requesting(c) \/ Serving(c), ~OpenFile(c)
  PROVE  pc'[c] # "publish"
<1>1. pc \in [Conns -> PCs] /\ req \in [Conns -> Requests]
  BY DEF IInv, TypeOK
<1>2. CASE Requesting(c)
  BY <1>1, <1>2 DEF Requesting, StartWrite, StartBroadcast, Goto
<1> USE <1>1 DEF Goto, Return, Retry, NextConn
<1>3. CASE Lookup(c) \/ PutIfFresh(c) \/ PutRefused(c) \/ WriteAtClosed(c) \/ WriteAt(c)
  BY <1>3 DEF Lookup, PutIfFresh, PutRefused, WriteAtClosed, WriteAt
<1>4. CASE StableSync(c) \/ StableDetach(c) \/ StableClosed(c) \/ Wait(c) \/ WriteReply(c)
  BY <1>4 DEF StableSync, StableDetach, StableClosed, Wait, WriteReply
<1>5. CASE CommitGet(c) \/ ReadGet(c) \/ VisitSync(c) \/ VisitDetach(c) \/ VisitClosed(c)
  BY <1>5 DEF CommitGet, ReadGet, VisitSync, VisitDetach, VisitClosed
<1>6. CASE VisitAwait(c) \/ DropConn(c) \/ VisitDone(c) \/ ReadAwait(c) \/ CommitByPath(c) \/ CommitReply(c)
  BY <1>6 DEF VisitAwait, DropConn, VisitDone, ReadAwait, CommitByPath, CommitReply
<1> QED
  BY <1>2, <1>3, <1>4, <1>5, <1>6 DEF Serving

\* A WRITE that meets its fd closed uncaches that fd at most.
LEMMA ClosedEntries ==
  ASSUME IInv, NEW c \in Conns, WriteAtClosed(c)
  PROVE  /\ \A t \in Conns, k \in Keys :
              \/ entries'[t][k] = entries[t][k]
              \/ entries'[t][k] = Nil /\ entries[t][k] \in closed
         /\ UNCHANGED <<phase, wc, hkey, buf, dirty, closed, pending, flush>>
<1>1. req[c].key \in Keys /\ entries \in [Conns -> [Keys -> Handles \cup {Nil}]]
  BY DEF IInv, TypeOK, ControlInv, WriteAtClosed
<1>2. req[c].h \in closed /\ entries' = [entries EXCEPT ![c][req[c].key] = IF @ = req[c].h THEN Nil ELSE @]
  BY DEF WriteAtClosed
<1>3. UNCHANGED <<phase, wc, hkey, buf, dirty, closed, pending, flush>>
  BY DEF WriteAtClosed, fdVars, trackVars, flushVars
<1> QED
  BY <1>1, <1>2, <1>3

\* writeAt adds its id to its own fd, which is open and of its file, or fails.
LEMMA WriteAtFd ==
  ASSUME IInv, NEW c \in Conns, WriteAt(c)
  PROVE  /\ pc[c] = "write" /\ req[c].h \in Handles \ closed /\ req[c].w \in sent
         /\ hkey[req[c].h] \in Keys /\ KeyOf[req[c].w] = hkey[req[c].h]
         /\ \/ buf' = [buf EXCEPT ![req[c].h] = @ \cup {req[c].w}] /\ dirty' = dirty \cup {req[c].h}
            \/ UNCHANGED <<buf, dirty>>
         /\ UNCHANGED <<entries, hkey, closed, pending, flush, sent>>
<1>1. pc[c] = "write" /\ req[c].h \notin closed
  BY DEF WriteAt
<1>2. req[c].h \in Handles /\ req[c].key \in Keys /\ req[c].op \in {"unstable", "stable"}
  BY <1>1 DEF IInv, ControlInv
<1>3. req[c].w \in sent /\ KeyOf[req[c].w] = req[c].key /\ hkey[req[c].h] = req[c].key
  BY <1>1, <1>2 DEF IInv, WriteInv
<1>4. \/ buf' = [buf EXCEPT ![req[c].h] = @ \cup {req[c].w}] /\ dirty' = dirty \cup {req[c].h}
      \/ UNCHANGED <<buf, dirty>>
  BY DEF WriteAt
<1>5. UNCHANGED <<entries, hkey, closed, pending, flush, sent>>
  BY DEF WriteAt, cacheVars, trackVars, flushVars
<1> QED
  BY <1>1, <1>2, <1>3, <1>4, <1>5

\* Steps that leave the caches and the fds in them alone.
LEMMA CachedStays ==
  ASSUME CachedInv, UNCHANGED <<phase, wc, entries, hkey, closed, flush>>
  PROVE  CachedInv'
BY SMT DEF CachedInv

\* The fd that putIfFresh refuses, and the request closes, is in no cache.
LEMMA RefusedCached ==
  ASSUME IInv, NEW c \in Conns, PutRefused(c)
  PROVE  CachedInv'
<1>1. CachedInv /\ PrivateInv /\ pc[c] = "publish"
  BY DEF IInv, PutRefused
<1>2. \A t \in Conns : entries[t][req[c].key] # req[c].h
  BY <1>1 DEF PrivateInv
<1>3. hkey[req[c].h] = req[c].key
  BY <1>1 DEF PrivateInv
<1>4. closed' = closed \cup {req[c].h} /\ UNCHANGED <<phase, wc, entries, hkey, flush>>
  BY DEF PutRefused, cacheVars, flushVars
<1> QED
  BY SMT, <1>1, <1>2, <1>3, <1>4 DEF CachedInv

\* The entry that removeIf drops after a write to a closed fd.
LEMMA ClosedCached ==
  ASSUME IInv, NEW c \in Conns, WriteAtClosed(c)
  PROVE  CachedInv'
<1>1. CachedInv
  BY DEF IInv
<1> QED
  BY SMT, <1>1, ClosedEntries DEF CachedInv

\* Fds that leave the caches of connections that stay up.
LEMMA TakesCached ==
  ASSUME TypeOK, CachedInv, NEW S \in SUBSET Handles, Takes(S), UNCHANGED phase
  PROVE  CachedInv'
<1>1. \A t \in Conns, k \in Keys : entries'[t][k] = IF entries[t][k] \in S THEN Nil ELSE entries[t][k]
  BY DEF Takes
<1>2. \A h \in Handles : h \notin S => flush'[h] = flush[h]
  BY DEF Takes
<1>3. UNCHANGED <<wc, hkey, closed>>
  BY DEF Takes, fdVars
<1>4. \A t \in Conns, k \in Keys : entries[t][k] \in Handles \cup {Nil}
  BY SMT DEF TypeOK
<1> QED
  BY SMT, <1>1, <1>2, <1>3, <1>4 DEF CachedInv

-----------------------------------------------------------------------------
\* Cached fds stay open, unflushed, under their key and in one connection.
LEMMA CachedStep ==
  ASSUME IInv, Next
  PROVE  CachedInv'
<1> USE NilAssumption
<1>a. TypeOK /\ ControlInv /\ CachedInv /\ PrivateInv /\ WriteInv
  BY DEF IInv
<1>b. CachedInv
  BY <1>a
<1>c. /\ phase \in [Conns -> {"new", "up", "draining", "gone"}]
      /\ entries \in [Conns -> [Keys -> Handles \cup {Nil}]] /\ hkey \in [Handles -> Keys \cup {Nil}]
      /\ flush \in [Handles -> {"none", "close", "finish", "rotate"}]
  BY <1>a DEF TypeOK
<1> USE DEF TypeOK, CachedInv, cacheVars, fdVars, trackVars, flushVars, diskVars, replyVars
<1>1. ASSUME NEW c \in Conns, Connect(c) PROVE CachedInv'
  <2>1. /\ phase[c] = "new" /\ phase' = [phase EXCEPT ![c] = "up"]
        /\ UNCHANGED <<wc, entries, hkey, closed, flush>>
    BY <1>1 DEF Connect
  <2> HIDE DEF TypeOK
  <2> QED
    BY SMT, <1>b, <1>c, <2>1
<1>2. ASSUME NEW c \in Conns, Drain(c) PROVE CachedInv'
  <2>1. PICK S \in SUBSET Handles : Takes(S)
    BY <1>2, DrainTakes
  <2> QED
    BY SMT, <1>a, <1>2, <2>1 DEF Drain, Takes
<1>3. ASSUME NEW c \in Conns, Unregister(c) PROVE CachedInv'
  BY SMT, <1>a, <1>3 DEF Unregister
<1>4. ASSUME NEW c \in Conns, SweepIdle(c) PROVE CachedInv'
  <2>1. PICK S \in SUBSET Handles : Takes(S)
    BY <1>4, SweepTakes
  <2> QED
    BY <1>a, <1>4, <2>1, TakesCached DEF SweepIdle
<1>5. ASSUME NEW c \in Conns, NEW w \in Writes, NEW how \in {"unstable", "stable"},
             StartWrite(c, w, how) PROVE CachedInv'
  BY SMT, <1>a, <1>5 DEF StartWrite
<1>6. ASSUME NEW c \in Conns, NEW k \in Keys, NEW op \in {"commit", "read", "drop"},
             StartBroadcast(c, k, op) PROVE CachedInv'
  <2>1. UNCHANGED <<phase, wc, entries, hkey, closed, flush>>
    BY <1>6 DEF StartBroadcast
  <2> HIDE DEF TypeOK, CachedInv
  <2> QED
    BY <1>a, <2>1, CachedStays
<1>7. ASSUME NEW c \in Conns, Lookup(c) PROVE CachedInv'
  <2>1. UNCHANGED <<phase, wc, entries, hkey, closed, flush>>
    BY <1>7 DEF Lookup
  <2> HIDE DEF TypeOK, CachedInv
  <2> QED
    BY <1>a, <2>1, CachedStays
<1>8. ASSUME NEW c \in Conns, OpenFile(c) PROVE CachedInv'
  <2>1. UNCHANGED <<phase, wc, entries, closed, flush>>
    BY <1>8 DEF OpenFile
  <2>2. \/ UNCHANGED hkey
        \/ \E h \in Handles : hkey[h] = Nil /\ hkey' = [hkey EXCEPT ![h] = req[c].key]
    BY <1>8 DEF OpenFile
  <2> HIDE DEF TypeOK
  <2> QED
    BY SMT, <1>b, <1>c, <2>1, <2>2
<1>9. ASSUME NEW c \in Conns, PutIfFresh(c) PROVE CachedInv'
  <2>1. PICK S \in SUBSET Handles : Publishes(c, S)
    BY <1>9, PutPublishes
  <2> HIDE DEF TypeOK
  <2>2. /\ pc[c] = "publish" /\ req[c].h \in Handles /\ req[c].key \in Keys
        /\ req[c].op \in {"unstable", "stable"}
    BY <1>a, <2>1 DEF Publishes, ControlInv
  <2>3. /\ hkey[req[c].h] = req[c].key /\ req[c].h \notin closed /\ flush[req[c].h] = "none"
        /\ \A t \in Conns : entries[t][req[c].key] # req[c].h
    BY SMT, <1>a, <2>2 DEF PrivateInv
  <2>4. phase[c] = "up" /\ c \in wc
    BY <1>a, <2>2 DEF WriteInv
  <2>5. req[c].h \notin S
    BY SMT, <1>a, <2>1, <2>2, <2>3 DEF Publishes
  <2>6. \A t \in Conns, k \in Keys : entries'[t][k] =
          IF t = c /\ k = req[c].key THEN req[c].h
          ELSE IF entries[t][k] \in S THEN Nil ELSE entries[t][k]
    BY <2>1 DEF Publishes
  <2>7. \A g \in Handles : g \notin S => flush'[g] = flush[g]
    BY <2>1 DEF Publishes
  <2>8. UNCHANGED <<phase, wc, hkey, closed>>
    BY <2>1 DEF Publishes
  <2>9. \A t \in Conns, k \in Keys : entries[t][k] \in Handles \cup {Nil}
    BY SMT, <1>a DEF TypeOK
  <2> QED
    BY SMT, <1>a, <2>2, <2>3, <2>4, <2>5, <2>6, <2>7, <2>8, <2>9
<1>10. ASSUME NEW c \in Conns, PutRefused(c) PROVE CachedInv'
  <2> HIDE DEF CachedInv
  <2> QED
    BY <1>10, RefusedCached
<1>11. ASSUME NEW c \in Conns, WriteAtClosed(c) PROVE CachedInv'
  <2> HIDE DEF CachedInv
  <2> QED
    BY <1>11, ClosedCached
<1>12. ASSUME NEW c \in Conns, WriteAt(c) PROVE CachedInv'
  <2>1. UNCHANGED <<phase, wc, entries, hkey, closed, flush>>
    BY <1>12 DEF WriteAt
  <2> HIDE DEF TypeOK, CachedInv
  <2> QED
    BY <1>a, <2>1, CachedStays
<1>13. ASSUME NEW c \in Conns, StableSync(c) PROVE CachedInv'
  <2>1. UNCHANGED <<phase, wc, entries, hkey, closed, flush>>
    BY <1>13 DEF StableSync
  <2> HIDE DEF TypeOK, CachedInv
  <2> QED
    BY <1>a, <2>1, CachedStays
<1>14. ASSUME NEW c \in Conns, StableDetach(c) PROVE CachedInv'
  <2>1. PICK S \in SUBSET Handles : Takes(S)
    BY <1>14, StableDetachTakes
  <2> QED
    BY <1>a, <1>14, <2>1, TakesCached DEF StableDetach
<1>15. ASSUME NEW c \in Conns, StableClosed(c) PROVE CachedInv'
  <2>1. UNCHANGED <<phase, wc, entries, hkey, closed, flush>>
    BY <1>15 DEF StableClosed
  <2> HIDE DEF TypeOK, CachedInv
  <2> QED
    BY <1>a, <2>1, CachedStays
<1>16. ASSUME NEW c \in Conns, Wait(c) PROVE CachedInv'
  <2>1. UNCHANGED <<phase, wc, entries, hkey, closed, flush>>
    BY <1>16 DEF Wait
  <2> HIDE DEF TypeOK, CachedInv
  <2> QED
    BY <1>a, <2>1, CachedStays
<1>17. ASSUME NEW c \in Conns, WriteReply(c) PROVE CachedInv'
  <2>1. UNCHANGED <<phase, wc, entries, hkey, closed, flush>>
    BY <1>17 DEF WriteReply
  <2> HIDE DEF TypeOK, CachedInv
  <2> QED
    BY <1>a, <2>1, CachedStays
<1>18. ASSUME NEW c \in Conns, CommitGet(c) PROVE CachedInv'
  <2>1. UNCHANGED <<phase, wc, entries, hkey, closed, flush>>
    BY <1>18 DEF CommitGet
  <2> HIDE DEF TypeOK, CachedInv
  <2> QED
    BY <1>a, <2>1, CachedStays
<1>19. ASSUME NEW c \in Conns, ReadGet(c) PROVE CachedInv'
  <2>1. UNCHANGED <<phase, wc, entries, hkey, closed, flush>>
    BY <1>19 DEF ReadGet
  <2> HIDE DEF TypeOK, CachedInv
  <2> QED
    BY <1>a, <2>1, CachedStays
<1>20. ASSUME NEW c \in Conns, VisitSync(c) PROVE CachedInv'
  <2>1. UNCHANGED <<phase, wc, entries, hkey, closed, flush>>
    BY <1>20 DEF VisitSync
  <2> HIDE DEF TypeOK, CachedInv
  <2> QED
    BY <1>a, <2>1, CachedStays
<1>21. ASSUME NEW c \in Conns, VisitDetach(c) PROVE CachedInv'
  <2>1. PICK S \in SUBSET Handles : Takes(S)
    BY <1>21, VisitDetachTakes
  <2> QED
    BY <1>a, <1>21, <2>1, TakesCached DEF VisitDetach
<1>22. ASSUME NEW c \in Conns, VisitClosed(c) PROVE CachedInv'
  <2>1. UNCHANGED <<phase, wc, entries, hkey, closed, flush>>
    BY <1>22 DEF VisitClosed
  <2> HIDE DEF TypeOK, CachedInv
  <2> QED
    BY <1>a, <2>1, CachedStays
<1>23. ASSUME NEW c \in Conns, VisitAwait(c) PROVE CachedInv'
  <2>1. UNCHANGED <<phase, wc, entries, hkey, closed, flush>>
    BY <1>23 DEF VisitAwait
  <2> HIDE DEF TypeOK, CachedInv
  <2> QED
    BY <1>a, <2>1, CachedStays
<1>24. ASSUME NEW c \in Conns, DropConn(c) PROVE CachedInv'
  <2>1. PICK S \in SUBSET Handles : Takes(S)
    BY <1>24, DropTakes
  <2> QED
    BY <1>a, <1>24, <2>1, TakesCached DEF DropConn
<1>25. ASSUME NEW c \in Conns, VisitDone(c) PROVE CachedInv'
  <2>1. UNCHANGED <<phase, wc, entries, hkey, closed, flush>>
    BY <1>25 DEF VisitDone
  <2> HIDE DEF TypeOK, CachedInv
  <2> QED
    BY <1>a, <2>1, CachedStays
<1>26. ASSUME NEW c \in Conns, ReadAwait(c) PROVE CachedInv'
  <2>1. UNCHANGED <<phase, wc, entries, hkey, closed, flush>>
    BY <1>26 DEF ReadAwait
  <2> HIDE DEF TypeOK, CachedInv
  <2> QED
    BY <1>a, <2>1, CachedStays
<1>27. ASSUME NEW c \in Conns, CommitByPath(c) PROVE CachedInv'
  <2>1. UNCHANGED <<phase, wc, entries, hkey, closed, flush>>
    BY <1>27 DEF CommitByPath
  <2> HIDE DEF TypeOK, CachedInv
  <2> QED
    BY <1>a, <2>1, CachedStays
<1>28. ASSUME NEW c \in Conns, CommitReply(c) PROVE CachedInv'
  <2>1. UNCHANGED <<phase, wc, entries, hkey, closed, flush>>
    BY <1>28 DEF CommitReply
  <2> HIDE DEF TypeOK, CachedInv
  <2> QED
    BY <1>a, <2>1, CachedStays
<1>29. ASSUME NEW h \in Handles, EvictFlush(h) PROVE CachedInv'
  <2>1. /\ flush[h] = "close" /\ flush' = [flush EXCEPT ![h] = "finish"]
        /\ closed' = closed \cup {h} /\ UNCHANGED <<phase, wc, entries, hkey>>
    BY <1>29 DEF EvictFlush
  <2> HIDE DEF TypeOK
  <2> QED
    BY SMT, <1>b, <1>c, <2>1
<1>30. ASSUME NEW h \in Handles, Finish(h) PROVE CachedInv'
  <2>1. /\ flush[h] = "finish" /\ \E f \in {"rotate", "none"} : flush' = [flush EXCEPT ![h] = f]
        /\ UNCHANGED <<phase, wc, entries, hkey, closed>>
    BY <1>30 DEF Finish
  <2> HIDE DEF TypeOK
  <2> QED
    BY SMT, <1>b, <1>c, <2>1
<1>31. ASSUME NEW h \in Handles, FireLoss(h) PROVE CachedInv'
  <2>1. /\ flush[h] = "rotate" /\ flush' = [flush EXCEPT ![h] = "none"]
        /\ UNCHANGED <<phase, wc, entries, hkey, closed>>
    BY <1>31 DEF FireLoss
  <2> HIDE DEF TypeOK
  <2> QED
    BY SMT, <1>b, <1>c, <2>1
<1> HIDE DEF TypeOK, CachedInv, cacheVars, fdVars, trackVars, flushVars, diskVars, replyVars
<1> QED
  BY <1>1, <1>2, <1>3, <1>4, <1>5, <1>6, <1>7, <1>8, <1>9, <1>10, <1>11, <1>12, <1>13, <1>14, <1>15, <1>16,
     <1>17, <1>18, <1>19, <1>20, <1>21, <1>22, <1>23, <1>24, <1>25, <1>26, <1>27, <1>28, <1>29, <1>30, <1>31
  DEF Next, Requesting, Serving, Flushing

\* A marker is pending exactly while its fd is on the way from cache to tracker.
LEMMA MarkerStep ==
  ASSUME IInv, Next
  PROVE  MarkerInv'
<1> USE NilAssumption
<1>a. TypeOK /\ ControlInv /\ CachedInv /\ PrivateInv /\ MarkerInv
  BY DEF IInv
<1>b. MarkerInv
  BY <1>a
<1>c. /\ hkey \in [Handles -> Keys \cup {Nil}] /\ pending \in [Keys -> SUBSET Handles]
      /\ flush \in [Handles -> {"none", "close", "finish", "rotate"}]
  BY <1>a DEF TypeOK
<1> USE DEF TypeOK, MarkerInv, cacheVars, fdVars, trackVars, flushVars, diskVars, replyVars
<1>1. ASSUME NEW c \in Conns, Connect(c) PROVE MarkerInv'
  BY <1>a, <1>1 DEF Connect
<1>2. ASSUME NEW c \in Conns, Drain(c) PROVE MarkerInv'
  <2>1. PICK S \in SUBSET Handles : Takes(S)
    BY <1>2, DrainTakes
  <2> QED
    BY SMT, <1>a, <2>1 DEF Takes, CachedInv
<1>3. ASSUME NEW c \in Conns, Unregister(c) PROVE MarkerInv'
  BY <1>a, <1>3 DEF Unregister
<1>4. ASSUME NEW c \in Conns, SweepIdle(c) PROVE MarkerInv'
  <2>1. PICK S \in SUBSET Handles : Takes(S)
    BY <1>4, SweepTakes
  <2> QED
    BY SMT, <1>a, <2>1 DEF Takes, CachedInv
<1>5. ASSUME NEW c \in Conns, NEW w \in Writes, NEW how \in {"unstable", "stable"},
             StartWrite(c, w, how) PROVE MarkerInv'
  BY <1>a, <1>5 DEF StartWrite
<1>6. ASSUME NEW c \in Conns, NEW k \in Keys, NEW op \in {"commit", "read", "drop"},
             StartBroadcast(c, k, op) PROVE MarkerInv'
  BY <1>a, <1>6 DEF StartBroadcast
<1>7. ASSUME NEW c \in Conns, Lookup(c) PROVE MarkerInv'
  BY <1>a, <1>7 DEF Lookup
<1>8. ASSUME NEW c \in Conns, OpenFile(c) PROVE MarkerInv'
  <2>1. UNCHANGED <<pending, closed, lossy, flush>>
    BY <1>8 DEF OpenFile
  <2>2. \/ UNCHANGED hkey
        \/ \E h \in Handles : hkey[h] = Nil /\ hkey' = [hkey EXCEPT ![h] = req[c].key]
    BY <1>8 DEF OpenFile
  <2>3. req[c].key \in Keys
    BY <1>a, <1>8 DEF OpenFile, ControlInv
  <2> HIDE DEF TypeOK
  <2> QED
    BY SMT, <1>b, <1>c, <2>1, <2>2, <2>3
<1>9. ASSUME NEW c \in Conns, PutIfFresh(c) PROVE MarkerInv'
  <2>1. PICK S \in SUBSET Handles : Publishes(c, S)
    BY <1>9, PutPublishes
  <2>2. /\ pending' = [k \in Keys |-> pending[k] \cup {h \in S : hkey[h] = k}]
        /\ flush' = [h \in Handles |-> IF h \in S THEN "close" ELSE flush[h]]
        /\ UNCHANGED <<hkey, closed, lossy>>
    BY <2>1 DEF Publishes
  <2>a. CachedInv /\ \A g \in S : \E k \in Keys : entries[c][k] = g
    BY <1>a, <2>1 DEF Publishes
  <2> HIDE DEF TypeOK
  <2>3. \A g \in S : g \notin closed /\ hkey[g] \in Keys /\ flush[g] = "none"
    BY SMTT(20), <2>a DEF CachedInv
  <2> QED
    BY SMT, <1>b, <1>c, <2>2, <2>3
<1>10. ASSUME NEW c \in Conns, PutRefused(c) PROVE MarkerInv'
  <2>1. /\ pc[c] = "publish" /\ closed' = closed \cup {req[c].h}
        /\ UNCHANGED <<hkey, pending, flush, lossy>>
    BY <1>10 DEF PutRefused
  <2>2. req[c].h \in Handles /\ req[c].key \in Keys
    BY <1>a, <2>1 DEF ControlInv
  <2>3. hkey[req[c].h] = req[c].key /\ flush[req[c].h] = "none"
    BY <1>a, <2>1 DEF PrivateInv
  <2> HIDE DEF TypeOK
  <2> QED
    BY SMT, <1>b, <1>c, <2>1, <2>2, <2>3
<1>11. ASSUME NEW c \in Conns, WriteAtClosed(c) PROVE MarkerInv'
  BY <1>a, <1>11 DEF WriteAtClosed
<1>12. ASSUME NEW c \in Conns, WriteAt(c) PROVE MarkerInv'
  BY <1>a, <1>12 DEF WriteAt
<1>13. ASSUME NEW c \in Conns, StableSync(c) PROVE MarkerInv'
  BY <1>a, <1>13 DEF StableSync
<1>14. ASSUME NEW c \in Conns, StableDetach(c) PROVE MarkerInv'
  <2>1. PICK S \in SUBSET Handles : Takes(S)
    BY <1>14, StableDetachTakes
  <2> QED
    BY SMT, <1>a, <2>1 DEF Takes, CachedInv
<1>15. ASSUME NEW c \in Conns, StableClosed(c) PROVE MarkerInv'
  BY <1>a, <1>15 DEF StableClosed
<1>16. ASSUME NEW c \in Conns, Wait(c) PROVE MarkerInv'
  BY <1>a, <1>16 DEF Wait
<1>17. ASSUME NEW c \in Conns, WriteReply(c) PROVE MarkerInv'
  BY <1>a, <1>17 DEF WriteReply
<1>18. ASSUME NEW c \in Conns, CommitGet(c) PROVE MarkerInv'
  BY <1>a, <1>18 DEF CommitGet
<1>19. ASSUME NEW c \in Conns, ReadGet(c) PROVE MarkerInv'
  BY <1>a, <1>19 DEF ReadGet
<1>20. ASSUME NEW c \in Conns, VisitSync(c) PROVE MarkerInv'
  BY <1>a, <1>20 DEF VisitSync
<1>21. ASSUME NEW c \in Conns, VisitDetach(c) PROVE MarkerInv'
  <2>1. PICK S \in SUBSET Handles : Takes(S)
    BY <1>21, VisitDetachTakes
  <2> QED
    BY SMT, <1>a, <2>1 DEF Takes, CachedInv
<1>22. ASSUME NEW c \in Conns, VisitClosed(c) PROVE MarkerInv'
  BY <1>a, <1>22 DEF VisitClosed
<1>23. ASSUME NEW c \in Conns, VisitAwait(c) PROVE MarkerInv'
  BY <1>a, <1>23 DEF VisitAwait
<1>24. ASSUME NEW c \in Conns, DropConn(c) PROVE MarkerInv'
  <2>1. PICK S \in SUBSET Handles : Takes(S)
    BY <1>24, DropTakes
  <2> QED
    BY SMT, <1>a, <2>1 DEF Takes, CachedInv
<1>25. ASSUME NEW c \in Conns, VisitDone(c) PROVE MarkerInv'
  BY <1>a, <1>25 DEF VisitDone
<1>26. ASSUME NEW c \in Conns, ReadAwait(c) PROVE MarkerInv'
  BY <1>a, <1>26 DEF ReadAwait
<1>27. ASSUME NEW c \in Conns, CommitByPath(c) PROVE MarkerInv'
  BY <1>a, <1>27 DEF CommitByPath
<1>28. ASSUME NEW c \in Conns, CommitReply(c) PROVE MarkerInv'
  BY <1>a, <1>28 DEF CommitReply
<1>29. ASSUME NEW h \in Handles, EvictFlush(h) PROVE MarkerInv'
  <2>1. /\ flush[h] = "close" /\ flush' = [flush EXCEPT ![h] = "finish"]
        /\ closed' = closed \cup {h} /\ lossy' \subseteq lossy \cup {h} /\ UNCHANGED <<hkey, pending>>
    BY <1>29 DEF EvictFlush
  <2> HIDE DEF TypeOK
  <2> QED
    BY SMT, <1>b, <1>c, <2>1
<1>30. ASSUME NEW h \in Handles, Finish(h) PROVE MarkerInv'
  <2>1. /\ flush[h] = "finish" /\ \E f \in {"rotate", "none"} : flush' = [flush EXCEPT ![h] = f]
        /\ pending' = [k \in Keys |-> pending[k] \ {h}] /\ lossy' = lossy \ {h}
        /\ UNCHANGED <<hkey, closed>>
    BY <1>30 DEF Finish
  <2> HIDE DEF TypeOK
  <2> QED
    BY SMT, <1>b, <1>c, <2>1
<1>31. ASSUME NEW h \in Handles, FireLoss(h) PROVE MarkerInv'
  BY SMTT(30), <1>a, <1>31 DEF FireLoss
<1> HIDE DEF TypeOK, MarkerInv, cacheVars, fdVars, trackVars, flushVars, diskVars, replyVars
<1> QED
  BY <1>1, <1>2, <1>3, <1>4, <1>5, <1>6, <1>7, <1>8, <1>9, <1>10, <1>11, <1>12, <1>13, <1>14, <1>15, <1>16,
     <1>17, <1>18, <1>19, <1>20, <1>21, <1>22, <1>23, <1>24, <1>25, <1>26, <1>27, <1>28, <1>29, <1>30, <1>31
  DEF Next, Requesting, Serving, Flushing

-----------------------------------------------------------------------------
(* What the fds hold.                                                      *)

\* Buffered ids stay in open, dirty fds of their own file.
LEMMA BufferStep ==
  ASSUME IInv, Next
  PROVE  BufferInv'
<1> USE NilAssumption
<1>a. TypeOK /\ ControlInv /\ PrivateInv /\ BufferInv /\ WriteInv
  BY DEF IInv
<1>b. BufferInv
  BY <1>a
<1>c. buf \in [Handles -> SUBSET Writes] /\ hkey \in [Handles -> Keys \cup {Nil}]
  BY <1>a DEF TypeOK
<1> USE DEF TypeOK, BufferInv, cacheVars, fdVars, trackVars, flushVars, diskVars, replyVars
<1>1. ASSUME NEW c \in Conns, Connect(c) PROVE BufferInv'
  BY <1>a, <1>1 DEF Connect
<1>2. ASSUME NEW c \in Conns, Drain(c) PROVE BufferInv'
  <2>1. PICK S \in SUBSET Handles : Takes(S)
    BY <1>2, DrainTakes
  <2> QED
    BY <1>a, <2>1 DEF Takes
<1>3. ASSUME NEW c \in Conns, Unregister(c) PROVE BufferInv'
  BY <1>a, <1>3 DEF Unregister
<1>4. ASSUME NEW c \in Conns, SweepIdle(c) PROVE BufferInv'
  <2>1. PICK S \in SUBSET Handles : Takes(S)
    BY <1>4, SweepTakes
  <2> QED
    BY <1>a, <2>1 DEF Takes
<1>5. ASSUME NEW c \in Conns, NEW w \in Writes, NEW how \in {"unstable", "stable"},
             StartWrite(c, w, how) PROVE BufferInv'
  BY <1>a, <1>5 DEF StartWrite
<1>6. ASSUME NEW c \in Conns, NEW k \in Keys, NEW op \in {"commit", "read", "drop"},
             StartBroadcast(c, k, op) PROVE BufferInv'
  BY <1>a, <1>6 DEF StartBroadcast
<1>7. ASSUME NEW c \in Conns, Lookup(c) PROVE BufferInv'
  BY <1>a, <1>7 DEF Lookup
<1>8. ASSUME NEW c \in Conns, OpenFile(c) PROVE BufferInv'
  <2>1. UNCHANGED <<buf, dirty, closed, sent>>
    BY <1>8 DEF OpenFile
  <2>2. \/ UNCHANGED hkey
        \/ \E h \in Handles : hkey[h] = Nil /\ hkey' = [hkey EXCEPT ![h] = req[c].key]
    BY <1>8 DEF OpenFile
  <2> HIDE DEF TypeOK
  <2> QED
    BY SMT, <1>b, <1>c, <2>1, <2>2
<1>9. ASSUME NEW c \in Conns, PutIfFresh(c) PROVE BufferInv'
  <2>1. PICK S \in SUBSET Handles : Publishes(c, S)
    BY <1>9, PutPublishes
  <2> QED
    BY <1>a, <2>1 DEF Publishes
<1>10. ASSUME NEW c \in Conns, PutRefused(c) PROVE BufferInv'
  <2>1. UNCHANGED <<buf, dirty, hkey, sent>> /\ closed' = closed \cup {req[c].h}
    BY <1>10 DEF PutRefused
  <2>2. req[c].h \notin dirty
    BY <1>a, <1>10 DEF PutRefused, PrivateInv
  <2> HIDE DEF TypeOK
  <2> QED
    BY SMT, <1>b, <2>1, <2>2
<1>11. ASSUME NEW c \in Conns, WriteAtClosed(c) PROVE BufferInv'
  BY <1>a, <1>11 DEF WriteAtClosed
<1>12. ASSUME NEW c \in Conns, WriteAt(c) PROVE BufferInv'
  <2> HIDE DEF TypeOK, BufferInv
  <2>1. /\ req[c].h \in Handles \ closed /\ req[c].w \in sent
        /\ hkey[req[c].h] \in Keys /\ KeyOf[req[c].w] = hkey[req[c].h]
        /\ \/ buf' = [buf EXCEPT ![req[c].h] = @ \cup {req[c].w}] /\ dirty' = dirty \cup {req[c].h}
           \/ UNCHANGED <<buf, dirty>>
        /\ UNCHANGED <<hkey, closed, sent>>
    BY <1>12, WriteAtFd
  <2> QED
    BY SMT, <1>b, <1>c, <2>1 DEF BufferInv
<1>13. ASSUME NEW c \in Conns, StableSync(c) PROVE BufferInv'
  <2>1. req[c].h \in Handles
    BY <1>a, <1>13 DEF StableSync, ControlInv
  <2>2. SyncFd(req[c].h) \/ UNCHANGED <<buf, dirty>>
    BY <1>13 DEF StableSync
  <2>3. UNCHANGED <<hkey, closed, sent>>
    BY <1>13 DEF StableSync
  <2> HIDE DEF TypeOK
  <2> QED
    BY SMT, <1>b, <1>c, <2>1, <2>2, <2>3 DEF SyncFd
<1>14. ASSUME NEW c \in Conns, StableDetach(c) PROVE BufferInv'
  <2>1. PICK S \in SUBSET Handles : Takes(S)
    BY <1>14, StableDetachTakes
  <2> QED
    BY <1>a, <2>1 DEF Takes
<1>15. ASSUME NEW c \in Conns, StableClosed(c) PROVE BufferInv'
  BY <1>a, <1>15 DEF StableClosed
<1>16. ASSUME NEW c \in Conns, Wait(c) PROVE BufferInv'
  BY <1>a, <1>16 DEF Wait
<1>17. ASSUME NEW c \in Conns, WriteReply(c) PROVE BufferInv'
  BY <1>a, <1>17 DEF WriteReply
<1>18. ASSUME NEW c \in Conns, CommitGet(c) PROVE BufferInv'
  BY <1>a, <1>18 DEF CommitGet
<1>19. ASSUME NEW c \in Conns, ReadGet(c) PROVE BufferInv'
  BY <1>a, <1>19 DEF ReadGet
<1>20. ASSUME NEW c \in Conns, VisitSync(c) PROVE BufferInv'
  <2>1. req[c].h \in Handles
    BY <1>a, <1>20 DEF VisitSync, ControlInv
  <2>2. SyncFd(req[c].h) \/ UNCHANGED <<buf, dirty>>
    BY <1>20 DEF VisitSync
  <2>3. UNCHANGED <<hkey, closed, sent>>
    BY <1>20 DEF VisitSync
  <2> HIDE DEF TypeOK
  <2> QED
    BY SMT, <1>b, <1>c, <2>1, <2>2, <2>3 DEF SyncFd
<1>21. ASSUME NEW c \in Conns, VisitDetach(c) PROVE BufferInv'
  <2>1. PICK S \in SUBSET Handles : Takes(S)
    BY <1>21, VisitDetachTakes
  <2> QED
    BY <1>a, <2>1 DEF Takes
<1>22. ASSUME NEW c \in Conns, VisitClosed(c) PROVE BufferInv'
  BY <1>a, <1>22 DEF VisitClosed
<1>23. ASSUME NEW c \in Conns, VisitAwait(c) PROVE BufferInv'
  BY <1>a, <1>23 DEF VisitAwait
<1>24. ASSUME NEW c \in Conns, DropConn(c) PROVE BufferInv'
  <2>1. PICK S \in SUBSET Handles : Takes(S)
    BY <1>24, DropTakes
  <2> QED
    BY <1>a, <2>1 DEF Takes
<1>25. ASSUME NEW c \in Conns, VisitDone(c) PROVE BufferInv'
  BY <1>a, <1>25 DEF VisitDone
<1>26. ASSUME NEW c \in Conns, ReadAwait(c) PROVE BufferInv'
  BY <1>a, <1>26 DEF ReadAwait
<1>27. ASSUME NEW c \in Conns, CommitByPath(c) PROVE BufferInv'
  BY <1>a, <1>27 DEF CommitByPath
<1>28. ASSUME NEW c \in Conns, CommitReply(c) PROVE BufferInv'
  BY <1>a, <1>28 DEF CommitReply
<1>29. ASSUME NEW h \in Handles, EvictFlush(h) PROVE BufferInv'
  BY SMT, <1>a, <1>29 DEF EvictFlush
<1>30. ASSUME NEW h \in Handles, Finish(h) PROVE BufferInv'
  BY <1>a, <1>30 DEF Finish
<1>31. ASSUME NEW h \in Handles, FireLoss(h) PROVE BufferInv'
  BY <1>a, <1>31 DEF FireLoss
<1> HIDE DEF TypeOK, BufferInv, cacheVars, fdVars, trackVars, flushVars, diskVars, replyVars
<1> QED
  BY <1>1, <1>2, <1>3, <1>4, <1>5, <1>6, <1>7, <1>8, <1>9, <1>10, <1>11, <1>12, <1>13, <1>14, <1>15, <1>16,
     <1>17, <1>18, <1>19, <1>20, <1>21, <1>22, <1>23, <1>24, <1>25, <1>26, <1>27, <1>28, <1>29, <1>30, <1>31
  DEF Next, Requesting, Serving, Flushing

\* A loss is recorded, or about to be, until a reply surfaces it.
LEMMA LossStep ==
  ASSUME IInv, Next
  PROVE  LossInv'
<1> USE NilAssumption, KeyOfAssumption
<1>a. TypeOK /\ MarkerInv /\ BufferInv /\ LossInv
  BY DEF IInv
<1> USE DEF TypeOK, LossInv, cacheVars, fdVars, trackVars, flushVars, diskVars, replyVars
<1>1. ASSUME NEW c \in Conns, Connect(c) PROVE LossInv'
  BY <1>a, <1>1 DEF Connect
<1>2. ASSUME NEW c \in Conns, Drain(c) PROVE LossInv'
  <2>1. PICK S \in SUBSET Handles : Takes(S)
    BY <1>2, DrainTakes
  <2> QED
    BY <1>a, <2>1 DEF Takes
<1>3. ASSUME NEW c \in Conns, Unregister(c) PROVE LossInv'
  BY <1>a, <1>3 DEF Unregister
<1>4. ASSUME NEW c \in Conns, SweepIdle(c) PROVE LossInv'
  <2>1. PICK S \in SUBSET Handles : Takes(S)
    BY <1>4, SweepTakes
  <2> QED
    BY <1>a, <2>1 DEF Takes
<1>5. ASSUME NEW c \in Conns, NEW w \in Writes, NEW how \in {"unstable", "stable"},
             StartWrite(c, w, how) PROVE LossInv'
  BY <1>a, <1>5 DEF StartWrite
<1>6. ASSUME NEW c \in Conns, NEW k \in Keys, NEW op \in {"commit", "read", "drop"},
             StartBroadcast(c, k, op) PROVE LossInv'
  BY <1>a, <1>6 DEF StartBroadcast
<1>7. ASSUME NEW c \in Conns, Lookup(c) PROVE LossInv'
  BY <1>a, <1>7 DEF Lookup
<1>8. ASSUME NEW c \in Conns, OpenFile(c) PROVE LossInv'
  BY SMT, <1>a, <1>8 DEF OpenFile, MarkerInv, BufferInv
<1>9. ASSUME NEW c \in Conns, PutIfFresh(c) PROVE LossInv'
  <2>1. PICK S \in SUBSET Handles : Publishes(c, S)
    BY <1>9, PutPublishes
  <2> QED
    BY <1>a, <2>1 DEF Publishes
<1>10. ASSUME NEW c \in Conns, PutRefused(c) PROVE LossInv'
  BY <1>a, <1>10 DEF PutRefused
<1>11. ASSUME NEW c \in Conns, WriteAtClosed(c) PROVE LossInv'
  BY <1>a, <1>11 DEF WriteAtClosed
<1>12. ASSUME NEW c \in Conns, WriteAt(c) PROVE LossInv'
  BY <1>a, <1>12 DEF WriteAt
<1>13. ASSUME NEW c \in Conns, StableSync(c) PROVE LossInv'
  BY <1>a, <1>13 DEF StableSync, SyncFd
<1>14. ASSUME NEW c \in Conns, StableDetach(c) PROVE LossInv'
  <2>1. PICK S \in SUBSET Handles : Takes(S)
    BY <1>14, StableDetachTakes
  <2> QED
    BY <1>a, <2>1 DEF Takes
<1>15. ASSUME NEW c \in Conns, StableClosed(c) PROVE LossInv'
  BY <1>a, <1>15 DEF StableClosed
<1>16. ASSUME NEW c \in Conns, Wait(c) PROVE LossInv'
  BY SMT, <1>a, <1>16 DEF Wait, MarkerInv
<1>17. ASSUME NEW c \in Conns, WriteReply(c) PROVE LossInv'
  BY <1>a, <1>17 DEF WriteReply
<1>18. ASSUME NEW c \in Conns, CommitGet(c) PROVE LossInv'
  BY <1>a, <1>18 DEF CommitGet
<1>19. ASSUME NEW c \in Conns, ReadGet(c) PROVE LossInv'
  BY <1>a, <1>19 DEF ReadGet
<1>20. ASSUME NEW c \in Conns, VisitSync(c) PROVE LossInv'
  BY <1>a, <1>20 DEF VisitSync, SyncFd
<1>21. ASSUME NEW c \in Conns, VisitDetach(c) PROVE LossInv'
  <2>1. PICK S \in SUBSET Handles : Takes(S)
    BY <1>21, VisitDetachTakes
  <2> QED
    BY <1>a, <2>1 DEF Takes
<1>22. ASSUME NEW c \in Conns, VisitClosed(c) PROVE LossInv'
  BY <1>a, <1>22 DEF VisitClosed
<1>23. ASSUME NEW c \in Conns, VisitAwait(c) PROVE LossInv'
  BY <1>a, <1>23 DEF VisitAwait
<1>24. ASSUME NEW c \in Conns, DropConn(c) PROVE LossInv'
  <2>1. PICK S \in SUBSET Handles : Takes(S)
    BY <1>24, DropTakes
  <2> QED
    BY <1>a, <2>1 DEF Takes
<1>25. ASSUME NEW c \in Conns, VisitDone(c) PROVE LossInv'
  BY <1>a, <1>25 DEF VisitDone
<1>26. ASSUME NEW c \in Conns, ReadAwait(c) PROVE LossInv'
  BY <1>a, <1>26 DEF ReadAwait
<1>27. ASSUME NEW c \in Conns, CommitByPath(c) PROVE LossInv'
  BY <1>a, <1>27 DEF CommitByPath
<1>28. ASSUME NEW c \in Conns, CommitReply(c) PROVE LossInv'
  BY <1>a, <1>28 DEF CommitReply
<1>29. ASSUME NEW h \in Handles, EvictFlush(h) PROVE LossInv'
  <2>1. flush[h] = "close" /\ buf[h] \subseteq Writes
    BY <1>a, <1>29 DEF EvictFlush
  <2>2. PICK fails \in BOOLEAN :
          /\ lossy' = IF fails /\ h \in dirty THEN lossy \cup {h} ELSE lossy
          /\ lost' = IF fails THEN lost \cup buf[h] ELSE lost
    BY <1>29 DEF EvictFlush
  <2>3. UNCHANGED <<hkey, errs, reported>>
    BY <1>29 DEF EvictFlush
  <2>4. LossInv /\ (h \in dirty <=> buf[h] # {}) /\ \A w \in buf[h] : KeyOf[w] = hkey[h]
    BY <1>a DEF BufferInv
  <2> HIDE DEF TypeOK
  <2> QED
    BY SMT, <2>1, <2>2, <2>3, <2>4
<1>30. ASSUME NEW h \in Handles, Finish(h) PROVE LossInv'
  BY SMT, <1>a, <1>30 DEF Finish, MarkerInv
<1>31. ASSUME NEW h \in Handles, FireLoss(h) PROVE LossInv'
  BY <1>a, <1>31 DEF FireLoss
<1> HIDE DEF TypeOK, LossInv, cacheVars, fdVars, trackVars, flushVars, diskVars, replyVars
<1> QED
  BY SMTT(30), <1>1, <1>2, <1>3, <1>4, <1>5, <1>6, <1>7, <1>8, <1>9, <1>10, <1>11, <1>12, <1>13, <1>14, <1>15, <1>16,
     <1>17, <1>18, <1>19, <1>20, <1>21, <1>22, <1>23, <1>24, <1>25, <1>26, <1>27, <1>28, <1>29, <1>30, <1>31
  DEF Next, Requesting, Serving, Flushing

\* No step of another goroutine touches an fd that is not published yet.
LEMMA PrivateKept ==
  ASSUME IInv, Next, NEW d \in Conns, pc[d] = "publish",
         pc'[d] = "publish", req'[d] = req[d]
  PROVE  /\ hkey'[req[d].h] = req[d].key /\ req[d].h \notin closed' /\ flush'[req[d].h] = "none"
         /\ req[d].h \notin dirty'
         /\ \A t \in Conns : entries'[t][req[d].key] # req[d].h
<1> DEFINE Kept == /\ hkey'[req[d].h] = req[d].key /\ req[d].h \notin closed' /\ flush'[req[d].h] = "none"
                   /\ req[d].h \notin dirty'
                   /\ \A t \in Conns : entries'[t][req[d].key] # req[d].h
<1> USE NilAssumption
<1>a. /\ TypeOK /\ ControlInv /\ CachedInv /\ PrivateInv /\ MarkerInv /\ BufferInv /\ WriteInv
      /\ pc[d] = "publish" /\ req[d].h \in Handles /\ req[d].key \in Keys
  BY DEF IInv, ControlInv
<1> USE DEF TypeOK, PrivateInv, cacheVars, fdVars, trackVars, flushVars, diskVars, replyVars
<1>k. /\ hkey[req[d].h] = req[d].key /\ req[d].h \notin closed /\ flush[req[d].h] = "none"
      /\ req[d].h \notin dirty
      /\ \A t \in Conns : entries[t][req[d].key] # req[d].h
      /\ flush \in [Handles -> {"none", "close", "finish", "rotate"}] /\ req[d].h \in Handles
  BY <1>a
<1>b. ASSUME NEW S \in SUBSET Handles, Takes(S) PROVE Kept
  <2>1. \A t \in Conns, k \in Keys : entries[t][k] # req[d].h
    BY SMT, <1>a DEF CachedInv
  <2>2. req[d].h \notin S
    BY <1>b, <2>1 DEF Takes
  <2> QED
    BY <1>a, <1>b, <2>1, <2>2 DEF Takes
<1>1. ASSUME NEW c \in Conns, Connect(c) PROVE Kept
  BY <1>a, <1>1 DEF Connect
<1>2. ASSUME NEW c \in Conns, Drain(c) PROVE Kept
  <2>1. PICK S \in SUBSET Handles : Takes(S)
    BY <1>2, DrainTakes
  <2> QED
    BY <1>b, <2>1
<1>3. ASSUME NEW c \in Conns, Unregister(c) PROVE Kept
  BY <1>a, <1>3 DEF Unregister
<1>4. ASSUME NEW c \in Conns, SweepIdle(c) PROVE Kept
  <2>1. PICK S \in SUBSET Handles : Takes(S)
    BY <1>4, SweepTakes
  <2> QED
    BY <1>b, <2>1
<1>5. ASSUME NEW c \in Conns, NEW w \in Writes, NEW how \in {"unstable", "stable"},
             StartWrite(c, w, how) PROVE Kept
  BY <1>a, <1>5 DEF StartWrite
<1>6. ASSUME NEW c \in Conns, NEW k \in Keys, NEW op \in {"commit", "read", "drop"},
             StartBroadcast(c, k, op) PROVE Kept
  BY <1>a, <1>6 DEF StartBroadcast
<1>7. ASSUME NEW c \in Conns, Lookup(c) PROVE Kept
  BY <1>a, <1>7 DEF Lookup
<1>8. ASSUME NEW c \in Conns \ {d}, OpenFile(c) PROVE Kept
  <2>1. UNCHANGED <<entries, closed, dirty, flush>>
    BY <1>8 DEF OpenFile
  <2>2. \/ UNCHANGED hkey
        \/ \E h \in Handles : hkey[h] = Nil /\ hkey' = [hkey EXCEPT ![h] = req[c].key]
    BY <1>8 DEF OpenFile
  <2>3. hkey \in [Handles -> Keys \cup {Nil}] /\ req[d].key \in Keys
    BY <1>a
  <2> HIDE DEF TypeOK, PrivateInv
  <2> QED
    BY SMT, <1>k, <2>1, <2>2, <2>3
<1>9. ASSUME NEW c \in Conns \ {d}, PutIfFresh(c) PROVE Kept
  <2>1. PICK S \in SUBSET Handles : Publishes(c, S)
    BY <1>9, PutPublishes
  <2>3. req[c].h # req[d].h
    BY <1>a, <2>1 DEF Publishes
  <2>4. UNCHANGED <<hkey, closed, dirty>>
    BY <2>1 DEF Publishes
  <2>5. \A t \in Conns, k \in Keys : entries[t][k] # req[d].h
    BY SMT, <1>a DEF CachedInv
  <2>6. req[d].h \notin S
    BY <2>1, <2>5 DEF Publishes
  <2>7. /\ entries' = [t \in Conns |-> [k \in Keys |->
             IF t = c /\ k = req[c].key THEN req[c].h
             ELSE IF entries[t][k] \in S THEN Nil ELSE entries[t][k]]]
        /\ flush' = [h \in Handles |-> IF h \in S THEN "close" ELSE flush[h]]
    BY <2>1 DEF Publishes
  <2>8. req[d].h \in Handles /\ req[d].key \in Keys /\ req[d].h # Nil
    BY <1>a
  <2> HIDE DEF TypeOK, PrivateInv
  <2> QED
    BY SMT, <1>k, <2>3, <2>4, <2>6, <2>7, <2>8
<1>10. ASSUME NEW c \in Conns \ {d}, PutRefused(c) PROVE Kept
  <2>1. pc[c] = "publish" /\ closed' = closed \cup {req[c].h} /\ UNCHANGED <<entries, hkey, dirty, flush>>
    BY <1>10 DEF PutRefused
  <2>3. req[c].h # req[d].h
    BY <1>a, <2>1
  <2> HIDE DEF TypeOK, PrivateInv
  <2> QED
    BY <2>1, <1>k, <2>3
<1>11. ASSUME NEW c \in Conns, WriteAtClosed(c) PROVE Kept
  <2> HIDE DEF TypeOK, PrivateInv
  <2>2. /\ \A t \in Conns : entries'[t][req[d].key] \in {entries[t][req[d].key], Nil}
        /\ UNCHANGED <<hkey, closed, flush, dirty>>
    BY <1>a, <1>11, ClosedEntries
  <2>3. req[d].h # Nil
    BY <1>a
  <2> QED
    BY <1>k, <2>2, <2>3
<1>12. ASSUME NEW c \in Conns, WriteAt(c) PROVE Kept
  <2> HIDE DEF TypeOK
  <2>1. pc[c] = "write" /\ req[c].key \in Keys /\ req[c].op \in {"unstable", "stable"}
    BY <1>a, <1>12, WriteAtFd DEF ControlInv
  <2>2. /\ hkey[req[c].h] = req[c].key
        /\ \/ req[c].h \in closed \/ flush[req[c].h] = "close"
           \/ entries[c][req[c].key] = req[c].h
    BY <1>a, <2>1 DEF WriteInv
  <2>3. req[c].h # req[d].h
    BY SMT, <1>a, <2>2
  <2> HIDE DEF PrivateInv
  <2>5. dirty' \subseteq dirty \cup {req[c].h} /\ UNCHANGED <<entries, hkey, closed, flush>>
    BY <1>12, WriteAtFd
  <2> QED
    BY <2>3, <1>k, <2>5
<1>13. ASSUME NEW c \in Conns, StableSync(c) PROVE Kept
  BY <1>a, <1>13 DEF StableSync, SyncFd
<1>14. ASSUME NEW c \in Conns, StableDetach(c) PROVE Kept
  <2>1. PICK S \in SUBSET Handles : Takes(S)
    BY <1>14, StableDetachTakes
  <2> QED
    BY <1>b, <2>1
<1>15. ASSUME NEW c \in Conns, StableClosed(c) PROVE Kept
  BY <1>a, <1>15 DEF StableClosed
<1>16. ASSUME NEW c \in Conns, Wait(c) PROVE Kept
  BY <1>a, <1>16 DEF Wait
<1>17. ASSUME NEW c \in Conns, WriteReply(c) PROVE Kept
  BY <1>a, <1>17 DEF WriteReply
<1>18. ASSUME NEW c \in Conns, CommitGet(c) PROVE Kept
  BY <1>a, <1>18 DEF CommitGet
<1>19. ASSUME NEW c \in Conns, ReadGet(c) PROVE Kept
  BY <1>a, <1>19 DEF ReadGet
<1>20. ASSUME NEW c \in Conns, VisitSync(c) PROVE Kept
  BY <1>a, <1>20 DEF VisitSync, SyncFd
<1>21. ASSUME NEW c \in Conns, VisitDetach(c) PROVE Kept
  <2>1. PICK S \in SUBSET Handles : Takes(S)
    BY <1>21, VisitDetachTakes
  <2> QED
    BY <1>b, <2>1
<1>22. ASSUME NEW c \in Conns, VisitClosed(c) PROVE Kept
  BY <1>a, <1>22 DEF VisitClosed
<1>23. ASSUME NEW c \in Conns, VisitAwait(c) PROVE Kept
  BY <1>a, <1>23 DEF VisitAwait
<1>24. ASSUME NEW c \in Conns, DropConn(c) PROVE Kept
  <2>1. PICK S \in SUBSET Handles : Takes(S)
    BY <1>24, DropTakes
  <2> QED
    BY <1>b, <2>1
<1>25. ASSUME NEW c \in Conns, VisitDone(c) PROVE Kept
  BY <1>a, <1>25 DEF VisitDone
<1>26. ASSUME NEW c \in Conns, ReadAwait(c) PROVE Kept
  BY <1>a, <1>26 DEF ReadAwait
<1>27. ASSUME NEW c \in Conns, CommitByPath(c) PROVE Kept
  BY <1>a, <1>27 DEF CommitByPath
<1>28. ASSUME NEW c \in Conns, CommitReply(c) PROVE Kept
  BY <1>a, <1>28 DEF CommitReply
<1>29. ASSUME NEW h \in Handles, EvictFlush(h) PROVE Kept
  <2>1. /\ flush[h] = "close" /\ flush' = [flush EXCEPT ![h] = "finish"] /\ dirty' = dirty \ {h}
        /\ closed' = closed \cup {h} /\ UNCHANGED <<entries, hkey>>
    BY <1>29 DEF EvictFlush
  <2> HIDE DEF TypeOK, PrivateInv
  <2> QED
    BY SMT, <1>k, <2>1
<1>30. ASSUME NEW h \in Handles, Finish(h) PROVE Kept
  <2>1. /\ flush[h] = "finish" /\ \E f \in {"rotate", "none"} : flush' = [flush EXCEPT ![h] = f]
        /\ UNCHANGED <<entries, hkey, closed, dirty>>
    BY <1>30 DEF Finish
  <2> HIDE DEF TypeOK, PrivateInv
  <2> QED
    BY SMT, <1>k, <2>1
<1>31. ASSUME NEW h \in Handles, FireLoss(h) PROVE Kept
  <2>1. /\ flush[h] = "rotate" /\ flush' = [flush EXCEPT ![h] = "none"]
        /\ UNCHANGED <<entries, hkey, closed, dirty>>
    BY <1>31 DEF FireLoss
  <2> HIDE DEF TypeOK, PrivateInv
  <2> QED
    BY SMT, <1>k, <2>1
<1>c. ~PutIfFresh(d) /\ ~PutRefused(d) /\ ~OpenFile(d)
  BY SMT, <1>a, pc'[d] = "publish" DEF PutIfFresh, PutRefused, OpenFile, Retry, Return, Goto
<1> HIDE DEF TypeOK, PrivateInv, Kept, cacheVars, fdVars, trackVars, flushVars, diskVars, replyVars
<1>d. Kept
  BY <1>c, <1>1, <1>2, <1>3, <1>4, <1>5, <1>6, <1>7, <1>8, <1>9, <1>10, <1>11, <1>12, <1>13, <1>14, <1>15, <1>16,
     <1>17, <1>18, <1>19, <1>20, <1>21, <1>22, <1>23, <1>24, <1>25, <1>26, <1>27, <1>28, <1>29, <1>30, <1>31
  DEF Next, Requesting, Serving, Flushing
<1> QED
  BY <1>d DEF Kept
=============================================================================
