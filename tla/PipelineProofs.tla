--------------------------- MODULE PipelineProofs ----------------------------
(***************************************************************************)
(* The safety of Pipeline for any number of frames and any length of their *)
(* bodies: IInv (at the end of Pipeline) is inductive.                     *)
(***************************************************************************)
EXTENDS Pipeline, TLAPS

\* Most leaves are about numbers and sequences.
USE SMT

\* The frames that a client sends, whole or cut short.
LEMMA Frames ==
  ASSUME NEW n \in Nat, NEW good \in BOOLEAN, NEW body \in 0..MaxBody, NEW have \in 0..MaxBody
  PROVE  LET f == [xid |-> n, good |-> good, body |-> body, have |-> have] IN
         f \in Frame /\ f.xid = n /\ f.body = body /\ f.have = have
  BY Zenon DEF Frame

\* A frame of which less arrives.
LEMMA Shortened ==
  ASSUME NEW f \in Frame, NEW have \in 0..MaxBody
  PROVE  LET g == [f EXCEPT !.have = have] IN g \in Frame /\ g.body = f.body /\ g.have = have
  BY Zenon DEF Frame

\* The fields of a frame and of a reply.
LEMMA Fields ==
  /\ \A f \in Frame : /\ f.xid \in Nat /\ f.good \in BOOLEAN
                      /\ f.body \in 0..MaxBody /\ f.have \in 0..MaxBody
  /\ \A r \in Reply : r.xid \in Nat /\ r.hdrs \in Nat /\ r.torn \in BOOLEAN
  /\ Nil \notin Frame /\ Nil \notin Reply
  BY Zenon, PipelineAssumption DEF Frame, Reply

\* A reply before the handler runs, after its header is written, and torn.
LEMMA Replies ==
  /\ \A n \in Nat : LET r == [xid |-> n, hdrs |-> 0, torn |-> FALSE] IN
        r \in Reply /\ r.xid = n /\ r.hdrs = 0 /\ r.torn = FALSE
  /\ \A r \in Reply : \A h \in Nat : LET q == [r EXCEPT !.hdrs = h] IN
        q \in Reply /\ q.xid = r.xid /\ q.hdrs = h /\ q.torn = r.torn
  /\ \A r \in Reply : LET q == [r EXCEPT !.torn = TRUE] IN
        q \in Reply /\ q.xid = r.xid /\ q.hdrs = r.hdrs /\ q.torn = TRUE
<1>1. 0 \in Nat OBVIOUS
<1> QED BY Zenon, <1>1 DEF Reply

\* What a handler and conn.err do to the reply.
LEMMA Headers ==
  ASSUME msg \in Reply
  PROVE  /\ Handle => /\ msg' \in Reply /\ msg'.xid = msg.xid /\ msg'.torn = msg.torn
                      /\ msg'.hdrs \in {0, 1}
         /\ Respond => /\ msg' \in Reply /\ msg'.xid = msg.xid /\ msg'.torn = msg.torn
                       /\ msg'.hdrs = IF msg.hdrs = 0 /\ ~ctxDone THEN 1 ELSE msg.hdrs
<1>1. 0 \in Nat /\ 1 \in Nat /\ msg.hdrs \in Nat
  <2>1. 0 \in Nat /\ 1 \in Nat OBVIOUS
  <2> QED BY Zenon, <2>1, Fields
<1>2. ASSUME NEW h \in Nat, msg' = [msg EXCEPT !.hdrs = h]
      PROVE  msg' \in Reply /\ msg'.xid = msg.xid /\ msg'.torn = msg.torn /\ msg'.hdrs = h
  <2>1. PICK m : m = msg OBVIOUS
  <2> QED BY ZenonT(40), <1>2, <2>1, Replies
<1>3. ASSUME Handle
      PROVE  msg' \in Reply /\ msg'.xid = msg.xid /\ msg'.torn = msg.torn /\ msg'.hdrs \in {0, 1}
  <2>1. PICK h \in {0, 1} : msg' = [msg EXCEPT !.hdrs = h] BY Zenon, <1>3 DEF Handle
  <2> QED BY Zenon, <1>1, <1>2, <2>1
<1>4. ASSUME Respond
      PROVE  /\ msg' \in Reply /\ msg'.xid = msg.xid /\ msg'.torn = msg.torn
             /\ msg'.hdrs = IF msg.hdrs = 0 /\ ~ctxDone THEN 1 ELSE msg.hdrs
  <2>1. PICK h : h = IF msg.hdrs = 0 /\ ~ctxDone THEN 1 ELSE msg.hdrs OBVIOUS
  <2>2. h \in Nat BY Zenon, <1>1, <2>1
  <2>3. msg' = [msg EXCEPT !.hdrs = h] BY Zenon, <1>4, <2>1 DEF Respond
  <2> QED BY Zenon, <1>2, <2>1, <2>2, <2>3
<1> QED BY Zenon, <1>3, <1>4

\* What the client does to the stream.
LEMMA ClientStep ==
  ASSUME TypeOK, Client
  PROVE  /\ UNCHANGED <<spc, req, limit, msg, failed, ctxDone, sock, slot, writerVars>>
         /\ \/ \E f \in Frame : /\ in' = Append(in, f) /\ f.xid = sent' /\ f.have <= f.body
                                /\ sent' = sent + 1 /\ sent < MaxFrames
                                /\ UNCHANGED rest
            \/ in' = in /\ UNCHANGED <<sent, rest>>
            \/ /\ peer' = "gone" /\ UNCHANGED sent
               /\ \/ /\ UNCHANGED rest
                     /\ \E n \in 1..Len(in), f \in Frame :
                          /\ in' = Append(SubSeq(in, 1, n - 1), f)
                          /\ f.have <= in[n].have /\ f.body = in[n].body
                  \/ in' = <<>> /\ rest' \in 0..rest
         /\ peer' = peer \/ peer' = "gone"
         /\ end' \in {"open", "eof", "reset"} /\ (end' = "reset" => peer' = "gone" \/ end = "reset")
<1> USE DEF serveVars, writerVars
<1>1. CASE ClientSend
  <2>1. PICK good \in BOOLEAN, body \in 0..MaxBody :
          in' = Append(in, [xid |-> sent', good |-> good, body |-> body, have |-> body])
    BY Zenon, <1>1 DEF ClientSend
  <2>2. sent' = sent + 1 /\ sent < MaxFrames /\ sent' \in Nat /\ body <= body
    BY <1>1 DEF ClientSend, TypeOK
  <2>3. UNCHANGED <<spc, req, limit, rest, msg, failed, ctxDone, sock, slot, writerVars, end, peer>>
    BY Zenon, <1>1 DEF ClientSend
  <2> QED BY Zenon, <2>1, <2>2, <2>3, Frames DEF TypeOK
<1>2. CASE ClientCut
  <2>0. PICK good \in BOOLEAN, body \in 1..MaxBody : \E have \in 0..(body - 1) :
          in' = Append(in, [xid |-> sent', good |-> good, body |-> body, have |-> have])
    BY Zenon, <1>2 DEF ClientCut
  <2>1. PICK have \in 0..(body - 1) :
          in' = Append(in, [xid |-> sent', good |-> good, body |-> body, have |-> have])
    BY Zenon, <2>0
  <2>2. /\ sent' = sent + 1 /\ sent < MaxFrames /\ sent' \in Nat /\ have <= body
        /\ body \in 0..MaxBody /\ have \in 0..MaxBody
    BY <1>2, PipelineAssumption DEF ClientCut, TypeOK
  <2>3. /\ UNCHANGED <<spc, req, limit, rest, msg, failed, ctxDone, sock, slot, writerVars>>
        /\ (end' = "eof" /\ UNCHANGED peer) \/ (end' = "reset" /\ peer' = "gone")
    BY Zenon, <1>2 DEF ClientCut
  <2> QED BY Zenon, <2>1, <2>2, <2>3, Frames DEF TypeOK
<1>3. CASE ClientClose \/ ClientLeave
  BY Zenon, <1>3 DEF ClientClose, ClientLeave, TypeOK
<1>4. CASE ClientReset
  <2>1. /\ UNCHANGED <<sent, spc, req, limit, msg, failed, ctxDone, sock, slot, writerVars>>
        /\ end' = "reset" /\ peer' = "gone"
    BY Zenon, <1>4 DEF ClientReset
  <2>2. ASSUME NEW n \in 1..Len(in), NEW have \in 0..in[n].have,
               in' = Append(SubSeq(in, 1, n - 1), [in[n] EXCEPT !.have = have])
        PROVE  \E f \in Frame : /\ in' = Append(SubSeq(in, 1, n - 1), f)
                                /\ f.have <= in[n].have /\ f.body = in[n].body
    <3>1. in[n] \in Frame BY DEF TypeOK
    <3>2. in[n].have \in 0..MaxBody BY Zenon, <3>1, Fields
    <3>3. \A m \in 0..MaxBody : \A k \in 0..m : k \in 0..MaxBody /\ k <= m
      BY PipelineAssumption
    <3>4. have \in 0..MaxBody /\ have <= in[n].have BY Zenon, <3>2, <3>3
    <3>5. LET g == [in[n] EXCEPT !.have = have] IN g \in Frame /\ g.body = in[n].body /\ g.have = have
      BY Zenon, <3>1, <3>4, Shortened
    <3> QED BY Zenon, <2>2, <3>4, <3>5
  <2> QED BY Zenon, <1>4, <2>1, <2>2 DEF ClientReset
<1> QED BY Zenon, <1>1, <1>2, <1>3, <1>4 DEF Client

\* The conjuncts of TypeOK, by who changes them.
ClientOK == /\ sent \in 0..MaxFrames /\ in \in Seq(Frame)
            /\ end \in {"open", "eof", "reset"} /\ peer \in {"up", "gone"}
ServeOK == /\ spc \in {"new", "read", "handle", "drain", "respond", "finish", "leave", "done"}
           /\ req \in Frame \cup {Nil} /\ limit \in 0..MaxBody /\ rest \in 0..MaxBody
           /\ msg \in Reply \cup {Nil} /\ failed \in BOOLEAN
SharedOK == ctxDone \in BOOLEAN /\ sock \in {"open", "closed"} /\ slot \in Reply \cup {Nil}
WriterOK == /\ wpc \in {"off", "select", "write", "exited"}
            /\ cur \in Reply \cup {Nil} /\ got \in Seq(Reply)

\* Together they are TypeOK, and each stays while its variables do.
LEMMA TypeParts ==
  /\ TypeOK => ClientOK /\ ServeOK /\ SharedOK /\ WriterOK
  /\ (ClientOK /\ ServeOK /\ SharedOK /\ WriterOK => TypeOK)'
  /\ ClientOK /\ UNCHANGED clientVars => ClientOK'
  /\ ServeOK /\ UNCHANGED serveVars => ServeOK'
  /\ SharedOK /\ UNCHANGED <<ctxDone, sock, slot>> => SharedOK'
  /\ WriterOK /\ UNCHANGED writerVars => WriterOK'
<1>1. TypeOK => ClientOK /\ ServeOK /\ SharedOK /\ WriterOK
  BY Zenon DEF TypeOK, ClientOK, ServeOK, SharedOK, WriterOK
<1>2. (ClientOK /\ ServeOK /\ SharedOK /\ WriterOK => TypeOK)'
  BY Zenon DEF TypeOK, ClientOK, ServeOK, SharedOK, WriterOK
<1>3. ClientOK /\ UNCHANGED clientVars => ClientOK' BY Zenon DEF ClientOK, clientVars
<1>4. ServeOK /\ UNCHANGED serveVars => ServeOK' BY Zenon DEF ServeOK, serveVars
<1>5. SharedOK /\ UNCHANGED <<ctxDone, sock, slot>> => SharedOK' BY Zenon DEF SharedOK
<1>6. WriterOK /\ UNCHANGED writerVars => WriterOK' BY Zenon DEF WriterOK, writerVars
<1> QED BY Zenon, <1>1, <1>2, <1>3, <1>4, <1>5, <1>6

\* What is in the channel, with a goroutine and at the client stays typed.
LEMMA TypeStep ==
  ASSUME IInv, Next
  PROVE  TypeOK'
<1>t. TypeOK /\ ClientOK /\ ServeOK /\ SharedOK /\ WriterOK BY Zenon, TypeParts DEF IInv
<1>z. 0 \in 0..MaxBody /\ 0 \in Nat /\ 1 \in Nat BY PipelineAssumption
<1>1. ASSUME Client PROVE ClientOK' /\ ServeOK'
  <2>0. sent \in 0..MaxFrames /\ (sent < MaxFrames => sent + 1 \in 0..MaxFrames)
    BY <1>t, PipelineAssumption DEF ClientOK
  <2>1. sent' \in 0..MaxFrames BY Zenon, <1>1, <1>t, <2>0, ClientStep
  <2>2. in' \in Seq(Frame)
    <3>1. ASSUME NEW f \in Frame PROVE Append(in, f) \in Seq(Frame) BY <1>t DEF ClientOK
    <3>2. ASSUME NEW f \in Frame, NEW n \in 1..Len(in)
          PROVE  Append(SubSeq(in, 1, n - 1), f) \in Seq(Frame)
      BY <1>t DEF ClientOK
    <3>3. in \in Seq(Frame) /\ <<>> \in Seq(Frame) BY <1>t DEF ClientOK
    <3> QED BY Zenon, <1>1, <1>t, <3>1, <3>2, <3>3, ClientStep
  <2>3. rest' \in 0..MaxBody
    <3>1. \A m \in 0..rest : m \in 0..MaxBody BY <1>t, PipelineAssumption DEF ServeOK
    <3>2. rest \in 0..MaxBody BY Zenon, <1>t DEF ServeOK
    <3> QED BY Zenon, <1>1, <1>t, <3>1, <3>2, ClientStep
  <2>4. peer' \in {"up", "gone"} BY Zenon, <1>1, <1>t, ClientStep DEF ClientOK
  <2>5. /\ end' \in {"open", "eof", "reset"}
        /\ UNCHANGED <<spc, req, limit, msg, failed, ctxDone, sock, slot, writerVars>>
    BY Zenon, <1>1, <1>t, ClientStep
  <2> QED BY Zenon, <1>t, <2>1, <2>2, <2>3, <2>4, <2>5 DEF ClientOK, ServeOK
<1>2. CASE Client
  <2>1. UNCHANGED <<ctxDone, sock, slot>> /\ UNCHANGED writerVars
    BY Zenon, <1>2, <1>t, ClientStep
  <2> QED BY Zenon, <1>1, <1>2, <1>t, <2>1, TypeParts
<1>3. CASE Cancel
  BY Zenon, <1>t, <1>3, TypeParts DEF Cancel, SharedOK
<1>4. ASSUME Serve PROVE ServeOK'
  <2> USE DEF serveVars
  <2>1. CASE Accept \/ ReadEnd \/ Leave
    BY Zenon, <1>t, <2>1 DEF Accept, ReadEnd, Leave, ServeOK
  <2>2. CASE ReadRequest
    <3>1. Head(in) \in Frame BY <1>t, <2>2 DEF ReadRequest, ClientOK
    <3> QED BY Zenon, <1>t, <2>2, <3>1, Fields, Replies DEF ReadRequest, ServeOK
  <2>3. CASE Handle
    <3>1. PICK n \in 0..rest : limit' = limit - n /\ rest' = rest - n BY Zenon, <2>3 DEF Handle
    <3>2. limit' \in 0..MaxBody /\ rest' \in 0..MaxBody
      BY <1>t, <3>1, PipelineAssumption DEF ServeOK, IInv, BodyInv
    <3>3. msg \in Reply BY Zenon, <2>3, <1>t DEF IInv, ControlInv, Serving, Handle, ServeOK
    <3>4. msg' \in Reply BY Zenon, <2>3, <3>3, Headers
    <3> QED BY Zenon, <1>t, <2>3, <3>2, <3>4 DEF Handle, ServeOK
  <2>4. CASE Drain
    BY Zenon, <1>t, <1>z, <2>4 DEF Drain, ServeOK
  <2>5. CASE Respond
    <3>1. msg \in Reply BY Zenon, <2>5, <1>t DEF IInv, ControlInv, Serving, Respond, ServeOK
    <3>2. msg' \in Reply BY Zenon, <2>5, <3>1, Headers
    <3> QED BY Zenon, <1>t, <2>5, <3>2 DEF Respond, ServeOK
  <2>6. CASE Finish
    BY Zenon, <1>t, <2>6 DEF Finish, ServeOK
  <2> QED BY Zenon, <1>4, <2>1, <2>2, <2>3, <2>4, <2>5, <2>6 DEF Serve
<1>5. ASSUME Serve PROVE ClientOK' /\ SharedOK' /\ WriterOK'
  <2> USE DEF clientVars, serveVars, writerVars
  <2>1. sent' = sent /\ end' = end /\ peer' = peer /\ cur' = cur /\ got' = got /\ wpc' \in {"select", wpc}
    BY Zenon, <1>5 DEF Serve, Accept, ReadEnd, Leave, ReadRequest, Handle, Drain, Respond, Finish
  <2>2. in' = in \/ (in # <<>> /\ in' = Tail(in))
    BY Zenon, <1>5 DEF Serve, Accept, ReadEnd, Leave, ReadRequest, Handle, Drain, Respond, Finish
  <2>3. in' \in Seq(Frame)
    <3>1. in \in Seq(Frame) /\ (in # <<>> => Tail(in) \in Seq(Frame)) BY <1>t DEF ClientOK
    <3> QED BY Zenon, <2>2, <3>1
  <2>4. /\ ctxDone' \in {ctxDone, TRUE} /\ sock' \in {sock, "closed"}
        /\ slot' = slot \/ slot' = msg
    BY Zenon, <1>5 DEF Serve, Accept, ReadEnd, Leave, ReadRequest, Handle, Drain, Respond, Finish
  <2> QED BY Zenon, <1>t, <2>1, <2>3, <2>4 DEF ClientOK, SharedOK, WriterOK, ServeOK
<1>6. ASSUME Writer PROVE ClientOK' /\ ServeOK' /\ SharedOK'
  <2>1. UNCHANGED clientVars /\ UNCHANGED serveVars /\ UNCHANGED <<ctxDone, sock>> /\ slot' \in {slot, Nil}
    BY Zenon, <1>6 DEF Writer, WriterTake, WriterStop, WriterWrite, WriterFail
  <2> QED BY Zenon, <1>t, <2>1, TypeParts DEF SharedOK
<1>7. ASSUME Writer PROVE WriterOK'
  <2>1. CASE WriterTake \/ WriterStop
    BY Zenon, <1>t, <2>1 DEF WriterTake, WriterStop, WriterOK, SharedOK
  <2>2. ASSUME WriterWrite \/ WriterFail PROVE WriterOK'
    <3>1. cur \in Reply BY Zenon, <2>2, <1>t DEF IInv, ControlInv, WriterWrite, WriterFail, WriterOK
    <3>2. \A r \in Reply : Append(got, r) \in Seq(Reply) BY <1>t DEF WriterOK
    <3>3. [cur EXCEPT !.torn = TRUE] \in Reply BY Zenon, <3>1, Replies
    <3>4. got' = got \/ got' = Append(got, cur) \/ got' = Append(got, [cur EXCEPT !.torn = TRUE])
      BY Zenon, <2>2 DEF WriterWrite, WriterFail
    <3>5. got' \in Seq(Reply) BY Zenon, <1>t, <3>1, <3>2, <3>3, <3>4 DEF WriterOK
    <3> QED BY Zenon, <2>2, <3>5 DEF WriterWrite, WriterFail, WriterOK
  <2> QED BY Zenon, <1>7, <2>1, <2>2 DEF Writer
<1> QED BY Zenon, <1>2, <1>3, <1>4, <1>5, <1>6, <1>7, TypeParts DEF Next

\* A goroutine has a reply exactly while it works on it.
LEMMA ControlStep ==
  ASSUME IInv, Next
  PROVE  ControlInv'
<1> USE DEF clientVars, serveVars, writerVars
<1>t. TypeOK /\ ControlInv BY DEF IInv
<1>1. CASE Client
  BY Zenon, <1>1, <1>t, ClientStep DEF ControlInv
<1>2. CASE Cancel \/ Accept \/ ReadEnd \/ Leave \/ WriterStop
  BY Zenon, <1>t, <1>2 DEF Cancel, Accept, ReadEnd, Leave, WriterStop, ControlInv, Serving
<1>3. CASE ReadRequest
  <2>1. Head(in) \in Frame BY <1>t, <1>3 DEF ReadRequest, TypeOK
  <2>2. msg' \in Reply BY Zenon, <1>3, <2>1, Fields, Replies DEF ReadRequest
  <2>3. msg' # Nil BY Zenon, <2>2, Fields
  <2> QED BY Zenon, <1>t, <1>3, <2>3 DEF ReadRequest, ControlInv, Serving
<1>4. CASE Handle \/ Respond
  <2>1. msg \in Reply BY Zenon, <1>4, <1>t DEF ControlInv, Serving, Handle, Respond, TypeOK
  <2>3. msg' # Nil BY Zenon, <1>4, <2>1, Headers, Fields
  <2> QED BY Zenon, <1>t, <1>4, <2>3 DEF Handle, Respond, ControlInv, Serving
<1>5. CASE Drain \/ Finish
  BY Zenon, <1>t, <1>5 DEF Drain, Finish, ControlInv, Serving
<1>6. CASE WriterTake \/ WriterWrite \/ WriterFail
  BY Zenon, <1>t, <1>6 DEF WriterTake, WriterWrite, WriterFail, ControlInv
<1> QED BY Zenon, <1>1, <1>2, <1>3, <1>4, <1>5, <1>6 DEF Next, Serve, Writer

\* The LimitedReader never promises less than is in the stream, and drain leaves nothing.
LEMMA BodyStep ==
  ASSUME IInv, Next
  PROVE  BodyInv'
<1> USE DEF clientVars, serveVars, writerVars
<1>t. TypeOK /\ BodyInv BY DEF IInv
<1>i. in \in Seq(Frame) /\ limit \in Nat /\ rest \in Nat /\ rest <= limit
  BY <1>t, PipelineAssumption DEF TypeOK, BodyInv
<1>b. \A n \in 1..Len(in) : in[n].have <= in[n].body BY Zenon, <1>t DEF BodyInv
<1>1. CASE Client
  <2>1. UNCHANGED <<spc, limit>> /\ rest' <= limit
    <3>1. \A m \in 0..rest : m <= limit BY <1>i
    <3> QED BY Zenon, <1>1, <1>t, <1>i, <3>1, ClientStep
  <2>2. \A n \in 1..Len(in') : in'[n].have <= in'[n].body
    <3>1. ASSUME NEW f \in Frame, in' = Append(in, f), f.have <= f.body
          PROVE  \A n \in 1..Len(in') : in'[n].have <= in'[n].body
      <4>1. Len(in') = Len(in) + 1 BY <1>i, <3>1
      <4>2. \A n \in 1..Len(in) : in'[n] = in[n] BY <1>i, <3>1
      <4>3. in'[Len(in) + 1] = f BY <1>i, <3>1
      <4>4. \A n \in 1..Len(in') : n \in 1..Len(in) \/ n = Len(in) + 1 BY <1>i, <4>1
      <4> QED BY Zenon, <1>b, <3>1, <4>2, <4>3, <4>4
    <3>2. ASSUME NEW f \in Frame, NEW n \in 1..Len(in), in' = Append(SubSeq(in, 1, n - 1), f),
                 f.have <= in[n].have, f.body = in[n].body
          PROVE  \A k \in 1..Len(in') : in'[k].have <= in'[k].body
      <4>1. Len(in') = n /\ in'[n] = f BY <1>i, <3>2
      <4>2. \A k \in 1..(n - 1) : k \in 1..Len(in) /\ in'[k] = in[k] BY <1>i, <3>2
      <4>3. in[n] \in Frame BY <1>i
      <4>4. f.have \in Nat /\ f.body \in Nat /\ in[n].have \in Nat
        <5>1. \A m \in 0..MaxBody : m \in Nat BY PipelineAssumption
        <5> QED BY Zenon, <4>3, <5>1, Fields
      <4>5. \A i, j, k \in Nat : i <= j /\ j <= k => i <= k OBVIOUS
      <4>6. f.have <= f.body BY Zenon, <1>b, <3>2, <4>4, <4>5
      <4>7. \A k \in 1..Len(in') : k \in 1..(n - 1) \/ k = n BY <1>i, <4>1
      <4> QED BY Zenon, <1>b, <4>1, <4>2, <4>6, <4>7
    <3>3. ASSUME in' = <<>> PROVE \A n \in 1..Len(in') : in'[n].have <= in'[n].body
      BY <3>3
    <3> QED BY Zenon, <1>1, <1>b, <1>t, <3>1, <3>2, <3>3, ClientStep
  <2> QED BY Zenon, <1>t, <2>1, <2>2 DEF BodyInv
<1>2. CASE Cancel \/ Accept \/ ReadEnd \/ Leave \/ Writer
  BY Zenon, <1>t, <1>2 DEF Cancel, Accept, ReadEnd, Leave, Writer, WriterTake, WriterStop,
     WriterWrite, WriterFail, BodyInv
<1>3. CASE ReadRequest
  <2>1. /\ Head(in) = in[1] /\ 1 \in 1..Len(in) /\ Len(Tail(in)) = Len(in) - 1
        /\ \A n \in 1..(Len(in) - 1) : n + 1 \in 1..Len(in) /\ Tail(in)[n] = in[n + 1]
    BY <1>i, <1>3 DEF ReadRequest
  <2>2. \A n \in 1..Len(in') : in'[n].have <= in'[n].body
    BY Zenon, <1>3, <1>b, <2>1 DEF ReadRequest
  <2>3. rest' <= limit' BY Zenon, <1>3, <1>b, <2>1 DEF ReadRequest
  <2> QED BY Zenon, <1>3, <2>2, <2>3 DEF ReadRequest, BodyInv
<1>4. CASE Handle
  <2>1. PICK n \in 0..rest : limit' = limit - n /\ rest' = rest - n
    BY Zenon, <1>4 DEF Handle
  <2>2. rest' <= limit' BY <1>i, <2>1
  <2> QED BY Zenon, <1>b, <1>4, <2>2 DEF Handle, BodyInv
<1>5. CASE Drain
  <2>1. 0 <= 0 OBVIOUS
  <2> QED BY Zenon, <1>b, <1>5, <2>1 DEF Drain, BodyInv
<1>6. CASE Respond \/ Finish
  BY Zenon, <1>t, <1>6 DEF Respond, Finish, BodyInv
<1> QED BY Zenon, <1>1, <1>2, <1>3, <1>4, <1>5, <1>6 DEF Next, Serve

\* The replies on their way have one header, or none with the context done.
LEMMA PendingStep ==
  ASSUME IInv, Next
  PROVE  PendingInv'
<1> USE DEF clientVars, serveVars, writerVars
<1>t. TypeOK /\ ControlInv /\ PendingInv BY DEF IInv
<1>m. msg # Nil => msg \in Reply BY Zenon, <1>t DEF TypeOK
<1>k. ASSUME {slot', cur'} \subseteq {slot, cur, Nil}, ctxDone => ctxDone', UNCHANGED <<peer, msg>>,
             spc' = "finish" => spc = "finish"
      PROVE  PendingInv'
  <2>1. \A r : HasHeader(r) => HasHeader(r)' BY Zenon, <1>k DEF HasHeader
  <2>2. \A r \in {slot', cur'} \ {Nil} : ~r.torn /\ (peer' = "up" => HasHeader(r)')
    BY Zenon, <1>t, <1>k, <2>1 DEF PendingInv
  <2>3. spc' = "finish" /\ peer' = "up" => HasHeader(msg)' BY Zenon, <1>t, <1>k DEF PendingInv, HasHeader
  <2> QED BY Zenon, <1>t, <1>k, <2>2, <2>3 DEF PendingInv, HasHeader
<1>1. CASE Client
  <2>1. UNCHANGED <<spc, msg, ctxDone, slot, cur>> BY Zenon, <1>1, <1>t, ClientStep
  <2>2. peer' = "up" => peer = "up" BY Zenon, <1>1, <1>t, ClientStep
  <2> QED BY Zenon, <1>t, <2>1, <2>2 DEF PendingInv, HasHeader
<1>2. CASE Cancel \/ Accept \/ ReadEnd \/ Leave \/ WriterStop
  BY Zenon, <1>k, <1>2 DEF Cancel, Accept, ReadEnd, Leave, WriterStop
<1>3. CASE ReadRequest
  <2>1. Head(in) \in Frame BY <1>t, <1>3 DEF ReadRequest, TypeOK
  <2>2. Head(in).xid \in Nat BY Zenon, <2>1, Fields
  <2>3. ~msg'.torn /\ msg'.hdrs = 0 BY Zenon, <1>3, <2>2, Replies DEF ReadRequest
  <2> QED BY Zenon, <1>t, <1>3, <2>3 DEF ReadRequest, PendingInv, HasHeader
<1>4. CASE Handle
  <2>1. msg # Nil BY Zenon, <1>4, <1>t DEF ControlInv, Serving, Handle
  <2>2. msg'.torn = msg.torn /\ msg'.hdrs \in {0, 1} BY Zenon, <1>4, <1>m, <2>1, Headers
  <2> QED BY Zenon, <1>t, <1>4, <2>1, <2>2 DEF Handle, PendingInv, HasHeader
<1>5. CASE Drain
  <2>1. spc' = "finish" => peer = "gone" BY Zenon, <1>5, <1>t DEF Drain, ControlInv
  <2> QED BY Zenon, <1>t, <1>5, <2>1 DEF Drain, PendingInv, HasHeader
<1>6. CASE Respond
  <2>1. msg # Nil BY Zenon, <1>6, <1>t DEF ControlInv, Serving, Respond
  <2>2. msg.hdrs \in {0, 1} /\ ~msg.torn BY Zenon, <1>t, <2>1 DEF PendingInv
  <2>3. msg'.torn = msg.torn /\ msg'.hdrs = IF msg.hdrs = 0 /\ ~ctxDone THEN 1 ELSE msg.hdrs
    BY Zenon, <1>6, <1>m, <2>1, Headers
  <2> QED BY Zenon, <1>t, <1>6, <2>2, <2>3 DEF Respond, PendingInv, HasHeader
<1>7. CASE Finish
  BY Zenon, <1>t, <1>7 DEF Finish, PendingInv, HasHeader, ControlInv, Serving
<1>8. CASE WriterTake \/ WriterWrite \/ WriterFail
  BY Zenon, <1>k, <1>8 DEF WriterTake, WriterWrite, WriterFail
<1> QED BY Zenon, <1>1, <1>2, <1>3, <1>4, <1>5, <1>6, <1>7, <1>8 DEF Next, Serve, Writer

\* The client receives the replies in order and whole, but for a torn one at the end.
LEMMA IntactStep ==
  ASSUME IInv, Next
  PROVE  ReplyIntact'
<1> USE DEF clientVars, serveVars, writerVars
<1>t. TypeOK /\ ControlInv /\ PendingInv /\ OrderInv BY DEF IInv
<1>i. \A i \in 1..Len(got) : /\ got[i].xid = i
                             /\ got[i].hdrs = 1 \/ (got[i].hdrs = 0 /\ ctxDone)
                             /\ got[i].torn => i = Len(got) /\ wpc = "exited"
  BY Zenon DEF IInv, ReplyIntact
<1>c. ctxDone => ctxDone'
  <2>1. Client => ctxDone' = ctxDone BY Zenon, <1>t, ClientStep
  <2> QED BY Zenon, <2>1 DEF Next, Cancel, Serve, Accept, ReadRequest, ReadEnd, Handle, Drain,
           Respond, Finish, Leave, Writer, WriterTake, WriterStop, WriterWrite, WriterFail
<1>1. ASSUME UNCHANGED got, wpc = "exited" => wpc' = "exited" PROVE ReplyIntact'
  BY Zenon, <1>i, <1>c, <1>1 DEF ReplyIntact
<1>2. ASSUME NEW r \in Reply, got' = Append(got, r), wpc # "exited",
             r.xid = Len(got) + 1, HasHeader(r), r.torn => wpc' = "exited"
      PROVE  ReplyIntact'
  <2>1. /\ Len(got') = Len(got) + 1 /\ got'[Len(got) + 1] = r
        /\ \A i \in 1..Len(got) : got'[i] = got[i]
        /\ \A i \in 1..(Len(got) + 1) : i \in 1..Len(got) \/ i = Len(got) + 1
    BY <1>2, <1>t DEF TypeOK
  <2> SUFFICES ASSUME NEW i \in 1..Len(got')
               PROVE  /\ got'[i].xid = i
                      /\ got'[i].hdrs = 1 \/ (got'[i].hdrs = 0 /\ ctxDone')
                      /\ got'[i].torn => i = Len(got') /\ wpc' = "exited"
    BY Zenon DEF ReplyIntact
  <2>2. CASE i \in 1..Len(got) BY Zenon, <1>i, <1>c, <1>2, <2>1, <2>2
  <2>3. CASE i = Len(got) + 1
    <3>1. got'[i] = r BY Zenon, <2>1, <2>3
    <3> QED BY Zenon, <1>c, <1>2, <2>1, <2>3, <3>1 DEF HasHeader
  <2> QED BY Zenon, <2>1, <2>2, <2>3
<1>3. ASSUME wpc = "write", peer = "up"
      PROVE  cur \in Reply /\ cur.xid = Len(got) + 1 /\ HasHeader(cur) /\ ~cur.torn
  <2>1. cur # Nil /\ cur \in Reply BY Zenon, <1>3, <1>t DEF ControlInv, TypeOK
  <2>2. cur.xid = Begun BY Zenon, <1>3, <1>t, <2>1 DEF OrderInv
  <2> QED BY Zenon, <1>3, <1>t, <2>1, <2>2 DEF PendingInv, Begun
<1>4. CASE WriterWrite
  <2>1. CASE peer = "up"
    <3>1. got' = Append(got, cur) /\ wpc = "write" BY Zenon, <1>4, <2>1 DEF WriterWrite
    <3>2. PICK r : r = cur OBVIOUS
    <3> QED BY Zenon, <1>2, <1>3, <2>1, <3>1, <3>2 DEF HasHeader
  <2>2. CASE peer # "up" BY Zenon, <1>1, <1>4, <2>2 DEF WriterWrite
  <2> QED BY Zenon, <2>1, <2>2
<1>5. CASE WriterFail
  <2>1. CASE peer = "up" /\ got' = Append(got, [cur EXCEPT !.torn = TRUE])
    <3>1. wpc = "write" /\ wpc' = "exited" BY Zenon, <1>5 DEF WriterFail
    <3>2. PICK r : r = [cur EXCEPT !.torn = TRUE] BY Zenon
    <3>3. r \in Reply /\ r.xid = cur.xid /\ r.hdrs = cur.hdrs
      BY Zenon, <1>3, <2>1, <3>1, <3>2, Replies
    <3> QED BY Zenon, <1>2, <1>3, <2>1, <3>1, <3>2, <3>3 DEF HasHeader
  <2>2. CASE UNCHANGED got BY Zenon, <1>1, <1>5, <2>2 DEF WriterFail
  <2> QED BY Zenon, <1>5, <2>1, <2>2 DEF WriterFail
<1>6. CASE Client
  BY Zenon, <1>1, <1>6, <1>t, ClientStep
<1>7. CASE Cancel \/ Serve \/ WriterTake \/ WriterStop
  <2>1. UNCHANGED got /\ (wpc = "exited" => wpc' = "exited")
    BY Zenon, <1>7, <1>t DEF Cancel, Serve, Accept, ReadRequest, ReadEnd, Handle, Drain, Respond,
       Finish, Leave, WriterTake, WriterStop, ControlInv
  <2> QED BY Zenon, <1>1, <2>1
<1> QED BY Zenon, <1>4, <1>5, <1>6, <1>7 DEF Next, Writer

\* The numbers of the requests stay in order.
LEMMA OrderStep ==
  ASSUME IInv, Next
  PROVE  OrderInv'
<1> USE DEF clientVars, serveVars, writerVars
<1>t. TypeOK /\ ControlInv /\ OrderInv BY DEF IInv
<1>g. Len(got) \in Nat /\ in \in Seq(Frame) /\ got \in Seq(Reply) BY <1>t DEF TypeOK
<1> SUFFICES ASSUME peer' = "up", wpc' # "exited"
             PROVE  /\ cur' # Nil => cur'.xid = Begun'
                    /\ slot' # Nil => slot'.xid = Queued'
                    /\ msg' # Nil => msg'.xid = Served'
                    /\ spc' \notin {"leave", "done"} =>
                         /\ sent' = Served' + Len(in')
                         /\ \A n \in 1..Len(in') : in'[n].xid = Served' + n
  BY Zenon DEF OrderInv
<1>p. peer = "up" /\ wpc # "exited"
  <2>1. Client => peer = "up" /\ wpc' = wpc BY Zenon, <1>t, ClientStep
  <2> QED BY Zenon, <2>1, <1>t DEF Next, Cancel, Serve, Accept, ReadRequest, ReadEnd, Handle, Drain,
           Respond, Finish, Leave, Writer, WriterTake, WriterStop, WriterWrite, WriterFail, ControlInv
<1>o. /\ cur # Nil => cur.xid = Begun
      /\ slot # Nil => slot.xid = Queued
      /\ msg # Nil => msg.xid = Served
      /\ spc \notin {"leave", "done"} =>
           sent = Served + Len(in) /\ \A n \in 1..Len(in) : in[n].xid = Served + n
  BY Zenon, <1>t, <1>p DEF OrderInv
<1>n. Begun \in Nat /\ Queued \in Nat /\ Served \in Nat
  <2>1. \A n \in Nat : n + 0 \in Nat /\ n + 1 \in Nat OBVIOUS
  <2>2. Begun \in Nat BY Zenon, <1>g, <2>1 DEF Begun
  <2>3. Queued \in Nat BY Zenon, <2>1, <2>2 DEF Queued
  <2> QED BY Zenon, <2>1, <2>2, <2>3 DEF Served
<1>1. CASE Client
  <2>1. UNCHANGED <<spc, msg, slot, cur, got>> BY Zenon, <1>1, <1>t, ClientStep
  <2>2. Begun' = Begun /\ Queued' = Queued /\ Served' = Served
    BY Zenon, <2>1 DEF Begun, Queued, Served
  <2>3. ASSUME NEW f \in Frame, in' = Append(in, f), f.xid = sent', sent' = sent + 1,
               spc' \notin {"leave", "done"}
        PROVE  sent' = Served + Len(in') /\ \A n \in 1..Len(in') : in'[n].xid = Served + n
    <3>0. sent = Served + Len(in) /\ \A n \in 1..Len(in) : in[n].xid = Served + n
      BY Zenon, <1>o, <2>1, <2>3
    <3>1. /\ Len(in') = Len(in) + 1 /\ \A n \in 1..Len(in) : in'[n] = in[n]
          /\ in'[Len(in')] = f /\ \A n \in 1..Len(in') : n \in 1..Len(in) \/ n = Len(in')
      BY <1>g, <2>3
    <3>2. sent' = Served + Len(in') BY <1>g, <1>n, <2>3, <3>0, <3>1
    <3> QED BY Zenon, <2>3, <3>0, <3>1, <3>2
  <2> QED BY Zenon, <1>1, <1>o, <1>t, <2>1, <2>2, <2>3, ClientStep
<1>2. CASE Cancel \/ Accept \/ ReadEnd \/ Leave \/ WriterStop \/ Drain
  <2>1. UNCHANGED <<sent, in, msg, slot, cur, got>> /\ (spc' \notin {"leave", "done"} => spc \notin {"leave", "done"})
    BY Zenon, <1>2 DEF Cancel, Accept, ReadEnd, Leave, WriterStop, Drain
  <2> QED BY Zenon, <1>o, <2>1 DEF Begun, Queued, Served
<1>3. CASE Handle \/ Respond
  <2>1. UNCHANGED <<sent, in, slot, cur, got>> /\ spc \notin {"leave", "done"} /\ msg # Nil
    BY Zenon, <1>3, <1>t DEF Handle, Respond, ControlInv, Serving
  <2>2. msg' # Nil /\ msg'.xid = msg.xid BY Zenon, <1>3, <1>t, <2>1, Headers, Fields DEF TypeOK
  <2> QED BY Zenon, <1>o, <2>1, <2>2 DEF Begun, Queued, Served
<1>4. CASE ReadRequest
  <2>1. /\ in # <<>> /\ in' = Tail(in) /\ UNCHANGED <<sent, slot, cur, got>>
        /\ spc = "read" /\ msg = Nil
    BY Zenon, <1>4, <1>t DEF ReadRequest, ControlInv
  <2>2. /\ Head(in) \in Frame /\ Head(in) = in[1] /\ 1 \in 1..Len(in)
        /\ Len(in') = Len(in) - 1
        /\ \A n \in 1..Len(in') : n + 1 \in 1..Len(in) /\ in'[n] = in[n + 1]
    BY <1>g, <2>1
  <2>3. Head(in).xid \in Nat BY Zenon, <2>2, Fields
  <2>4. msg' # Nil /\ msg'.xid = Head(in).xid
    <3>1. msg' \in Reply /\ msg'.xid = Head(in).xid
      BY Zenon, <1>4, <2>3, Replies DEF ReadRequest
    <3> QED BY Zenon, <3>1, Fields
  <2>5. sent = Served + Len(in) /\ \A n \in 1..Len(in) : in[n].xid = Served + n
    BY Zenon, <1>o, <2>1
  <2>6. Begun' = Begun /\ Queued' = Queued /\ Queued = Served /\ Served' = Served + 1
    <3>1. Begun' = Begun BY Zenon, <2>1 DEF Begun
    <3>2. Queued' = Queued BY Zenon, <2>1, <3>1 DEF Queued
    <3>3. Served = Queued BY <1>n, <2>1 DEF Served
    <3>4. Served' = Queued' + 1 BY Zenon, <2>4 DEF Served
    <3> QED BY Zenon, <3>1, <3>2, <3>3, <3>4
  <2>7. msg'.xid = Served' BY Zenon, <2>2, <2>4, <2>5, <2>6
  <2>8. sent' = Served' + Len(in') BY <1>g, <1>n, <2>1, <2>2, <2>5, <2>6
  <2>9. ASSUME NEW n \in 1..Len(in') PROVE in'[n].xid = Served' + n
    <3>1. in'[n].xid = Served + (n + 1) BY Zenon, <2>2, <2>5
    <3>2. Served + (n + 1) = Served' + n BY <1>n, <2>6
    <3> QED BY Zenon, <3>1, <3>2
  <2> QED BY Zenon, <1>o, <2>1, <2>6, <2>7, <2>8, <2>9
<1>5. CASE Finish
  <2>1. /\ UNCHANGED <<sent, in, cur, got>> /\ msg' = Nil /\ msg # Nil /\ spc = "finish"
        /\ (slot = Nil /\ slot' = msg) \/ (slot' = slot /\ spc' = "leave")
    BY Zenon, <1>5, <1>t DEF Finish, ControlInv, Serving
  <2>2. Begun' = Begun BY Zenon, <2>1 DEF Begun
  <2>3. CASE slot = Nil /\ slot' = msg
    <3>1. Queued = Begun BY <1>n, <2>3 DEF Queued
    <3>2. Queued' = Begun + 1 BY Zenon, <2>1, <2>2, <2>3 DEF Queued
    <3>3. Served = Queued + 1 BY Zenon, <2>1 DEF Served
    <3>4. Served' = Queued' + 0 BY Zenon, <2>1 DEF Served
    <3>5. Served' = Served /\ Queued' = Served BY <1>n, <3>1, <3>2, <3>3, <3>4
    <3> QED BY Zenon, <1>o, <2>1, <2>2, <2>3, <3>5
  <2>4. CASE slot' = slot /\ spc' = "leave"
    <3>1. Queued' = Queued BY Zenon, <2>2, <2>4 DEF Queued
    <3> QED BY Zenon, <1>o, <2>1, <2>2, <2>4, <3>1
  <2> QED BY Zenon, <2>1, <2>3, <2>4
<1>6. CASE WriterTake
  <2>1. /\ UNCHANGED <<sent, in, msg, spc, got>> /\ slot # Nil /\ cur' = slot /\ slot' = Nil
        /\ cur = Nil
    BY Zenon, <1>6, <1>t DEF WriterTake, ControlInv
  <2>2. Begun = Len(got) /\ Queued = Begun + 1 BY <1>g, <2>1 DEF Begun, Queued
  <2>3. Begun' = Len(got) + 1 BY Zenon, <2>1 DEF Begun
  <2>4. Queued' = Begun' + 0 BY Zenon, <2>1 DEF Queued
  <2>5. Begun' = Queued /\ Queued' = Queued BY <1>g, <2>2, <2>3, <2>4
  <2>6. Served' = Served BY Zenon, <2>1, <2>5 DEF Served
  <2> QED BY Zenon, <1>o, <2>1, <2>5, <2>6
<1>7. CASE WriterWrite
  <2>1. /\ UNCHANGED <<sent, in, msg, spc, slot>> /\ cur # Nil /\ cur' = Nil
        /\ got' = Append(got, cur)
    BY Zenon, <1>7, <1>t, <1>p DEF WriterWrite, ControlInv
  <2>2. Len(got') = Len(got) + 1
    <3>1. cur \in Reply BY Zenon, <1>t, <2>1 DEF TypeOK
    <3> QED BY <1>g, <2>1, <3>1
  <2>3. Begun = Len(got) + 1 BY Zenon, <2>1 DEF Begun
  <2>4. Begun' = Len(got') + 0 BY Zenon, <2>1 DEF Begun
  <2>5. Begun' = Begun BY <1>g, <2>2, <2>3, <2>4
  <2>6. Queued' = Queued BY Zenon, <2>1, <2>5 DEF Queued
  <2>7. Served' = Served BY Zenon, <2>1, <2>6 DEF Served
  <2> QED BY Zenon, <1>o, <2>1, <2>5, <2>6, <2>7
<1>8. CASE WriterFail
  BY Zenon, <1>8 DEF WriterFail
<1> QED BY Zenon, <1>1, <1>2, <1>3, <1>4, <1>5, <1>6, <1>7, <1>8 DEF Next, Serve, Writer

-----------------------------------------------------------------------------
\* A new connection.
LEMMA InitIInv == Init => IInv
<1> SUFFICES ASSUME Init PROVE IInv OBVIOUS
<1> USE DEF Init
<1>0. 0 \in 0..MaxFrames /\ 0 \in 0..MaxBody /\ <<>> \in Seq(Frame) /\ <<>> \in Seq(Reply)
      /\ Len(<<>>) = 0 /\ (\A n \in 1..0 : FALSE) /\ 0 <= 0
  BY PipelineAssumption
<1>1. TypeOK BY Zenon, <1>0 DEF TypeOK
<1>2. ControlInv BY Zenon DEF ControlInv, Serving
<1>3. BodyInv BY Zenon, <1>0 DEF BodyInv
<1>4. PendingInv BY Zenon DEF PendingInv
<1>5. OrderInv
  <2>1. Begun = 0 BY <1>0 DEF Begun
  <2>2. Queued = 0 BY <2>1 DEF Queued
  <2>3. Served = 0 /\ 0 = 0 + Len(in) BY <1>0, <2>2 DEF Served
  <2> QED BY Zenon, <1>0, <2>3 DEF OrderInv
<1>6. ReplyIntact BY Zenon, <1>0 DEF ReplyIntact
<1> QED BY Zenon, <1>1, <1>2, <1>3, <1>4, <1>5, <1>6 DEF IInv

\* The inductive invariant holds of every reachable state.
LEMMA Invariance == Spec => []IInv
<1>1. IInv /\ [Next]_vars => IInv'
  <2> SUFFICES ASSUME IInv, [Next]_vars PROVE IInv' OBVIOUS
  <2>1. CASE UNCHANGED vars
    <3> USE <2>1 DEF vars, clientVars, serveVars, writerVars
    <3>1. TypeOK' BY Zenon, TypeParts DEF IInv
    <3>2. ControlInv' BY Zenon DEF IInv, ControlInv
    <3>3. BodyInv' BY Zenon DEF IInv, BodyInv
    <3>4. PendingInv' BY Zenon DEF IInv, PendingInv, HasHeader
    <3>5. OrderInv' BY Zenon DEF IInv, OrderInv, Begun, Queued, Served
    <3>6. ReplyIntact' BY Zenon DEF IInv, ReplyIntact
    <3> QED BY Zenon, <3>1, <3>2, <3>3, <3>4, <3>5, <3>6 DEF IInv
  <2>2. CASE Next
    BY Zenon, <2>2, TypeStep, ControlStep, BodyStep, PendingStep, OrderStep, IntactStep DEF IInv
  <2> QED BY Zenon, <2>1, <2>2
<1> QED BY <1>1, InitIInv, PTL DEF Spec

\* The connection's state is well typed: a handler never consumes more than was declared.
THEOREM TypeCorrect == Spec => []TypeOK
<1>1. IInv => TypeOK BY Zenon DEF IInv
<1> QED BY <1>1, Invariance, PTL

\* serve reads a header only at a frame boundary, for bodies and pipelines of any length.
THEOREM InSync == Spec => []FrameSync
<1>1. IInv => FrameSync
  <2> SUFFICES ASSUME IInv, spc = "read" PROVE rest = 0 /\ limit = 0
    BY Zenon DEF FrameSync
  <2>1. limit = 0 /\ rest <= limit BY Zenon DEF IInv, BodyInv
  <2>2. rest \in 0..MaxBody BY Zenon DEF IInv, TypeOK
  <2> QED BY <2>1, <2>2, PipelineAssumption
<1> QED BY <1>1, Invariance, PTL

\* The client gets one reply per request, in order and with one header, however many
\* requests it pipelines.
THEOREM RepliesIntact == Spec => []ReplyIntact
<1>1. IInv => ReplyIntact BY Zenon DEF IInv
<1> QED BY <1>1, Invariance, PTL
=============================================================================
