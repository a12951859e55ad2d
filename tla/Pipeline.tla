------------------------------ MODULE Pipeline -------------------------------
(***************************************************************************)
(* One connection from accept to disconnect (conn.go): the serve loop that *)
(* reads a frame, dispatches it and queues one reply, the one-slot channel *)
(* writeSerializer, the goroutine serializeWrites that puts replies on the *)
(* wire, and the context that ends both.  The client pipelines requests,   *)
(* closes its sending side, cuts a frame short or resets the connection.   *)
(*                                                                         *)
(* A frame is its declared body length and what of it arrives; a reply is  *)
(* the number of RPC headers in it.  What the handlers do to files is in   *)
(* the other modules.                                                      *)
(***************************************************************************)
EXTENDS Integers, Sequences

CONSTANTS
  MaxFrames,  \* bound on the frames the client sends
  MaxBody,    \* bound on the length of a body
  Nil

\* good: the fragment, length and type checks of readRequestHeader pass and the RPC
\* header decodes.  have < body only for a frame cut short.
Frame == [xid : Nat, good : BOOLEAN, body : 0..MaxBody, have : 0..MaxBody]
Reply == [xid : Nat, hdrs : Nat, torn : BOOLEAN]

ASSUME PipelineAssumption ==
  MaxFrames \in Nat /\ MaxBody \in Nat /\ Nil \notin Frame \cup Reply

VARIABLES
  sent,     \* frames the client has sent
  in,       \* frames not yet read, those in the bufio.Reader included
  end,      \* what follows them: "open" (more may come), "eof" or "reset"
  peer,     \* whether the client still takes replies: "up" or "gone"
  spc,      \* where serve is
  req,      \* the frame being served, or Nil
  limit,    \* LimitedReader.N: declared bytes of its body not yet consumed
  rest,     \* bytes of its body that are still in the stream
  msg,      \* response.writer of the request, or Nil
  failed,   \* handle returned an error
  ctxDone,  \* connCtx is cancelled
  sock,     \* net.Conn as the server sees it: "open" or "closed"
  wpc,      \* where serializeWrites is
  slot,     \* the reply in writeSerializer, or Nil
  cur,      \* the reply being written, or Nil
  got       \* replies as the client receives them

clientVars == <<sent, in, end, peer>>
serveVars == <<spc, req, limit, rest, msg, failed>>
writerVars == <<wpc, cur, got>>
vars == <<clientVars, serveVars, ctxDone, sock, slot, writerVars>>

TypeOK ==
  /\ sent \in 0..MaxFrames /\ in \in Seq(Frame)
  /\ end \in {"open", "eof", "reset"} /\ peer \in {"up", "gone"}
  /\ spc \in {"new", "read", "handle", "drain", "respond", "finish", "leave", "done"}
  /\ req \in Frame \cup {Nil} /\ limit \in 0..MaxBody /\ rest \in 0..MaxBody
  /\ msg \in Reply \cup {Nil} /\ failed \in BOOLEAN /\ ctxDone \in BOOLEAN
  /\ sock \in {"open", "closed"}
  /\ wpc \in {"off", "select", "write", "exited"}
  /\ slot \in Reply \cup {Nil} /\ cur \in Reply \cup {Nil} /\ got \in Seq(Reply)

Init ==
  /\ sent = 0 /\ in = <<>> /\ end = "open" /\ peer = "up"
  /\ spc = "new" /\ req = Nil /\ limit = 0 /\ rest = 0 /\ msg = Nil /\ failed = FALSE
  /\ ctxDone = FALSE /\ sock = "open"
  /\ wpc = "off" /\ slot = Nil /\ cur = Nil /\ got = <<>>

-----------------------------------------------------------------------------
(* The client and the network.                                             *)

ClientSend ==
  /\ end = "open" /\ sent < MaxFrames /\ sent' = sent + 1
  /\ \E good \in BOOLEAN, body \in 0..MaxBody :
       in' = Append(in, [xid |-> sent', good |-> good, body |-> body, have |-> body])
  /\ UNCHANGED <<end, peer, serveVars, ctxDone, sock, slot, writerVars>>

\* The stream ends inside a frame.
ClientCut ==
  /\ end = "open" /\ sent < MaxFrames /\ sent' = sent + 1
  /\ \E good \in BOOLEAN, body \in 1..MaxBody : \E have \in 0..(body - 1) :
       in' = Append(in, [xid |-> sent', good |-> good, body |-> body, have |-> have])
  /\ \/ end' = "eof" /\ UNCHANGED peer
     \/ end' = "reset" /\ peer' = "gone"
  /\ UNCHANGED <<serveVars, ctxDone, sock, slot, writerVars>>

\* The client shuts down its sending side and goes on reading.
ClientClose ==
  /\ end = "open" /\ end' = "eof"
  /\ UNCHANGED <<sent, in, peer, serveVars, ctxDone, sock, slot, writerVars>>

ClientLeave ==
  /\ end = "eof" /\ peer = "up" /\ peer' = "gone"
  /\ UNCHANGED <<sent, in, end, serveVars, ctxDone, sock, slot, writerVars>>

\* A reset: of what was not yet read the part in the bufio.Reader remains.
ClientReset ==
  /\ end # "reset" /\ end' = "reset" /\ peer' = "gone"
  /\ \/ \E n \in 1..Len(in) : \E have \in 0..in[n].have :
          in' = Append(SubSeq(in, 1, n - 1), [in[n] EXCEPT !.have = have]) /\ UNCHANGED rest
     \/ in' = <<>> /\ rest' \in 0..rest
  /\ UNCHANGED <<sent, spc, req, limit, msg, failed, ctxDone, sock, slot, writerVars>>

\* The application cancels Server.Context.
Cancel ==
  /\ ~ctxDone /\ ctxDone' = TRUE
  /\ UNCHANGED <<clientVars, serveVars, sock, slot, writerVars>>

-----------------------------------------------------------------------------
(* serve.                                                                  *)

\* Serve accepts the connection; serve registers it and starts serializeWrites.
Accept ==
  /\ spc = "new" /\ spc' = "read" /\ wpc' = "select"
  /\ UNCHANGED <<clientVars, req, limit, rest, msg, failed, ctxDone, sock, slot, cur, got>>

\* readRequestHeader.  A frame it cannot take ends the loop, without a Close.
ReadRequest ==
  /\ spc = "read" /\ in # <<>>
  /\ LET f == Head(in) IN
     /\ in' = Tail(in)
     /\ req' = f /\ limit' = f.body /\ rest' = f.have
     /\ msg' = [xid |-> f.xid, hdrs |-> 0, torn |-> FALSE]
     /\ spc' = IF f.good THEN "handle" ELSE "leave"
  /\ UNCHANGED <<sent, end, peer, failed, ctxDone, sock, slot, writerVars>>

\* Mutation: an EOF is taken for a transient error.
ReadEndAgain ==
  /\ spc = "read" /\ in = <<>> /\ end # "open"
  /\ spc' = IF end = "eof" THEN "read" ELSE "leave"
  /\ UNCHANGED <<clientVars, req, limit, rest, msg, failed, ctxDone, sock, slot, writerVars>>

\* EOF between frames closes the connection; another error only ends the loop.
ReadEnd ==
  /\ spc = "read" /\ in = <<>> /\ end # "open"
  /\ spc' = "leave" /\ sock' = IF end = "eof" THEN "closed" ELSE sock
  /\ UNCHANGED <<clientVars, req, limit, rest, msg, failed, ctxDone, slot, writerVars>>

\* Mutation: the handler reads from the connection, past the LimitedReader.
HandleUnlimited ==
  /\ spc = "handle" /\ spc' = "drain"
  /\ \E n \in 0..(rest + 1), hdrs \in {0, 1} :
       limit' = limit - n /\ rest' = rest - n /\ msg' = [msg EXCEPT !.hdrs = hdrs]
  /\ UNCHANGED <<clientVars, req, failed, ctxDone, sock, slot, writerVars>>

\* handle, up to the end of the handler: it consumes part of the body, never more
\* than the LimitedReader lets it, and either begins its reply, after which it may
\* still fail, or returns an error or nil without a reply.  Without a handler
\* (handlerFor is nil) nothing is consumed and nothing written.
Handle ==
  /\ spc = "handle" /\ spc' = "drain"
  /\ \E n \in 0..rest, hdrs \in {0, 1} :
       limit' = limit - n /\ rest' = rest - n /\ msg' = [msg EXCEPT !.hdrs = hdrs]
  /\ UNCHANGED <<clientVars, req, failed, ctxDone, sock, slot, writerVars>>

\* Mutation: what the handler left of the body stays in the stream.
DrainNothing ==
  /\ spc = "drain" /\ spc' = "respond"
  /\ UNCHANGED <<clientVars, req, limit, rest, msg, failed, ctxDone, sock, slot, writerVars>>

\* response.drain.  An EOF inside the body is no error, a reset is one; finish
\* sends the reply either way.
Drain ==
  /\ spc = "drain" /\ limit' = 0 /\ rest' = 0
  /\ IF limit > rest /\ end = "reset"
     THEN spc' = "finish" /\ failed' = TRUE
     ELSE spc' = "respond" /\ UNCHANGED failed
  /\ UNCHANGED <<clientVars, req, msg, ctxDone, sock, slot, writerVars>>

\* Mutation: writeHeader does not set responded, and the reply gets a second header.
RespondTwice ==
  /\ spc = "respond" /\ spc' = "finish"
  /\ msg' = [msg EXCEPT !.hdrs = IF ctxDone THEN @ ELSE @ + 1]
  /\ UNCHANGED <<clientVars, req, limit, rest, failed, ctxDone, sock, slot, writerVars>>

\* conn.err for a handler that failed or said nothing; it writes nothing once the
\* context is cancelled.
Respond ==
  /\ spc = "respond" /\ spc' = "finish"
  /\ msg' = [msg EXCEPT !.hdrs = IF @ = 0 /\ ~ctxDone THEN 1 ELSE @]
  /\ UNCHANGED <<clientVars, req, limit, rest, failed, ctxDone, sock, slot, writerVars>>

\* finish: the reply goes into the channel, or the context is done.  After an error
\* of handle or finish serve closes the connection.
Finish ==
  /\ spc = "finish"
  /\ \/ /\ slot = Nil /\ slot' = msg
        /\ spc' = IF failed THEN "leave" ELSE "read"
        /\ sock' = IF failed THEN "closed" ELSE sock
     \/ ctxDone /\ spc' = "leave" /\ sock' = "closed" /\ UNCHANGED slot
  /\ req' = Nil /\ msg' = Nil
  /\ UNCHANGED <<clientVars, limit, rest, failed, ctxDone, writerVars>>

\* The deferred calls: drainCaches, unregisterConn, OnDisconnect, cancel (the first
\* two step by step in WriteDurability).
Leave ==
  /\ spc = "leave" /\ spc' = "done" /\ ctxDone' = TRUE
  /\ UNCHANGED <<clientVars, req, limit, rest, msg, failed, sock, slot, writerVars>>

-----------------------------------------------------------------------------
(* serializeWrites.                                                        *)

\* Of two ready cases select takes either.
WriterTake ==
  /\ wpc = "select" /\ slot # Nil
  /\ wpc' = "write" /\ cur' = slot /\ slot' = Nil
  /\ UNCHANGED <<clientVars, serveVars, ctxDone, sock, got>>

WriterStop ==
  /\ wpc = "select" /\ ctxDone /\ wpc' = "exited"
  /\ UNCHANGED <<clientVars, serveVars, ctxDone, sock, slot, cur, got>>

\* Mutation: without the Flush the reply stays in the bufio.Writer.
WriterWriteUnflushed ==
  /\ wpc = "write" /\ sock = "open"
  /\ wpc' = "select" /\ cur' = Nil
  /\ UNCHANGED <<clientVars, serveVars, ctxDone, sock, slot, got>>

\* Fragment header, message and Flush: delivered, or lost on a dead connection
\* before the failure is noticed.
WriterWrite ==
  /\ wpc = "write" /\ sock = "open"
  /\ wpc' = "select" /\ cur' = Nil
  /\ got' = IF peer = "up" THEN Append(got, cur) ELSE got
  /\ UNCHANGED <<clientVars, serveVars, ctxDone, sock, slot>>

\* A failed write ends the goroutine and nothing else; part of the reply may be out.
WriterFail ==
  /\ wpc = "write" /\ (sock = "closed" \/ peer = "gone")
  /\ wpc' = "exited" /\ cur' = Nil
  /\ \/ UNCHANGED got
     \/ peer = "up" /\ got' = Append(got, [cur EXCEPT !.torn = TRUE])
  /\ UNCHANGED <<clientVars, serveVars, ctxDone, sock, slot>>

-----------------------------------------------------------------------------
Client == ClientSend \/ ClientCut \/ ClientClose \/ ClientLeave \/ ClientReset
Serve == Accept \/ ReadRequest \/ ReadEnd \/ Handle \/ Drain \/ Respond \/ Finish \/ Leave
Writer == WriterTake \/ WriterStop \/ WriterWrite \/ WriterFail

Next == Client \/ Cancel \/ Serve \/ Writer

\* The two goroutines run; the client owes nothing.
Spec == Init /\ [][Next]_vars /\ WF_vars(Serve) /\ WF_vars(Writer)

-----------------------------------------------------------------------------
\* serve reads a header only at a frame boundary, whatever the handler before it
\* left unread (response.drain).
FrameSync == spc = "read" => rest = 0 /\ limit = 0

\* The client gets one reply per request, in the order of the requests, with exactly
\* one RPC header; a torn reply is the last thing it gets, and a reply without header
\* is sent only when the context was cancelled.
ReplyIntact ==
  \A i \in 1..Len(got) :
    /\ got[i].xid = i
    /\ got[i].hdrs = 1 \/ (got[i].hdrs = 0 /\ ctxDone)
    /\ got[i].torn => i = Len(got) /\ wpc = "exited"

\* A request that was sent is answered, unless the connection ends.
Answered ==
  \A i \in 1..MaxFrames :
    sent >= i ~> Len(got) >= i \/ end # "open" \/ ctxDone

\* finish waits for a writer that is gone: serializeWrites does not cancel the context.
Stalled == spc = "finish" /\ slot # Nil /\ wpc = "exited" /\ ~ctxDone

\* After the client is gone serve ends, and with it the fds cached for the connection
\* are drained, unless it has stalled.
EndsWhenGone == peer = "gone" ~> spc = "done" \/ Stalled

-----------------------------------------------------------------------------
(* Why the safety properties hold: an inductive invariant (PipelineProofs). *)

Serving == {"handle", "drain", "respond", "finish"}

\* Which goroutine has a reply, and what a reset means to the client.
ControlInv ==
  /\ cur # Nil <=> wpc = "write"
  /\ spc \in Serving => msg # Nil
  /\ spc \in {"new", "read"} => msg = Nil
  /\ spc = "new" => wpc = "off"
  /\ end = "reset" => peer = "gone"

\* No more of a body is in the stream than was declared, and between two requests none.
BodyInv ==
  /\ \A n \in 1..Len(in) : in[n].have <= in[n].body
  /\ rest <= limit
  /\ spc \in {"new", "read", "respond", "finish"} => limit = 0

\* A reply on its way to a client that takes replies.
HasHeader(r) == r.hdrs = 1 \/ (r.hdrs = 0 /\ ctxDone)
PendingInv ==
  /\ \A r \in {slot, cur} \ {Nil} : ~r.torn /\ (peer = "up" => HasHeader(r))
  /\ msg # Nil => ~msg.torn /\ msg.hdrs \in {0, 1}
  /\ spc = "finish" /\ peer = "up" => HasHeader(msg)

\* The requests in the order of their numbers: answered, being written, in the channel,
\* being served, not yet read.
Begun == Len(got) + IF cur = Nil THEN 0 ELSE 1
Queued == Begun + IF slot = Nil THEN 0 ELSE 1
Served == Queued + IF msg = Nil THEN 0 ELSE 1
OrderInv ==
  peer = "up" /\ wpc # "exited" =>
    /\ cur # Nil => cur.xid = Begun
    /\ slot # Nil => slot.xid = Queued
    /\ msg # Nil => msg.xid = Served
    /\ spc \notin {"leave", "done"} =>
         sent = Served + Len(in) /\ \A n \in 1..Len(in) : in[n].xid = Served + n

\* The inductive invariant.
IInv == TypeOK /\ ControlInv /\ BodyInv /\ PendingInv /\ OrderInv /\ ReplyIntact
=============================================================================
