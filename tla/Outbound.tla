------------------------------ MODULE Outbound ------------------------------
(***************************************************************************)
(* The way out of one connection: the bounded queue of a Socket, its       *)
(* writeLoop, wsConn.writeMu, and every goroutine that queues a message or *)
(* closes the connection (socket.go, websocket.go, main.go).  The peer may *)
(* stop reading, so that a write blocks with the mutex held; writes have no *)
(* deadline.                                                               *)
(*                                                                         *)
(* Each goroutine is a record: the step it takes next, the frame it has in *)
(* hand and where it goes when it has closed the connection.               *)
(***************************************************************************)
EXTENDS Naturals, Sequences

CONSTANTS
    Publishers,   \* goroutines that fan out to this connection: the Redis
                  \* receiveLoop, and the readers of other connections
    Closers,      \* goroutines that close it once: handshake timer, main()
    NoFrame, Pong, Close,  \* no frame, and the two control frames
    SendBuffer,   \* SOCKET_SEND_BUFFER
    MaxMessages   \* bound: how many messages the model sends

Senders == {"reader", "pinger"} \cup Publishers
Actors  == {"reader", "writer", "pinger"} \cup Publishers \cup Closers

ASSUME OutboundAssumption ==
    /\ {"reader", "writer", "pinger"} \cap (Publishers \cup Closers) = {}
    /\ Publishers \cap Closers = {}
    /\ SendBuffer \in Nat \ {0}
    /\ MaxMessages \in Nat
    /\ {NoFrame, Pong, Close} \cap (1 .. MaxMessages) = {}
    /\ NoFrame # Pong /\ NoFrame # Close /\ Pong # Close

Messages == 1 .. MaxMessages
Frames   == Messages \cup {NoFrame, Pong, Close}

\* rest: its own loop; enqueue: in enqueueText past the check of closed; lock:
\* at writeMu with a frame; write: in WriteTo, holding writeMu; flag: at writeMu
\* to set wsConn.closed; shut: at conn.Close(); cleanup: at the end of cleanup().
Steps == {"rest", "enqueue", "lock", "write", "flag", "shut", "cleanup", "ended"}

VARIABLES
    pc,         \* pc[a] \in [at: Steps, frame: Frames, then: Steps]
    queue,      \* Socket.outbound
    done,       \* the channel Socket.done is closed
    closed,     \* Socket.closed
    wsClosed,   \* wsConn.closed
    conn,       \* the TCP connection: "open", "reset" by the peer, or "shut"
    stalled,    \* the peer does not read and the buffers are full
    offered,    \* how many messages were made, to number them
    accepted,   \* history: the messages put into the queue
    delivered   \* history: the messages written out completely

vars == <<pc, queue, done, closed, wsClosed, conn, stalled, offered, accepted, delivered>>
connVars == <<wsClosed, conn, stalled>>
dataVars == <<queue, offered, accepted, delivered>>

At(a, step) == pc[a].at = step
Go(a, step, frame, then) == pc' = [pc EXCEPT ![a] = [at |-> step, frame |-> frame, then |-> then]]
Rest(a) == Go(a, "rest", NoFrame, "rest")

Locked == \E a \in Actors : At(a, "write")

Init ==
    /\ pc = [a \in Actors |-> [at |-> "rest", frame |-> NoFrame, then |-> "rest"]]
    /\ queue = <<>> /\ accepted = <<>> /\ delivered = <<>> /\ offered = 0
    /\ done = FALSE /\ closed = FALSE
    /\ wsClosed = FALSE /\ conn = "open" /\ stalled = FALSE
---------------------------------------------------------------------------
\* closeWith: whoever turns closed on goes on to WriteClose; for the others it is done.
CloseWith(a, then) ==
    /\ closed' = TRUE
    /\ IF closed THEN Go(a, then, NoFrame, "rest") ELSE Go(a, "lock", Close, then)

\* sendJSON or enqueueText finds the socket not closed: a reply, an event of the
\* reader, a ping, a message of PublishLocal.  (Closed, it returns at once.)
Send(a) ==
    /\ At(a, "rest")
    /\ ~closed
    /\ offered < MaxMessages
    /\ offered' = offered + 1
    /\ Go(a, "enqueue", offered + 1, "rest")
    /\ UNCHANGED <<queue, done, closed, accepted, delivered>> /\ UNCHANGED connVars

\* Broken variant of Enqueue: one message more than the buffer holds.
Enqueue_OffByOne(a) ==
    /\ At(a, "enqueue")
    /\ \/ /\ Len(queue) <= SendBuffer
          /\ queue' = Append(queue, pc[a].frame)
          /\ accepted' = Append(accepted, pc[a].frame)
          /\ Rest(a)
          /\ UNCHANGED closed
       \/ done /\ Rest(a) /\ UNCHANGED <<queue, closed, accepted>>
    /\ UNCHANGED <<done, offered, delivered>> /\ UNCHANGED connVars

\* Broken variant of Enqueue: a full queue drops its oldest message.
Enqueue_DropOldest(a) ==
    /\ At(a, "enqueue")
    /\ queue' = Append(IF Len(queue) < SendBuffer THEN queue ELSE Tail(queue), pc[a].frame)
    /\ accepted' = Append(accepted, pc[a].frame)
    /\ Rest(a)
    /\ UNCHANGED <<done, closed, offered, delivered>> /\ UNCHANGED connVars

\* Broken variant of Enqueue: it waits for room, the select has no default.
Enqueue_Blocking(a) ==
    /\ At(a, "enqueue")
    /\ \/ /\ Len(queue) < SendBuffer
          /\ queue' = Append(queue, pc[a].frame)
          /\ accepted' = Append(accepted, pc[a].frame)
       \/ done /\ UNCHANGED <<queue, accepted>>
    /\ Rest(a)
    /\ UNCHANGED <<done, closed, offered, delivered>> /\ UNCHANGED connVars

\* The select of enqueueText: room or done, whichever the runtime picks if both are
\* ready, and else the slow consumer is closed with 1008.
Enqueue(a) ==
    /\ At(a, "enqueue")
    /\ \/ /\ Len(queue) < SendBuffer
          /\ queue' = Append(queue, pc[a].frame)
          /\ accepted' = Append(accepted, pc[a].frame)
          /\ Rest(a)
          /\ UNCHANGED closed
       \/ done /\ Rest(a) /\ UNCHANGED <<queue, closed, accepted>>
       \/ /\ Len(queue) >= SendBuffer /\ ~done
          /\ CloseWith(a, "rest")
          /\ UNCHANGED <<queue, accepted>>
    /\ UNCHANGED <<done, offered, delivered>> /\ UNCHANGED connVars

\* "Pong timeout" (4000) of the pinger, the handshake timer (4005) and
\* closeAllSockets (1001): closeWith is the last thing they do with the socket.
CloseConnection(a) ==
    /\ At(a, "rest")
    /\ CloseWith(a, "ended")
    /\ UNCHANGED done /\ UNCHANGED dataVars /\ UNCHANGED connVars

\* pingLoop returns.
PingerStops ==
    /\ At("pinger", "rest") /\ done
    /\ Go("pinger", "ended", NoFrame, "rest")
    /\ UNCHANGED <<done, closed>> /\ UNCHANGED dataVars /\ UNCHANGED connVars
---------------------------------------------------------------------------
\* The reader gets a #disconnect event; it reads on until that fails.
Disconnect ==
    /\ At("reader", "rest") /\ conn = "open"
    /\ CloseWith("reader", "rest")
    /\ UNCHANGED done /\ UNCHANGED dataVars /\ UNCHANGED connVars

\* ReadMessage gets a ping frame, and writes the pong itself.
PingFrame ==
    /\ At("reader", "rest") /\ conn = "open"
    /\ Go("reader", "lock", Pong, "rest")
    /\ UNCHANGED <<done, closed>> /\ UNCHANGED dataVars /\ UNCHANGED connVars

\* ReadMessage gets a close frame: WriteClose, without a look at Socket.closed.
CloseFrame ==
    /\ At("reader", "rest") /\ conn = "open"
    /\ Go("reader", "lock", Close, "cleanup")
    /\ UNCHANGED <<done, closed>> /\ UNCHANGED dataVars /\ UNCHANGED connVars

\* ReadMessage fails: no connection, the read deadline, or a bad frame.
EndRead ==
    /\ At("reader", "rest")
    /\ Go("reader", "cleanup", NoFrame, "rest")
    /\ UNCHANGED <<done, closed>> /\ UNCHANGED dataVars /\ UNCHANGED connVars

\* The end of cleanup(): close(done), closed, and wsConn.Close.
Cleanup ==
    /\ At("reader", "cleanup")
    /\ done' = TRUE
    /\ closed' = TRUE
    /\ Go("reader", "flag", NoFrame, "ended")
    /\ UNCHANGED dataVars /\ UNCHANGED connVars

\* The select of writeLoop.
Take ==
    /\ At("writer", "rest") /\ queue # <<>>
    /\ queue' = Tail(queue)
    /\ Go("writer", "lock", Head(queue), "rest")
    /\ UNCHANGED <<done, closed, offered, accepted, delivered>> /\ UNCHANGED connVars

WriterStops ==
    /\ At("writer", "rest") /\ done
    /\ Go("writer", "ended", NoFrame, "rest")
    /\ UNCHANGED <<done, closed>> /\ UNCHANGED dataVars /\ UNCHANGED connVars
---------------------------------------------------------------------------
\* Broken variant of Returned: WriteClose leaves the connection to the peer.
Returned_NoTeardown(a, ok) ==
    IF ok \/ pc[a].frame = Close
      THEN Go(a, pc[a].then, NoFrame, "rest") /\ UNCHANGED closed
      ELSE IF a = "writer" THEN closed' = TRUE /\ Go(a, "flag", NoFrame, "ended")
      ELSE Go(a, "cleanup", NoFrame, "rest") /\ UNCHANGED closed

\* What writeFrame's caller does next.  WriteClose tears the connection down either
\* way; after an error writeLoop does so too, and ReadMessage fails.
Returned(a, ok) ==
    IF pc[a].frame = Close THEN Go(a, "flag", NoFrame, pc[a].then) /\ UNCHANGED closed
    ELSE IF ok THEN Rest(a) /\ UNCHANGED closed
    ELSE IF a = "writer" THEN closed' = TRUE /\ Go(a, "flag", NoFrame, "ended")
    ELSE Go(a, "cleanup", NoFrame, "rest") /\ UNCHANGED closed

\* Broken variant of Lock: the pong is written by the reader without writeMu.
Lock_NotForPong(a) ==
    /\ At(a, "lock")
    /\ ~Locked \/ pc[a].frame = Pong
    /\ IF wsClosed THEN Returned(a, FALSE)
       ELSE Go(a, "write", pc[a].frame, pc[a].then) /\ UNCHANGED closed
    /\ UNCHANGED done /\ UNCHANGED dataVars /\ UNCHANGED connVars

\* writeFrame takes writeMu; a closed connection is an error.
Lock(a) ==
    /\ At(a, "lock")
    /\ ~Locked
    /\ IF wsClosed THEN Returned(a, FALSE)
       ELSE Go(a, "write", pc[a].frame, pc[a].then) /\ UNCHANGED closed
    /\ UNCHANGED done /\ UNCHANGED dataVars /\ UNCHANGED connVars

\* WriteTo returns, and writeFrame unlocks.
WriteDone(a) ==
    /\ At(a, "write") /\ conn = "open" /\ ~stalled
    /\ Returned(a, TRUE)
    /\ delivered' = IF pc[a].frame \in Messages THEN Append(delivered, pc[a].frame) ELSE delivered
    /\ UNCHANGED <<queue, done, offered, accepted>> /\ UNCHANGED connVars

WriteFails(a) ==
    /\ At(a, "write") /\ conn # "open"
    /\ Returned(a, FALSE)
    /\ UNCHANGED done /\ UNCHANGED dataVars /\ UNCHANGED connVars

\* WriteClose and Close: wsConn.closed under writeMu, then conn.Close().
Flag(a) ==
    /\ At(a, "flag")
    /\ ~Locked
    /\ wsClosed' = TRUE
    /\ Go(a, "shut", NoFrame, pc[a].then)
    /\ UNCHANGED <<done, closed, conn, stalled>> /\ UNCHANGED dataVars

Shut(a) ==
    /\ At(a, "shut")
    /\ conn' = "shut"
    /\ Go(a, pc[a].then, NoFrame, "rest")
    /\ UNCHANGED <<done, closed, wsClosed, stalled>> /\ UNCHANGED dataVars

\* The peer: it stops reading, reads again, or is gone.
Stall  == conn = "open" /\ ~stalled /\ stalled' = TRUE
            /\ UNCHANGED <<pc, done, closed, wsClosed, conn>> /\ UNCHANGED dataVars
Resume == conn = "open" /\ stalled /\ stalled' = FALSE
            /\ UNCHANGED <<pc, done, closed, wsClosed, conn>> /\ UNCHANGED dataVars
Reset  == conn = "open" /\ conn' = "reset"
            /\ UNCHANGED <<pc, done, closed, wsClosed, stalled>> /\ UNCHANGED dataVars
---------------------------------------------------------------------------
Request == Disconnect \/ PingFrame \/ CloseFrame \/ EndRead
Stops   == PingerStops \/ WriterStops

Next ==
    \/ \E a \in Senders : Send(a) \/ Enqueue(a)
    \/ \E a \in Closers \cup {"pinger"} : CloseConnection(a)
    \/ \E a \in Actors : Lock(a) \/ WriteDone(a) \/ WriteFails(a) \/ Flag(a) \/ Shut(a)
    \/ Request \/ Cleanup \/ Take \/ Stops
    \/ Stall \/ Resume \/ Reset

Spec == Init /\ [][Next]_vars

\* The step of a goroutine inside a call.
Step(a) == \/ a \in Senders /\ Enqueue(a)
           \/ Lock(a) \/ WriteDone(a) \/ WriteFails(a) \/ Flag(a) \/ Shut(a)

\* Runnable goroutines run, sync.Mutex starves nobody, a read of a connection that is
\* not open returns, and so does a write whenever the peer keeps reading.  The peer may
\* stop reading for good.
FairSpec ==
    /\ Spec
    /\ \A a \in Actors : SF_vars(Step(a))
    /\ WF_vars(Cleanup \/ (conn # "open" /\ EndRead))
    /\ WF_vars(PingerStops) /\ WF_vars(Take \/ WriterStops)

\* A peer that, while connected, always comes back to reading.
PatientSpec == FairSpec /\ WF_vars(Resume)
---------------------------------------------------------------------------
\* Types, and the bound of the queue.
TypeOK ==
    /\ pc \in [Actors -> [at: Steps, frame: Frames, then: Steps]]
    /\ queue \in Seq(Messages) /\ Len(queue) <= SendBuffer
    /\ accepted \in Seq(Messages) /\ delivered \in Seq(Messages)
    /\ offered \in 0 .. MaxMessages
    /\ done \in BOOLEAN /\ closed \in BOOLEAN /\ wsClosed \in BOOLEAN /\ stalled \in BOOLEAN
    /\ conn \in {"open", "reset", "shut"}

InHand == IF pc["writer"].frame \in Messages THEN <<pc["writer"].frame>> ELSE <<>>

\* Back pressure never thins out the stream: while the connection is up, what was
\* accepted is what was written, what writeLoop has in hand and what is queued, in that
\* order; the slow consumer is closed instead.
NothingLostWhileOpen ==
    ~closed /\ ~wsClosed /\ conn = "open" => accepted = delivered \o InHand \o queue

\* writeMu: the frames of the reader (pong, close), of writeLoop and of closeWith are
\* never interleaved on the wire, and none is written after wsConn.closed is set.
OneFrameAtATime ==
    \A a \in Actors : At(a, "write") => ~wsClosed /\ \A b \in Actors \ {a} : ~At(b, "write")

\* Nobody waits on anybody for ever: with a peer that reads, enqueueText, writeFrame,
\* WriteClose and Close return, whoever calls them, in every overlap.
CallsReturn ==
    \A a \in Actors : ~(At(a, "rest") \/ At(a, "ended")) ~> (At(a, "rest") \/ At(a, "ended"))

\* A closed socket ends all its goroutines and gives up its connection, whoever closed
\* it: pingLoop "keeps a goroutine (and the whole Socket..) alive" otherwise.
ClosedIsTornDown ==
    closed ~> (conn = "shut" /\ \A a \in {"reader", "writer", "pinger"} : At(a, "ended"))

\* README "a connection without traffic for PING_TIMEOUT_MS is closed with 4000": once
\* pingLoop has called closeWith, the connection does not stay open.  The code breaks
\* it for a peer that does not read, see the run outbound_stalled.
PongTimeoutCloses ==
    (~At("pinger", "rest") /\ pc["pinger"].frame = Close) ~> conn # "open"
===========================================================================
