--------------------------- MODULE OutboundProofs ---------------------------
(***************************************************************************)
(* Theorems about Outbound, for every set of publishers and closers, every *)
(* size of the queue and any number of messages.                           *)
(***************************************************************************)
EXTENDS Outbound, SequenceTheorems, TLAPS

USE DEF At

---------------------------------------------------------------------------
\* The record of one goroutine.
PcType == [Actors -> [at: Steps, frame: Frames, then: Steps]]

\* The frames, and the sequences of the history, at the beginning.
LEMMA FrameTypes ==
  /\ NoFrame \in Frames /\ Pong \in Frames /\ Close \in Frames
  /\ Messages \subseteq Frames
  /\ NoFrame \notin Messages /\ Pong \notin Messages /\ Close \notin Messages
  BY OutboundAssumption DEF Frames, Messages

\* A step of one goroutine keeps the records well typed.
LEMMA GoType ==
  ASSUME pc \in PcType, NEW a \in Actors,
         NEW step \in Steps, NEW frame \in Frames, NEW then \in Steps, Go(a, step, frame, then)
  PROVE  pc' \in PcType
  BY DEF PcType, Go

\* So does one that ends a call, and returns its goroutine to rest.
LEMMA RestType ==
  ASSUME pc \in PcType, NEW a \in Actors, Rest(a) PROVE pc' \in PcType
<1>1. "rest" \in Steps
  BY DEF Steps
<1> QED
  BY <1>1, GoType, FrameTypes DEF Rest

\* A fresh connection is well typed.
LEMMA TypeInit == Init => TypeOK
<1> SUFFICES ASSUME Init PROVE TypeOK
  OBVIOUS
<1>1. <<>> \in Seq(Messages) /\ Len(<<>>) <= SendBuffer
  BY OutboundAssumption
<1>2. 0 \in 0 .. MaxMessages
  BY OutboundAssumption
<1>3. "rest" \in Steps
  BY DEF Steps
<1>4. pc \in [Actors -> [at: Steps, frame: Frames, then: Steps]]
  BY <1>3, FrameTypes DEF Init
<1> QED
  BY <1>1, <1>2, <1>4 DEF Init, TypeOK

\* What the caller of writeFrame does next is a step of its own.
LEMMA ReturnedType ==
  ASSUME pc \in PcType, closed \in BOOLEAN,
         NEW a \in Actors, NEW ok \in BOOLEAN, Returned(a, ok)
  PROVE  pc' \in PcType /\ closed' \in BOOLEAN
<1>1. "flag" \in Steps /\ "ended" \in Steps /\ "cleanup" \in Steps /\ "rest" \in Steps
  BY DEF Steps
<1>2. pc[a].then \in Steps
  BY DEF PcType
<1>3. CASE pc[a].frame = Close
  BY <1>1, <1>2, <1>3, GoType, FrameTypes DEF Returned
<1>4. CASE pc[a].frame # Close /\ ok
  BY <1>4, RestType DEF Returned
<1>5. CASE pc[a].frame # Close /\ ~ok
  BY <1>1, <1>5, GoType, FrameTypes DEF Returned
<1> QED
  BY <1>3, <1>4, <1>5

\* closeWith likewise.
LEMMA CloseWithType ==
  ASSUME pc \in PcType, NEW a \in Actors, NEW then \in Steps, CloseWith(a, then)
  PROVE  pc' \in PcType /\ closed' \in BOOLEAN
<1>1. "lock" \in Steps /\ "rest" \in Steps
  BY DEF Steps
<1> QED
  BY <1>1, GoType, FrameTypes DEF CloseWith

\* enqueueText keeps within SOCKET_SEND_BUFFER.
LEMMA EnqueueType ==
  ASSUME TypeOK, NEW a \in Senders, Enqueue(a), pc[a].frame \in Messages PROVE TypeOK'
<1> USE DEF TypeOK
<1>1. a \in Actors /\ "rest" \in Steps /\ pc \in PcType
  BY DEF Senders, Actors, Steps, PcType
<1>2. CASE Len(queue) < SendBuffer /\ queue' = Append(queue, pc[a].frame)
             /\ accepted' = Append(accepted, pc[a].frame) /\ Rest(a) /\ UNCHANGED closed
  <2>1. /\ queue' \in Seq(Messages) /\ Len(queue') = Len(queue) + 1
        /\ accepted' \in Seq(Messages)
    BY <1>2, AppendProperties
  <2>2. Len(queue') <= SendBuffer
    BY <1>2, <2>1, OutboundAssumption
  <2> QED
    BY <1>1, <1>2, <2>1, <2>2, RestType DEF Enqueue, connVars, PcType
<1>3. CASE Rest(a) /\ UNCHANGED <<queue, closed, accepted>>
  BY <1>1, <1>3, RestType DEF Enqueue, connVars, PcType
<1>4. CASE CloseWith(a, "rest") /\ UNCHANGED <<queue, accepted>>
  BY <1>1, <1>4, CloseWithType DEF Enqueue, connVars, PcType
<1> QED
  BY <1>2, <1>3, <1>4 DEF Enqueue

\* The steps of Next, one by one.
LEMMA StepCases ==
  ASSUME [Next]_vars
  PROVE  \/ \E a \in Senders : Send(a) \/ Enqueue(a)
         \/ \E a \in Actors : CloseConnection(a) /\ a # "writer"
         \/ \E a \in Actors : Lock(a) \/ WriteDone(a) \/ WriteFails(a) \/ Flag(a) \/ Shut(a)
         \/ Disconnect \/ PingFrame \/ CloseFrame \/ EndRead
         \/ Cleanup \/ Take \/ PingerStops \/ WriterStops
         \/ Stall \/ Resume \/ Reset \/ UNCHANGED vars
  BY OutboundAssumption DEF Next, Request, Stops, Actors

---------------------------------------------------------------------------
(***************************************************************************)
(* What a goroutine has in hand.  Only senders are in enqueueText, only    *)
(* writeLoop carries a message to the mutex, and it leaves its loop only   *)
(* when the socket is closed.                                              *)
(***************************************************************************)
Exits == {"rest", "cleanup", "ended"}

HandInv ==
    /\ \A a \in Actors : pc[a].then \in Exits
    /\ \A a \in Actors : At(a, "enqueue") => a \in Senders /\ pc[a].frame \in Messages
    /\ \A a \in Actors \ {"writer"} : At(a, "lock") \/ At(a, "write") => pc[a].frame \notin Messages
    /\ done => closed

WriterInv ==
    \/ At("writer", "rest") /\ pc["writer"].frame = NoFrame
    \/ (At("writer", "lock") \/ At("writer", "write")) /\ pc["writer"].frame \in Messages
    \/ /\ closed /\ pc["writer"].then = "ended"
       /\ At("writer", "flag") \/ At("writer", "shut")
    \/ closed /\ At("writer", "ended")

\* Every step keeps the connection well typed.
LEMMA TypeStep == TypeOK /\ HandInv /\ [Next]_vars => TypeOK'
<1> SUFFICES ASSUME TypeOK, HandInv, [Next]_vars PROVE TypeOK'
  OBVIOUS
<1> DEFINE DataOK == /\ queue \in Seq(Messages) /\ Len(queue) <= SendBuffer
                     /\ accepted \in Seq(Messages) /\ delivered \in Seq(Messages)
                     /\ offered \in 0 .. MaxMessages
           FlagsOK == /\ done \in BOOLEAN /\ wsClosed \in BOOLEAN /\ stalled \in BOOLEAN
                      /\ conn \in {"open", "reset", "shut"}
<1>1. pc \in PcType /\ closed \in BOOLEAN /\ DataOK /\ FlagsOK
  BY DEF TypeOK, PcType
<1>2. \A a \in Actors : pc[a].then \in Steps /\ pc[a].frame \in Frames
  BY <1>1 DEF PcType
<1>3. /\ {"reader", "writer", "pinger"} \subseteq Actors /\ Senders \subseteq Actors
      /\ \A x \in {"rest", "enqueue", "lock", "write", "flag", "shut", "cleanup", "ended"} : x \in Steps
  BY DEF Actors, Senders, Steps
<1>5. ASSUME NEW a \in Senders, Send(a) PROVE TypeOK'
  <2>1. offered + 1 \in Messages /\ offered + 1 \in 0 .. MaxMessages
    BY <1>1, <1>5, OutboundAssumption DEF Send, Messages
  <2>2. pc' \in PcType
    BY <1>1, <1>3, <1>5, <2>1, GoType, FrameTypes DEF Send
  <2> QED
    BY <1>1, <1>5, <2>1, <2>2 DEF Send, connVars, TypeOK, PcType
<1>6. ASSUME NEW a \in Senders, Enqueue(a) PROVE TypeOK'
  BY <1>3, <1>6, EnqueueType DEF Enqueue, HandInv
<1>7. ASSUME NEW a \in Actors, CloseConnection(a) PROVE TypeOK'
  BY <1>1, <1>3, <1>7, CloseWithType DEF CloseConnection, connVars, dataVars, TypeOK, PcType
<1>8. ASSUME NEW a \in Actors, Lock(a) PROVE TypeOK'
  <2>1. pc' \in PcType /\ closed' \in BOOLEAN
    BY <1>1, <1>2, <1>3, <1>8, ReturnedType, GoType DEF Lock
  <2> QED
    BY <1>1, <1>8, <2>1 DEF Lock, connVars, dataVars, TypeOK, PcType
<1>9. ASSUME NEW a \in Actors, WriteDone(a) PROVE TypeOK'
  <2>1. delivered' \in Seq(Messages)
    BY <1>1, <1>9, AppendProperties DEF WriteDone
  <2>2. pc' \in PcType /\ closed' \in BOOLEAN
    BY <1>1, <1>9, ReturnedType DEF WriteDone
  <2> QED
    BY <1>1, <1>9, <2>1, <2>2 DEF WriteDone, connVars, TypeOK, PcType
<1>10. ASSUME NEW a \in Actors, WriteFails(a) PROVE TypeOK'
  <2>1. pc' \in PcType /\ closed' \in BOOLEAN
    BY <1>1, <1>10, ReturnedType DEF WriteFails
  <2> QED
    BY <1>1, <1>10, <2>1 DEF WriteFails, connVars, dataVars, TypeOK, PcType
<1>11. ASSUME NEW a \in Actors, Flag(a) \/ Shut(a) PROVE TypeOK'
  <2>1. pc' \in PcType
    BY <1>1, <1>2, <1>3, <1>11, GoType, FrameTypes DEF Flag, Shut
  <2> QED
    BY <1>1, <1>11, <2>1 DEF Flag, Shut, dataVars, TypeOK, PcType
<1>12. CASE Disconnect
  BY <1>1, <1>3, <1>12, CloseWithType DEF Disconnect, connVars, dataVars, TypeOK, PcType
<1>13. CASE PingFrame \/ CloseFrame \/ EndRead \/ Cleanup \/ PingerStops \/ WriterStops
  <2>1. pc' \in PcType
    BY <1>1, <1>3, <1>13, GoType, FrameTypes
       DEF PingFrame, CloseFrame, EndRead, Cleanup, PingerStops, WriterStops
  <2> QED
    BY <1>1, <1>13, <2>1 DEF PingFrame, CloseFrame, EndRead, Cleanup, PingerStops, WriterStops,
       connVars, dataVars, TypeOK, PcType
<1>14. CASE Take
  <2>1. Head(queue) \in Messages /\ Tail(queue) \in Seq(Messages) /\ Len(Tail(queue)) = Len(queue) - 1
    BY <1>1, <1>14, HeadTailProperties DEF Take
  <2>2. Len(Tail(queue)) <= SendBuffer
    BY <1>1, <2>1, OutboundAssumption
  <2>3. pc' \in PcType
    BY <1>1, <1>3, <1>14, <2>1, GoType, FrameTypes DEF Take
  <2> QED
    BY <1>1, <1>14, <2>1, <2>2, <2>3 DEF Take, connVars, TypeOK, PcType
<1>15. CASE Stall \/ Resume \/ Reset \/ UNCHANGED vars
  BY <1>1, <1>15 DEF Stall, Resume, Reset, vars, dataVars, TypeOK, PcType
<1> QED
  BY <1>1, <1>5, <1>6, <1>7, <1>8, <1>9, <1>10, <1>11, <1>12, <1>13, <1>14, <1>15, StepCases
     DEF TypeOK, PcType

\* Whatever a goroutine other than writeLoop does, writeLoop is where it was.
LEMMA OthersStep ==
  ASSUME TypeOK, HandInv, WriterInv, NEW a \in Actors \ {"writer"},
         NEW step \in Steps, NEW frame \in Frames, NEW then \in Exits, Go(a, step, frame, then),
         step = "enqueue" => a \in Senders /\ frame \in Messages,
         step \in {"lock", "write"} => frame \notin Messages,
         done' => closed', closed => closed'
  PROVE  HandInv' /\ WriterInv'
  BY DEF TypeOK, HandInv, WriterInv, Go, Actors, Exits

\* The step of writeLoop at the mutex, or of anybody after a write.
LEMMA ReturnedHand ==
  ASSUME TypeOK, HandInv, WriterInv, NEW a \in Actors, NEW ok \in BOOLEAN, Returned(a, ok),
         At(a, "lock") \/ At(a, "write"), UNCHANGED done
  PROVE  HandInv' /\ WriterInv' /\ (closed => closed')
<1>1. /\ {"flag", "cleanup", "rest"} \subseteq Steps
      /\ {"cleanup", "rest", pc[a].then} \subseteq Exits
  BY DEF Steps, Exits, HandInv
<1>2. CASE a # "writer"
  <2>1. CASE pc[a].frame = Close
    BY <1>1, <1>2, <2>1, OthersStep, FrameTypes DEF Returned, HandInv
  <2>2. CASE pc[a].frame # Close /\ ok
    BY <1>1, <1>2, <2>2, OthersStep, FrameTypes DEF Returned, Rest, HandInv
  <2>3. CASE pc[a].frame # Close /\ ~ok
    BY <1>1, <1>2, <2>3, OthersStep, FrameTypes DEF Returned, HandInv
  <2> QED
    BY <2>1, <2>2, <2>3
<1>3. CASE a = "writer"
  <2>1. pc[a].frame \in Messages /\ pc[a].frame # Close
    BY <1>3, FrameTypes DEF WriterInv
  <2>2. CASE ok
    <3>1. /\ pc' = [pc EXCEPT !["writer"] = [at |-> "rest", frame |-> NoFrame, then |-> "rest"]]
          /\ UNCHANGED closed
      BY <1>3, <2>1, <2>2 DEF Returned, Rest, Go
    <3> QED
      BY <1>3, <3>1 DEF TypeOK, HandInv, WriterInv, Exits
  <2>3. CASE ~ok
    <3>1. /\ pc' = [pc EXCEPT !["writer"] = [at |-> "flag", frame |-> NoFrame, then |-> "ended"]]
          /\ closed'
      BY <1>3, <2>1, <2>3 DEF Returned, Go
    <3>2. WriterInv'
      BY <1>3, <3>1 DEF TypeOK, WriterInv
    <3>3. HandInv'
      BY <1>3, <3>1 DEF TypeOK, HandInv, Exits
    <3> QED
      BY <3>1, <3>2, <3>3
  <2> QED
    BY <2>2, <2>3
<1> QED
  BY <1>2, <1>3

\* Somebody else's call of closeWith.
LEMMA CloseWithHand ==
  ASSUME TypeOK, HandInv, WriterInv, NEW a \in Actors \ {"writer"}, NEW then \in Exits,
         CloseWith(a, then), UNCHANGED done
  PROVE  HandInv' /\ WriterInv'
<1>1. "lock" \in Steps /\ then \in Steps /\ "rest" \in Exits
  BY DEF Steps, Exits
<1>2. then \notin {"enqueue", "lock", "write"}
  BY DEF Exits
<1> QED
  BY <1>1, <1>2, OthersStep, FrameTypes DEF CloseWith, HandInv

\* Every step keeps what the goroutines have in hand.
LEMMA HandStep == TypeOK /\ HandInv /\ WriterInv /\ [Next]_vars => HandInv' /\ WriterInv'
<1> SUFFICES ASSUME TypeOK, HandInv, WriterInv, [Next]_vars PROVE HandInv' /\ WriterInv'
  OBVIOUS
<1>1. /\ {"reader", "pinger"} \subseteq Actors \ {"writer"} /\ "writer" \in Actors
      /\ Senders \subseteq Actors \ {"writer"}
      /\ \A x \in {"rest", "enqueue", "lock", "write", "flag", "shut", "cleanup", "ended"} : x \in Steps
      /\ \A x \in {"rest", "cleanup", "ended"} : x \in Exits
      /\ Exits \subseteq Steps
  BY OutboundAssumption DEF Actors, Senders, Steps, Exits
<1>2. ASSUME NEW a \in Senders, Send(a) PROVE HandInv' /\ WriterInv'
  <2>1. offered + 1 \in Messages
    BY <1>2, OutboundAssumption DEF Send, Messages, TypeOK
  <2> QED
    BY <1>1, <1>2, <2>1, OthersStep, FrameTypes DEF Send, HandInv
<1>3. ASSUME NEW a \in Senders, Enqueue(a) PROVE HandInv' /\ WriterInv'
  <2>1. CASE Rest(a) /\ UNCHANGED closed
    BY <1>1, <1>3, <2>1, OthersStep, FrameTypes DEF Enqueue, Rest, HandInv
  <2>2. CASE CloseWith(a, "rest")
    BY <1>1, <1>3, <2>2, CloseWithHand DEF Enqueue
  <2> QED
    BY <1>3, <2>1, <2>2 DEF Enqueue
<1>4. ASSUME NEW a \in Actors, CloseConnection(a), a # "writer" PROVE HandInv' /\ WriterInv'
  BY <1>1, <1>4, CloseWithHand DEF CloseConnection
<1>5. ASSUME NEW a \in Actors, Lock(a) PROVE HandInv' /\ WriterInv'
  <2>1. CASE Returned(a, FALSE)
    BY <1>5, <2>1, ReturnedHand DEF Lock
  <2>2. CASE Go(a, "write", pc[a].frame, pc[a].then) /\ UNCHANGED closed
    BY <1>5, <2>2, OutboundAssumption DEF Lock, Go, TypeOK, HandInv, WriterInv, Actors
  <2> QED
    BY <1>5, <2>1, <2>2 DEF Lock
<1>6. ASSUME NEW a \in Actors, WriteDone(a) PROVE HandInv' /\ WriterInv'
  BY <1>6, ReturnedHand DEF WriteDone
<1>7. ASSUME NEW a \in Actors, WriteFails(a) PROVE HandInv' /\ WriterInv'
  BY <1>7, ReturnedHand DEF WriteFails
<1>8. ASSUME NEW a \in Actors, Flag(a) \/ Shut(a) PROVE HandInv' /\ WriterInv'
  BY <1>8, OutboundAssumption, FrameTypes
     DEF Flag, Shut, Go, TypeOK, HandInv, WriterInv, Actors, Exits
<1>9. CASE Disconnect
  BY <1>1, <1>9, CloseWithHand DEF Disconnect
<1>10. CASE PingFrame \/ CloseFrame \/ EndRead \/ Cleanup \/ PingerStops
  BY <1>1, <1>10, OthersStep, FrameTypes
     DEF PingFrame, CloseFrame, EndRead, Cleanup, PingerStops, HandInv
<1>11. CASE Take
  <2>1. Head(queue) \in Messages
    BY <1>11, HeadTailProperties DEF Take, TypeOK
  <2> QED
    BY <1>1, <1>11, <2>1 DEF Take, Go, TypeOK, HandInv, WriterInv
<1>12. CASE WriterStops
  BY <1>1, <1>12 DEF WriterStops, Go, TypeOK, HandInv, WriterInv
<1>13. CASE Stall \/ Resume \/ Reset \/ UNCHANGED vars
  BY <1>13 DEF Stall, Resume, Reset, vars, HandInv, WriterInv
<1> QED
  BY <1>2, <1>3, <1>4, <1>5, <1>6, <1>7, <1>8, <1>9, <1>10, <1>11, <1>12, <1>13, StepCases

---------------------------------------------------------------------------
\* A goroutine that does not begin to write disturbs no writer, and may set
\* wsConn.closed when nobody writes.
LEMMA QuietStep ==
  ASSUME TypeOK, OneFrameAtATime, NEW a \in Actors,
         NEW step \in Steps, step # "write", NEW frame, NEW then, Go(a, step, frame, then),
         UNCHANGED wsClosed \/ ~Locked
  PROVE  OneFrameAtATime'
  BY DEF TypeOK, OneFrameAtATime, Go, Locked

\* Nor does one that returns from a write or from closeWith.
LEMMA QuietCalls ==
  ASSUME TypeOK, HandInv, OneFrameAtATime, NEW a \in Actors, UNCHANGED wsClosed,
         Rest(a) \/ (\E ok \in BOOLEAN : Returned(a, ok)) \/ (\E then \in Exits : CloseWith(a, then))
  PROVE  OneFrameAtATime'
<1>1. /\ "flag" \in Steps /\ "ended" \in Steps /\ "cleanup" \in Steps /\ "rest" \in Steps
      /\ "lock" \in Steps /\ Exits \subseteq Steps /\ "write" \notin Exits
  BY DEF Steps, Exits
<1>2. CASE Rest(a)
  BY <1>1, <1>2, QuietStep DEF Rest
<1>3. ASSUME NEW ok \in BOOLEAN, Returned(a, ok) PROVE OneFrameAtATime'
  BY <1>1, <1>2, <1>3, QuietStep DEF Returned
<1>4. ASSUME NEW then \in Exits, CloseWith(a, then) PROVE OneFrameAtATime'
  BY <1>1, <1>4, QuietStep DEF CloseWith
<1> QED
  BY <1>2, <1>3, <1>4

\* writeMu: a goroutine begins to write, or sets wsConn.closed, only when nobody writes.
LEMMA OneFrameStep ==
  TypeOK /\ HandInv /\ OneFrameAtATime /\ [Next]_vars => OneFrameAtATime'
<1> SUFFICES ASSUME TypeOK, HandInv, OneFrameAtATime, [Next]_vars PROVE OneFrameAtATime'
  OBVIOUS
<1>1. /\ {"reader", "writer", "pinger"} \subseteq Actors /\ Senders \subseteq Actors
      /\ {"enqueue", "lock", "flag", "shut", "cleanup", "ended"} \subseteq Steps
      /\ {"rest", "ended"} \subseteq Exits /\ Exits \subseteq Steps /\ "write" \notin Exits
  BY DEF Actors, Senders, Steps, Exits
<1>2. ASSUME NEW a \in Senders, Send(a) \/ Enqueue(a) PROVE OneFrameAtATime'
  BY <1>1, <1>2, QuietStep, QuietCalls DEF Send, Enqueue, connVars
<1>3. ASSUME NEW a \in Actors, CloseConnection(a) PROVE OneFrameAtATime'
  BY <1>1, <1>3, QuietCalls DEF CloseConnection, connVars
<1>4. ASSUME NEW a \in Actors, Lock(a) PROVE OneFrameAtATime'
  <2>1. CASE wsClosed
    BY <1>4, <2>1, QuietCalls DEF Lock, connVars
  <2>2. CASE ~wsClosed
    BY <1>4, <2>2 DEF Lock, Go, Locked, OneFrameAtATime, TypeOK, connVars
  <2> QED
    BY <2>1, <2>2
<1>5. ASSUME NEW a \in Actors, WriteDone(a) \/ WriteFails(a) PROVE OneFrameAtATime'
  BY <1>5, QuietCalls DEF WriteDone, WriteFails, connVars
<1>6. ASSUME NEW a \in Actors, Flag(a) \/ Shut(a) PROVE OneFrameAtATime'
  <2>1. pc[a].then \in Exits
    BY DEF HandInv
  <2> QED
    BY <1>1, <1>6, <2>1, QuietStep DEF Flag, Shut
<1>7. CASE Disconnect
  BY <1>1, <1>7, QuietCalls DEF Disconnect, connVars
<1>8. CASE PingFrame \/ CloseFrame \/ EndRead \/ Cleanup \/ Take \/ PingerStops \/ WriterStops
  BY <1>1, <1>8, QuietStep
     DEF PingFrame, CloseFrame, EndRead, Cleanup, Take, PingerStops, WriterStops, connVars
<1>9. CASE Stall \/ Resume \/ Reset \/ UNCHANGED vars
  BY <1>9 DEF Stall, Resume, Reset, vars, OneFrameAtATime
<1> QED
  BY <1>2, <1>3, <1>4, <1>5, <1>6, <1>7, <1>8, <1>9, StepCases

---------------------------------------------------------------------------
\* What is closed, or no longer connected, stays so.
LEMMA ClosedForGood ==
  ASSUME TypeOK, [Next]_vars
  PROVE  /\ closed => closed'
         /\ wsClosed => wsClosed'
         /\ conn # "open" => conn' # "open"
<1>1. ASSUME NEW a \in Actors, CloseConnection(a) \/ Lock(a) \/ WriteDone(a) \/ WriteFails(a)
                                 \/ Flag(a) \/ Shut(a)
      PROVE  /\ closed => closed'
             /\ wsClosed => wsClosed'
             /\ conn # "open" => conn' # "open"
  BY <1>1 DEF CloseConnection, Lock, WriteDone, WriteFails, Flag, Shut, CloseWith, Returned,
     connVars
<1>2. CASE \E a \in Senders : Send(a) \/ Enqueue(a)
  BY <1>2 DEF Send, Enqueue, CloseWith, connVars
<1>3. CASE Disconnect \/ PingFrame \/ CloseFrame \/ EndRead \/ Cleanup \/ Take
             \/ PingerStops \/ WriterStops
  BY <1>3 DEF Disconnect, CloseWith, PingFrame, CloseFrame, EndRead, Cleanup, Take, PingerStops,
     WriterStops, connVars
<1>4. CASE Stall \/ Resume \/ Reset \/ UNCHANGED vars
  BY <1>4 DEF Stall, Resume, Reset, vars
<1> QED
  BY <1>1, <1>2, <1>3, <1>4, StepCases

\* A step that leaves the data and writeLoop alone.
LEMMA DataUntouched ==
  ASSUME TypeOK, accepted = delivered \o InHand \o queue,
         UNCHANGED <<queue, accepted, delivered>>, pc'["writer"].frame = pc["writer"].frame
  PROVE  accepted' = delivered' \o InHand' \o queue'
  BY DEF InHand

\* What writeLoop has in hand is a sequence of messages.
LEMMA InHandType == InHand \in Seq(Messages)
<1>1. CASE pc["writer"].frame \in Messages
  BY <1>1 DEF InHand
<1>2. CASE pc["writer"].frame \notin Messages
  BY <1>2 DEF InHand
<1> QED
  BY <1>1, <1>2

\* enqueueText appends at the end.
LEMMA AcceptedAtTheEnd ==
  ASSUME TypeOK, accepted = delivered \o InHand \o queue, NEW m \in Messages,
         queue' = Append(queue, m), accepted' = Append(accepted, m), UNCHANGED delivered,
         pc'["writer"].frame = pc["writer"].frame
  PROVE  accepted' = delivered' \o InHand' \o queue'
<1>1. InHand' = InHand
  BY DEF InHand
<1> DEFINE front == delivered \o InHand
<1>2. front \in Seq(Messages) /\ queue \in Seq(Messages) /\ accepted \in Seq(Messages)
      /\ <<m>> \in Seq(Messages)
  BY InHandType, ConcatProperties DEF TypeOK
<1>3. accepted' = accepted \o <<m>> /\ queue' = queue \o <<m>>
  BY <1>2, AppendIsConcat
<1>4. (front \o queue) \o <<m>> = front \o (queue \o <<m>>)
  BY <1>2, ConcatAssociative
<1> QED
  BY <1>1, <1>3, <1>4

\* writeLoop takes the head of the queue.
LEMMA TakenFromTheHead ==
  ASSUME TypeOK, WriterInv, accepted = delivered \o InHand \o queue, Take
  PROVE  accepted' = delivered' \o InHand' \o queue'
<1> DEFINE m == Head(queue)
<1>1. m \in Messages /\ Tail(queue) \in Seq(Messages) /\ <<m>> \in Seq(Messages)
      /\ delivered \in Seq(Messages)
  BY HeadTailProperties DEF Take, TypeOK
<1>2. InHand = <<>>
  BY FrameTypes DEF Take, WriterInv, InHand
<1>3. pc'["writer"].frame = m
  BY DEF Take, Go, TypeOK, Actors
<1>4. InHand' = <<m>>
  BY <1>1, <1>3 DEF InHand
<1>5. queue = <<m>> \o Tail(queue)
  BY DEF Take, TypeOK
<1>6. delivered \o <<>> = delivered
  BY <1>1, ConcatEmptySeq
<1>7. (delivered \o <<m>>) \o Tail(queue) = delivered \o (<<m>> \o Tail(queue))
  BY <1>1, ConcatAssociative
<1>8. UNCHANGED <<accepted, delivered>> /\ queue' = Tail(queue)
  BY DEF Take
<1> QED
  BY <1>2, <1>4, <1>5, <1>6, <1>7, <1>8

\* Its write returns without error.
LEMMA WrittenNext ==
  ASSUME TypeOK, WriterInv, accepted = delivered \o InHand \o queue, WriteDone("writer")
  PROVE  accepted' = delivered' \o InHand' \o queue'
<1> DEFINE m == pc["writer"].frame
<1>1. m \in Messages /\ m # Close
  BY FrameTypes DEF WriteDone, WriterInv
<1>2. delivered' = Append(delivered, m) /\ UNCHANGED <<queue, accepted>>
  BY <1>1 DEF WriteDone
<1>3. Append(delivered, m) = delivered \o <<m>>
  BY <1>1, AppendIsConcat DEF TypeOK
<1>4. InHand = <<m>>
  BY <1>1 DEF InHand
<1>5. pc'["writer"].frame = NoFrame
  BY <1>1 DEF WriteDone, Returned, Rest, Go, TypeOK, Actors
<1>6. InHand' = <<>>
  BY <1>5, FrameTypes DEF InHand
<1>7. (delivered \o <<m>>) \o <<>> = delivered \o <<m>>
  <2>1. delivered \o <<m>> \in Seq(Messages)
    BY <1>1, ConcatProperties DEF TypeOK
  <2> QED
    BY <2>1, ConcatEmptySeq
<1> QED
  BY <1>2, <1>3, <1>4, <1>6, <1>7

\* Every step keeps the stream of an open connection whole.
LEMMA LostStep ==
  TypeOK /\ HandInv /\ WriterInv /\ NothingLostWhileOpen /\ [Next]_vars => NothingLostWhileOpen'
<1> SUFFICES ASSUME TypeOK, HandInv, WriterInv, NothingLostWhileOpen, [Next]_vars,
                    ~closed', ~wsClosed', conn' = "open"
             PROVE  accepted' = delivered' \o InHand' \o queue'
  BY DEF NothingLostWhileOpen
<1>1. ~closed /\ ~wsClosed /\ conn = "open" /\ ~done
  BY ClosedForGood DEF HandInv
<1>2. accepted = delivered \o InHand \o queue
  BY <1>1 DEF NothingLostWhileOpen
<1>3. /\ {"reader", "pinger"} \subseteq Actors \ {"writer"} /\ "writer" \in Actors
      /\ Senders \subseteq Actors \ {"writer"}
  BY OutboundAssumption DEF Actors, Senders
<1>4. ASSUME NEW a \in Actors \ {"writer"}, NEW step, NEW frame, NEW then, Go(a, step, frame, then)
      PROVE  pc'["writer"].frame = pc["writer"].frame
  BY <1>3, <1>4 DEF TypeOK, Go
<1>5. ASSUME NEW a \in Senders, Send(a) PROVE accepted' = delivered' \o InHand' \o queue'
  BY <1>2, <1>3, <1>4, <1>5, DataUntouched DEF Send
<1>6. ASSUME NEW a \in Senders, Enqueue(a) PROVE accepted' = delivered' \o InHand' \o queue'
  <2>1. pc'["writer"].frame = pc["writer"].frame
    BY <1>3, <1>4, <1>6 DEF Enqueue, Rest, CloseWith
  <2>2. pc[a].frame \in Messages /\ UNCHANGED delivered
    BY <1>3, <1>6 DEF Enqueue, HandInv
  <2>3. CASE queue' = Append(queue, pc[a].frame) /\ accepted' = Append(accepted, pc[a].frame)
    BY <1>2, <2>1, <2>2, <2>3, AcceptedAtTheEnd
  <2>4. CASE UNCHANGED <<queue, accepted>>
    BY <1>2, <2>1, <2>2, <2>4, DataUntouched
  <2> QED
    BY <1>6, <2>3, <2>4 DEF Enqueue
<1>7. ASSUME NEW a \in Actors, CloseConnection(a), a # "writer"
      PROVE  accepted' = delivered' \o InHand' \o queue'
  BY <1>2, <1>4, <1>7, DataUntouched DEF CloseConnection, CloseWith, dataVars
<1>8. ASSUME NEW a \in Actors, Lock(a) PROVE accepted' = delivered' \o InHand' \o queue'
  <2>1. Go(a, "write", pc[a].frame, pc[a].then)
    BY <1>1, <1>8 DEF Lock
  <2>2. pc'["writer"].frame = pc["writer"].frame
    BY <1>3, <2>1 DEF Go, TypeOK
  <2> QED
    BY <1>2, <1>8, <2>2, DataUntouched DEF Lock, dataVars
<1>9. ASSUME NEW a \in Actors \ {"writer"}, WriteDone(a)
      PROVE  accepted' = delivered' \o InHand' \o queue'
  <2>1. pc'["writer"].frame = pc["writer"].frame
    BY <1>4, <1>9 DEF WriteDone, Returned, Rest
  <2> QED
    BY <1>2, <1>9, <2>1, DataUntouched DEF WriteDone, HandInv
<1>10. CASE WriteDone("writer")
  BY <1>2, <1>10, WrittenNext
<1>11. ASSUME NEW a \in Actors, WriteFails(a) PROVE FALSE
  BY <1>1, <1>11 DEF WriteFails
<1>12. ASSUME NEW a \in Actors, Flag(a) \/ Shut(a) PROVE FALSE
  BY <1>12 DEF Flag, Shut
<1>13. CASE Disconnect
  BY <1>2, <1>3, <1>4, <1>13, DataUntouched DEF Disconnect, CloseWith, dataVars
<1>14. CASE PingFrame \/ CloseFrame \/ EndRead \/ Cleanup \/ PingerStops
  BY <1>2, <1>3, <1>4, <1>14, DataUntouched
     DEF PingFrame, CloseFrame, EndRead, Cleanup, PingerStops, dataVars
<1>15. CASE Take
  BY <1>2, <1>15, TakenFromTheHead
<1>16. CASE WriterStops
  BY <1>1, <1>16 DEF WriterStops
<1>17. CASE Stall \/ Resume \/ Reset \/ UNCHANGED vars
  BY <1>2, <1>17, DataUntouched DEF Stall, Resume, Reset, vars, dataVars
<1> QED
  BY <1>5, <1>6, <1>7, <1>8, <1>9, <1>10, <1>11, <1>12, <1>13, <1>14, <1>15, <1>16, <1>17, StepCases

\* A connection starts with nothing in hand and nothing lost.
LEMMA InvInit ==
  Init => HandInv /\ WriterInv /\ OneFrameAtATime /\ NothingLostWhileOpen
<1> SUFFICES ASSUME Init PROVE HandInv /\ WriterInv /\ OneFrameAtATime /\ NothingLostWhileOpen
  OBVIOUS
<1>1. HandInv /\ WriterInv /\ OneFrameAtATime
  BY DEF Init, HandInv, WriterInv, OneFrameAtATime, Actors, Exits
<1>2. InHand = <<>>
  BY FrameTypes DEF Init, InHand, Actors
<1>3. <<>> \o <<>> \o <<>> = <<>>
  OBVIOUS
<1> QED
  BY <1>1, <1>2, <1>3 DEF Init, NothingLostWhileOpen

\* The inductive invariant of the outbound path.
THEOREM Inductive ==
  Spec => [](TypeOK /\ HandInv /\ WriterInv /\ OneFrameAtATime /\ NothingLostWhileOpen)
  BY TypeInit, InvInit, TypeStep, HandStep, OneFrameStep, LostStep, PTL DEF Spec

\* The queue never exceeds SOCKET_SEND_BUFFER, and every goroutine is at a step it has.
THEOREM TypeCorrect == Spec => []TypeOK
  BY Inductive, PTL

\* The frames of reader, writeLoop and closers are never interleaved, and none is written
\* after wsConn.closed is set, for any number of goroutines.
THEOREM FramesAreWhole == Spec => []OneFrameAtATime
  BY Inductive, PTL

\* While the connection is up, every accepted message is written, in hand or queued, in
\* the order of acceptance, for every size of the queue.
THEOREM NothingIsLostWhileOpen == Spec => []NothingLostWhileOpen
  BY Inductive, PTL
===========================================================================
