----------------------------- MODULE MCOutbound -----------------------------
(***************************************************************************)
(* Outbound with one publisher and one closer beside the goroutines of the *)
(* connection itself, and a queue of one message: with three messages one  *)
(* is being written, one is queued and one meets the full queue.           *)
(***************************************************************************)
EXTENDS Outbound
CONSTANTS receiveLoop, mainThread

MCPublishers == {receiveLoop}
MCClosers    == {mainThread}

\* Liveness: reader and pinger are the senders, and the pinger the only other closer.
MCNobody == {}
===========================================================================
