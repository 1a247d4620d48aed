------------------------------- MODULE Server -------------------------------
(***************************************************************************)
(* A server process (main.go): the connections of module Session and       *)
(* main(), which on SIGTERM closes the registered sockets, waits for the   *)
(* registry to empty or two seconds, shuts the HTTP server down and ends   *)
(* the process, whatever its other goroutines are doing.                   *)
(***************************************************************************)
EXTENDS Session

VARIABLES
    main,      \* "serving", "closing", "waiting", "stopping", "exited"
    toClose,   \* closeAllSockets: the copied registry, as far as not closed
    overdue    \* history: the wait ended by the deadline

vars == <<sessionVars, main, toClose, overdue>>
mainVars == <<main, toClose, overdue>>

MainSteps == {"serving", "closing", "waiting", "stopping", "exited"}

Init == SessionInit /\ main = "serving" /\ toClose = {} /\ overdue = FALSE

\* httpServer.Shutdown closes the listener, but a request that is being served then is
\* still upgraded.
AcceptConnection(s) == main # "exited" /\ Accept(s) /\ UNCHANGED mainVars

Running(s) == main # "exited" /\ (Request(s) \/ EndRun(s)) /\ UNCHANGED mainVars

CleaningUp(s) == main # "exited" /\ Cleanup(s) /\ UNCHANGED mainVars

---------------------------------------------------------------------------
\* SIGTERM: closeAllSockets copies the registry.
Terminate ==
    /\ main = "serving"
    /\ main' = "closing"
    /\ toClose' = registered
    /\ UNCHANGED <<sessionVars, overdue>>

\* closeWith(1001) of one socket of the copy, which may have ended meanwhile.  Its
\* reader notices by a failing read, see EndRun.
CloseOne(s) ==
    /\ main = "closing"
    /\ s \in toClose
    /\ toClose' = toClose \ {s}
    /\ UNCHANGED <<sessionVars, main, overdue>>

CloseDone ==
    /\ main = "closing"
    /\ toClose = {}
    /\ main' = "waiting"
    /\ UNCHANGED <<sessionVars, toClose, overdue>>

\* The wait ends when socketCount() is zero or the deadline has passed.
WaitDone(late) ==
    /\ main = "waiting"
    /\ registered = {} \/ late
    /\ main' = "stopping"
    /\ overdue' = late
    /\ UNCHANGED <<sessionVars, toClose>>

\* httpServer.Shutdown returns and main() with it.
Exit ==
    /\ main = "stopping"
    /\ main' = "exited"
    /\ UNCHANGED <<sessionVars, toClose, overdue>>

Shutdown == \/ Terminate \/ CloseDone \/ Exit
            \/ \E s \in Sockets : CloseOne(s)
            \/ \E late \in BOOLEAN : WaitDone(late)

Next == \/ \E s \in Sockets : AcceptConnection(s) \/ Running(s) \/ CleaningUp(s)
        \/ Shutdown

Spec == Init /\ [][Next]_vars

---------------------------------------------------------------------------
TypeOK == /\ SessionTypeOK
          /\ main \in MainSteps
          /\ toClose \subseteq Sockets
          /\ overdue \in BOOLEAN

\* closeAllSockets: "the per socket cleanup publishes vi_online:false on the way
\* out".  A process that ended with its registry empty, in time, leaves no subject
\* online but the stray ones.  The code breaks it, see the run shutdown_presence.
ExitRetracts == main = "exited" /\ ~overdue => online \subseteq stray
===========================================================================
