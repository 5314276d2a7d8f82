------------------------------ MODULE ApiServer ------------------------------
(***************************************************************************)
(* The API server's process from serving to its end: main, the goroutine   *)
(* that serves, the one that drains, and the handlers of RPCs.             *)
(*                                                                         *)
(* The gRPC server is a library.  Of its Serve, GracefulStop and Stop      *)
(* there is what main depends on: who waits for whom, and that its mutex   *)
(* is held while a drained server waits for the handlers that are left.    *)
(***************************************************************************)
CONSTANTS
    Calls,     \* RPCs
    Stubborn,  \* those whose handler does not return when it is cancelled
    Faults     \* what may go wrong: "serve" (the listener fails), "panic"

ASSUME ServerAssumption ==
    /\ Stubborn \subseteq Calls
    /\ Faults \subseteq {"serve", "panic"}

VARIABLES
    main,       \* where main is
    signalled,  \* sigCtx is done
    health,     \* what the health service answers
    serving,    \* where the goroutine that calls Serve is
    serveErr,   \* the channel of that name, "empty" or its one value
    draining,   \* where the goroutine that calls GracefulStop is
    quit,       \* a stop has begun: the listener is closed
    done,       \* a stop has returned
    handler     \* of each RPC: "none", "running", "cancelled", "over"

serverVars == <<main, signalled, health, serving, serveErr, draining, quit, done, handler>>

\* The process is there.
Alive == main \notin {"returned", "fatal"}

\* Connections the server has: one for every handler that still has its client.
Connected == {c \in Calls : handler[c] = "running"}
Unfinished == {c \in Calls : handler[c] \in {"running", "cancelled"}}

\* The drained server waits for its handlers with the server's mutex locked.
Locked == draining = "handlers"

ServerInit ==
    /\ main = "notify"
    /\ signalled = FALSE
    /\ health = "SERVING"
    /\ serving = "starting"
    /\ serveErr = "empty"
    /\ draining = "off"
    /\ quit = FALSE
    /\ done = FALSE
    /\ handler = [c \in Calls |-> "none"]

-----------------------------------------------------------------------------
(* main *)

\* main asks for signals, after it started the goroutine that serves.
NotifyContext ==
    /\ main = "notify"
    /\ main' = "select"
    /\ UNCHANGED <<signalled, health, serving, serveErr, draining, quit, done, handler>>

\* SIGINT or SIGTERM; those that follow do nothing more, and one that comes
\* before main asked for it ends the process on the spot.
Signal ==
    /\ Alive
    /\ signalled' = TRUE
    /\ main' = IF main = "notify" THEN "fatal" ELSE main
    /\ UNCHANGED <<health, serving, serveErr, draining, quit, done, handler>>

\* Serve came back before any signal was seen: log.Fatalf, or return.
ServeReturned ==
    /\ main = "select"
    /\ serveErr # "empty"
    /\ main' = IF serveErr = "error" THEN "fatal" ELSE "returned"
    /\ serveErr' = "empty"
    /\ UNCHANGED <<signalled, health, serving, draining, quit, done, handler>>

\* A signal: tell the health service, have a goroutine drain the server.
StartDraining_HealthUntold ==
    /\ main = "select"
    /\ signalled
    /\ main' = "drain"
    /\ draining' = "called"
    /\ UNCHANGED <<signalled, health, serving, serveErr, quit, done, handler>>
StartDraining ==
    /\ main = "select"
    /\ signalled
    /\ health' = "NOT_SERVING"
    /\ main' = "drain"
    /\ draining' = "called"
    /\ UNCHANGED <<signalled, serving, serveErr, quit, done, handler>>

\* shutdownDone is closed within the time, or when main waits for nothing else.
Drained_StopIsEnough ==
    /\ \/ main = "waitDrained"
       \/ main = "drain" /\ draining = "done"
    /\ main' = "waitServe"
    /\ UNCHANGED <<signalled, health, serving, serveErr, draining, quit, done, handler>>
Drained ==
    /\ main \in {"drain", "waitDrained"}
    /\ draining = "done"
    /\ main' = "waitServe"
    /\ UNCHANGED <<signalled, health, serving, serveErr, draining, quit, done, handler>>

\* shutdownTimeout is over: call Stop.
TimeOut_WaitsOn ==
    /\ main = "drain"
    /\ main' = "waitDrained"
    /\ UNCHANGED <<signalled, health, serving, serveErr, draining, quit, done, handler>>
TimeOut ==
    /\ main = "drain"
    /\ main' = "stop"
    /\ UNCHANGED <<signalled, health, serving, serveErr, draining, quit, done, handler>>

\* Stop closes the listener ...
StopListening ==
    /\ main = "stop"
    /\ ~Locked
    /\ quit' = TRUE
    /\ main' = "stopClose"
    /\ UNCHANGED <<signalled, health, serving, serveErr, draining, done, handler>>

\* ... then, when nobody accepts any more, every connection, which cancels ...
StopConnections ==
    /\ main = "stopClose"
    /\ serving # "accepting"
    /\ ~Locked
    /\ handler' = [c \in Calls |-> IF c \in Connected THEN "cancelled" ELSE handler[c]]
    /\ main' = "stopWait"
    /\ UNCHANGED <<signalled, health, serving, serveErr, draining, quit, done>>

\* ... and returns, without a thought of handlers that run without a client.
StopReturns ==
    /\ main = "stopWait"
    /\ ~Locked
    /\ done' = TRUE
    /\ main' = "waitDrained"
    /\ UNCHANGED <<signalled, health, serving, serveErr, draining, quit, handler>>

\* The last receive: log what Serve said, and return.
Return ==
    /\ main = "waitServe"
    /\ serveErr # "empty"
    /\ serveErr' = "empty"
    /\ main' = "returned"
    /\ UNCHANGED <<signalled, health, serving, draining, quit, done, handler>>

MainStep ==
    \/ NotifyContext
    \/ ServeReturned \/ StartDraining \/ Drained \/ TimeOut
    \/ StopListening \/ StopConnections \/ StopReturns \/ Return

-----------------------------------------------------------------------------
(* The goroutine that serves *)

\* Serve accepts connections, unless it was called after a stop.
Serve ==
    /\ serving = "starting"
    /\ IF quit
       THEN serving' = "over" /\ serveErr' = "nil"
       ELSE serving' = "accepting" /\ UNCHANGED serveErr
    /\ UNCHANGED <<main, signalled, health, draining, quit, done, handler>>

\* Accept fails, because of a stop or by itself.
StopAccepting ==
    /\ serving = "accepting"
    /\ quit
    /\ serving' = "stopping"
    /\ UNCHANGED <<main, signalled, health, serveErr, draining, quit, done, handler>>
ServeFails ==
    /\ Alive
    /\ "serve" \in Faults
    /\ serving = "accepting"
    /\ serving' = "failed"
    /\ serveErr' = "error"
    /\ UNCHANGED <<main, signalled, health, draining, quit, done, handler>>

\* Stopped, Serve returns when the stop has; ErrServerStopped counts as nil.
ServeStopped_Verbatim ==
    /\ serving = "stopping"
    /\ done
    /\ serving' = "over"
    /\ serveErr' = "ErrServerStopped"
    /\ UNCHANGED <<main, signalled, health, draining, quit, done, handler>>
ServeStopped ==
    /\ serving = "stopping"
    /\ done
    /\ serving' = "over"
    /\ serveErr' = "nil"
    /\ UNCHANGED <<main, signalled, health, draining, quit, done, handler>>

ServeStep == Alive /\ (Serve \/ StopAccepting \/ ServeStopped)

-----------------------------------------------------------------------------
(* The goroutine that drains *)

\* GracefulStop closes the listener ...
CloseListener ==
    /\ draining = "called"
    /\ quit' = TRUE
    /\ draining' = "closing"
    /\ UNCHANGED <<main, signalled, health, serving, serveErr, done, handler>>

\* ... tells clients to start no more RPCs, when nobody accepts any more; those
\* they start before they hear of it are still handled ...
SendGoAway ==
    /\ draining = "closing"
    /\ serving # "accepting"
    /\ draining' = "conns"
    /\ UNCHANGED <<main, signalled, health, serving, serveErr, quit, done, handler>>

\* ... waits until the last connection is gone ...
ConnectionsGone ==
    /\ draining = "conns"
    /\ Connected = {}
    /\ draining' = "handlers"
    /\ UNCHANGED <<main, signalled, health, serving, serveErr, quit, done, handler>>

\* ... and for all handlers; then shutdownDone is closed.
HandlersGone ==
    /\ draining = "handlers"
    /\ Unfinished = {}
    /\ done' = TRUE
    /\ draining' = "done"
    /\ UNCHANGED <<main, signalled, health, serving, serveErr, quit, handler>>

DrainStep == Alive /\ (CloseListener \/ SendGoAway \/ ConnectionsGone \/ HandlersGone)

-----------------------------------------------------------------------------
(* Handlers *)

\* A client starts an RPC on a connection it has.
Begin(c) ==
    /\ handler[c] = "none"
    /\ serving \in {"accepting", "stopping", "failed"}
    /\ draining \in {"off", "called", "closing", "conns"}
    /\ main \in {"notify", "select", "drain", "stop", "stopClose"}
    /\ handler' = [handler EXCEPT ![c] = "running"]
    /\ UNCHANGED <<main, signalled, health, serving, serveErr, draining, quit, done>>

\* The client hangs up.
HangUp(c) ==
    /\ handler[c] = "running"
    /\ handler' = [handler EXCEPT ![c] = "cancelled"]
    /\ UNCHANGED <<main, signalled, health, serving, serveErr, draining, quit, done>>

\* The handler returns: the client sent all it had and got its answer, or the
\* handler gives up on what it was waiting for.
HandlerReturns(c) ==
    /\ c \in Unfinished
    /\ handler' = [handler EXCEPT ![c] = "over"]
    /\ UNCHANGED <<main, signalled, health, serving, serveErr, draining, quit, done>>

\* The handler panics (GetJobStatus and GetJobResults do), and nobody recovers.
HandlerPanics(c) ==
    /\ "panic" \in Faults
    /\ c \in Unfinished
    /\ main' = "fatal"
    /\ UNCHANGED <<signalled, health, serving, serveErr, draining, quit, done, handler>>

HandlerStep(c) ==
    Alive /\ (Begin(c) \/ HangUp(c) \/ HandlerReturns(c) \/ HandlerPanics(c))

-----------------------------------------------------------------------------
ServerNext ==
    \/ Signal
    \/ MainStep
    \/ ServeStep \/ ServeFails
    \/ DrainStep
    \/ \E c \in Calls : HandlerStep(c)

ServerSpec == ServerInit /\ [][ServerNext]_serverVars

\* Goroutines that can run do, the timeout is a timer, and a cancelled handler
\* returns in the end, its calls being made with the context it was given.
\* Clients owe nothing: they may keep a stream open for ever.
ServerFairness ==
    /\ WF_serverVars(MainStep)
    /\ WF_serverVars(ServeStep)
    /\ WF_serverVars(DrainStep)
    /\ \A c \in Calls \ Stubborn :
        WF_serverVars(Alive /\ handler[c] = "cancelled" /\ HandlerReturns(c))

ServerFairSpec == ServerSpec /\ ServerFairness

-----------------------------------------------------------------------------
\* Every variable holds a value of its kind.
ServerTypeOK ==
    /\ main \in {"notify", "select", "drain", "stop", "stopClose", "stopWait", "waitDrained",
                 "waitServe", "returned", "fatal"}
    /\ signalled \in BOOLEAN
    /\ health \in {"SERVING", "NOT_SERVING"}
    /\ serving \in {"starting", "accepting", "stopping", "failed", "over"}
    /\ serveErr \in {"empty", "nil", "error"}
    /\ draining \in {"off", "called", "closing", "conns", "handlers", "done"}
    /\ quit \in BOOLEAN
    /\ done \in BOOLEAN
    /\ handler \in [Calls -> {"none", "running", "cancelled", "over"}]

\* main returns after everybody else: no handler is at work, both goroutines
\* are over and what Serve had to say was received.  That it waits for
\* shutdownDone even after Stop is what keeps a submission that was cut off
\* from being killed between the provider's answer and its row.
NothingLeftBehind ==
    main = "returned" =>
        /\ Unfinished = {}
        /\ draining = "done"
        /\ serving \in {"failed", "over"}
        /\ serveErr = "empty"

\* Whoever asks the health service learns that the server is going before the
\* server turns its clients away.
ClosingIsAnnounced == quit => health = "NOT_SERVING"

\* Once Stop had its turn, or a drained server keeps it from it, the end is up
\* to no client: what is left are handlers that know of their cancellation.
\* And main's last receive waits for nothing that does not come: the one value
\* of serveErr is there, or Serve was told to stop and will leave it.
NoClientHoldsUpTheEnd ==
    /\ main \in {"stopWait", "waitDrained", "waitServe"} \/ Locked => Connected = {}
    /\ main = "waitServe" /\ serveErr = "empty" =>
        quit /\ done /\ serving \in {"starting", "accepting", "stopping"}

\* After a signal the process ends, however long clients keep their streams,
\* unless a handler goes on although it was cancelled.
EndsOnceSignalled ==
    signalled ~> (~Alive \/ \E c \in Stubborn : handler[c] = "cancelled")
=============================================================================
