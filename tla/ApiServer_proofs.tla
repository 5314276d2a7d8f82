--------------------------- MODULE ApiServer_proofs ---------------------------
(***************************************************************************)
(* What ApiServer guarantees for any set of RPCs and any failures.         *)
(***************************************************************************)
EXTENDS ApiServer, TLAPS

\* Nothing of a stop happens before main has left its first select.
StopInv ==
    /\ main \in {"notify", "select"} => draining = "off" /\ ~quit /\ ~done /\ serveErr # "nil"
    /\ main \notin {"notify", "select", "fatal"} => draining # "off"
    /\ draining # "off" \/ quit => health = "NOT_SERVING"

\* Who waits for the draining, main last, goes on after all handlers.
DrainInv ==
    /\ main \in {"waitServe", "returned"} => draining = "done"
    /\ draining = "done" => Unfinished = {}

\* Serve leaves one value in the channel on its return, and main, as long as it
\* is there, takes none.
ChannelInv ==
    /\ serveErr # "empty" => serving \in {"failed", "over"}
    /\ serving \in {"failed", "over"} /\ Alive => serveErr # "empty"
    /\ main = "returned" => serveErr = "empty" /\ serving \in {"failed", "over"}

\* A stop that has come far enough left no client connected.
ClientInv ==
    /\ draining \in {"closing", "conns", "handlers", "done"} => quit
    /\ draining = "done" => done
    /\ main \in {"stopWait", "waitDrained"} \/ draining = "handlers" => Connected = {}

ServerInv == ServerTypeOK /\ StopInv /\ DrainInv /\ ChannelInv /\ ClientInv

-----------------------------------------------------------------------------
LEMMA ServerInvInit == ServerInit => ServerInv
BY DEF ServerInit, ServerInv, ServerTypeOK, StopInv, DrainInv, ChannelInv, ClientInv,
    Unfinished, Connected, Alive

LEMMA MainStepKeeps == ServerInv /\ MainStep => ServerInv'
<1>. SUFFICES ASSUME ServerInv, MainStep PROVE ServerInv'
  OBVIOUS
<1>. USE DEF ServerInv, ServerTypeOK, StopInv, DrainInv, ChannelInv, ClientInv,
    Unfinished, Connected, Alive
<1>0. CASE NotifyContext
  BY <1>0 DEF NotifyContext
<1>1. CASE ServeReturned
  BY <1>1 DEF ServeReturned
<1>2. CASE StartDraining
  BY <1>2 DEF StartDraining
<1>3. CASE Drained
  BY <1>3 DEF Drained
<1>4. CASE TimeOut
  BY <1>4 DEF TimeOut
<1>5. CASE StopListening
  BY <1>5 DEF StopListening
<1>6. CASE StopConnections
  BY <1>6 DEF StopConnections
<1>7. CASE StopReturns
  BY <1>7 DEF StopReturns
<1>8. CASE Return
  BY <1>8 DEF Return
<1>. QED
  BY <1>0, <1>1, <1>2, <1>3, <1>4, <1>5, <1>6, <1>7, <1>8 DEF MainStep

LEMMA ServeStepKeeps == ServerInv /\ (ServeStep \/ ServeFails) => ServerInv'
<1>. SUFFICES ASSUME ServerInv, ServeStep \/ ServeFails PROVE ServerInv'
  OBVIOUS
<1>. USE DEF ServerInv, ServerTypeOK, StopInv, DrainInv, ChannelInv, ClientInv,
    Unfinished, Connected, Alive
<1>0. Alive
  BY DEF ServeStep, ServeFails
<1>1. CASE Serve
  BY <1>0, <1>1 DEF Serve
<1>2. CASE StopAccepting
  BY <1>0, <1>2 DEF StopAccepting
<1>3. CASE ServeFails
  BY <1>0, <1>3 DEF ServeFails
<1>4. CASE ServeStopped
  BY <1>0, <1>4 DEF ServeStopped
<1>. QED
  BY <1>1, <1>2, <1>3, <1>4 DEF ServeStep

LEMMA DrainStepKeeps == ServerInv /\ DrainStep => ServerInv'
<1>. SUFFICES ASSUME ServerInv, DrainStep PROVE ServerInv'
  OBVIOUS
<1>. USE DEF ServerInv, ServerTypeOK, StopInv, DrainInv, ChannelInv, ClientInv,
    Unfinished, Connected, Alive
<1>0. Alive
  BY DEF DrainStep
<1>1. CASE CloseListener
  BY <1>0, <1>1 DEF CloseListener
<1>2. CASE SendGoAway
  BY <1>0, <1>2 DEF SendGoAway
<1>3. CASE ConnectionsGone
  BY <1>0, <1>3 DEF ConnectionsGone
<1>4. CASE HandlersGone
  BY <1>0, <1>4 DEF HandlersGone
<1>. QED
  BY <1>1, <1>2, <1>3, <1>4 DEF DrainStep

LEMMA HandlerStepKeeps ==
    ASSUME NEW c \in Calls, ServerInv, HandlerStep(c) PROVE ServerInv'
<1>. USE DEF ServerInv, ServerTypeOK, StopInv, DrainInv, ChannelInv, ClientInv,
    Unfinished, Connected, Alive
<1>0. Alive
  BY DEF HandlerStep
<1>1. CASE Begin(c)
  BY <1>0, <1>1 DEF Begin
<1>2. CASE HangUp(c)
  BY <1>0, <1>2 DEF HangUp
<1>3. CASE HandlerReturns(c)
  BY <1>0, <1>3 DEF HandlerReturns
<1>4. CASE HandlerPanics(c)
  BY <1>0, <1>4 DEF HandlerPanics
<1>. QED
  BY <1>1, <1>2, <1>3, <1>4 DEF HandlerStep

LEMMA ServerInvNext == ServerInv /\ [ServerNext]_serverVars => ServerInv'
<1>. SUFFICES ASSUME ServerInv, [ServerNext]_serverVars PROVE ServerInv'
  OBVIOUS
<1>1. CASE Signal
  BY <1>1 DEF Signal, ServerInv, ServerTypeOK, StopInv, DrainInv, ChannelInv, ClientInv,
    Unfinished, Connected, Alive
<1>2. CASE UNCHANGED serverVars
  BY <1>2 DEF serverVars, ServerInv, ServerTypeOK, StopInv, DrainInv, ChannelInv, ClientInv,
    Unfinished, Connected, Alive
<1>. QED
  BY <1>1, <1>2, MainStepKeeps, ServeStepKeeps, DrainStepKeeps, HandlerStepKeeps
  DEF ServerNext

LEMMA ServerInvariant == ServerSpec => []ServerInv
BY ServerInvInit, ServerInvNext, PTL DEF ServerSpec

-----------------------------------------------------------------------------
\* Every variable holds a value of its kind.
THEOREM ServerTypeCorrect == ServerSpec => []ServerTypeOK
<1>1. ServerInv => ServerTypeOK
  BY DEF ServerInv
<1>. QED
  BY <1>1, ServerInvariant, PTL

\* main returns after the goroutines and handlers it started, and after it
\* received what Serve had to say.
THEOREM MainReturnsLast == ServerSpec => []NothingLeftBehind
<1>1. ServerInv => NothingLeftBehind
  BY DEF ServerInv, DrainInv, ChannelInv, NothingLeftBehind
<1>. QED
  BY <1>1, ServerInvariant, PTL

\* In each such state the end is out of the clients' hands.
LEMMA EndNeedsNoClient == ServerInv => NoClientHoldsUpTheEnd
<1>. SUFFICES ASSUME ServerInv PROVE NoClientHoldsUpTheEnd
  OBVIOUS
<1>. USE DEF ServerInv, ServerTypeOK, DrainInv, ChannelInv, ClientInv
<1>1. main \in {"stopWait", "waitDrained", "waitServe"} \/ Locked => Connected = {}
  BY DEF Locked, Connected, Unfinished
<1>2. main = "waitServe" /\ serveErr = "empty" =>
          quit /\ done /\ serving \in {"starting", "accepting", "stopping"}
  BY DEF Alive
<1>. QED
  BY <1>1, <1>2 DEF NoClientHoldsUpTheEnd

\* From the moment main has closed the connections, the end of the process is
\* in the hands of the handlers it cancelled, and its last receive is served.
THEOREM EndIsOutOfClientsHands == ServerSpec => []NoClientHoldsUpTheEnd
BY EndNeedsNoClient, ServerInvariant, PTL

\* The listener is closed after the health service has said so.
THEOREM ClosingComesAnnounced == ServerSpec => []ClosingIsAnnounced
<1>1. ServerInv => ClosingIsAnnounced
  BY DEF ServerInv, StopInv, ClosingIsAnnounced
<1>. QED
  BY <1>1, ServerInvariant, PTL
=============================================================================
