-------------------------------- MODULE StatWeb --------------------------------
(***************************************************************************)
(* The stream of statistics as server-sent events (stat_web.go).  Serve    *)
(* runs StatStream on a stream that writes events to the response, and a   *)
(* goroutine that writes a ping now and then.  Both write under the mutex  *)
(* of the stream, and not when the context of the request is done.         *)
(*                                                                         *)
(* Nobody waits for that goroutine: it ends with the context, which is     *)
(* done when the client leaves or, at the latest, after the handler of the *)
(* request has returned.                                                   *)
(***************************************************************************)
EXTENDS StatStream

VARIABLES
    ctxDone,        \* the context of the request is done
    pinging,        \* the ticker of Serve runs
    pingTick,       \* a tick of it is waiting to be received
    pinger,         \* where the goroutine is: it has the mutex at "write"
    served,         \* Serve has returned
    late            \* events written after that (not in the code)

webVars == <<ctxDone, pinging, pingTick, pinger, served, late>>
allVars == <<vars, webVars>>

WebInit ==
    /\ Init
    /\ ctxDone = FALSE
    /\ pinging = TRUE
    /\ pingTick = FALSE
    /\ pinger = "select"
    /\ served = FALSE
    /\ late = 0

------------------------------------------------------------------------------
(* StatStream, on this stream.                                             *)

Event == late' = IF served THEN late + 1 ELSE late

\* Send of the stream.
Written ==
    /\ pinger # "write"
    /\ ~ ctxDone
    /\ Event

WebSend ==
    /\ Send
    /\ IF Changed(goroutine.rep) THEN Written ELSE UNCHANGED late
    /\ UNCHANGED <<ctxDone, pinging, pingTick, pinger, served>>

WebSendFails ==
    /\ SendFails
    /\ ctxDone
    /\ pinger # "write"
    /\ UNCHANGED webVars

\* TERMINATED is an event too.
WebLeave ==
    /\ Leave
    /\ Written \/ UNCHANGED late
    /\ UNCHANGED <<ctxDone, pinging, pingTick, pinger, served>>

Unwritten ==
    /\ \/ Torrent
       \/ OtherStat \/ AskStat \/ ReadPiece \/ ReadPeers \/ StatFails \/ Expire
       \/ ReceiveTick \/ Tick \/ ReceiveEnd \/ Stop \/ Done
    /\ UNCHANGED webVars

------------------------------------------------------------------------------
(* The goroutine that pings.                                               *)

PingTicks ==
    /\ pinging
    /\ pingTick' = TRUE
    /\ UNCHANGED <<vars, ctxDone, pinging, pinger, served, late>>

\* <-ticker.C
ReceivePing ==
    /\ pinger = "select"
    /\ pingTick
    /\ pingTick' = FALSE
    /\ pinger' = "ping"
    /\ UNCHANGED <<vars, ctxDone, pinging, served, late>>

\* Ping takes the mutex and looks at the context.
StartPing ==
    /\ pinger = "ping"
    /\ pinger' = IF ctxDone THEN "select" ELSE "write"
    /\ UNCHANGED <<vars, ctxDone, pinging, pingTick, served, late>>

WritePing ==
    /\ pinger = "write"
    /\ Event
    /\ pinger' = "select"
    /\ UNCHANGED <<vars, ctxDone, pinging, pingTick, served>>

\* <-ctx.Done()
PingerEnds ==
    /\ pinger = "select"
    /\ ctxDone
    /\ pinger' = "gone"
    /\ UNCHANGED <<vars, ctxDone, pinging, pingTick, served, late>>

------------------------------------------------------------------------------
\* The client leaves, or the server has seen its handler return.
ContextEnds ==
    /\ ctxDone' = TRUE
    /\ UNCHANGED <<vars, pinging, pingTick, pinger, served, late>>

\* StatStream has returned: ticker.Stop, and Serve returns.
Serve ==
    /\ handler = "returned"
    /\ served' = TRUE
    /\ pinging' = FALSE
    /\ pingTick' = FALSE
    /\ UNCHANGED <<vars, ctxDone, pinger, late>>

WebNext ==
    \/ WebSend \/ WebSendFails \/ WebLeave \/ Unwritten
    \/ PingTicks \/ ReceivePing \/ StartPing \/ WritePing \/ PingerEnds
    \/ ContextEnds \/ Serve

WebSpec == WebInit /\ [][WebNext]_allVars

------------------------------------------------------------------------------
\* A response must not be written to after its handler has returned, and Serve does
\* not wait for the goroutine that pings: one ping that was under way may be written
\* then, and no more (stat_web.go:67 stops the ticker before it returns).
OneLatePing == late <= 1
==============================================================================
