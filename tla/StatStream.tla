------------------------------ MODULE StatStream ------------------------------
(***************************************************************************)
(* A stream of statistics about a file (stat.go).  The handler waits for   *)
(* the end of the stream.  Its goroutine asks for the statistics on every  *)
(* tick and sends the pieces that differ from the reply sent before.       *)
(* They meet on two channels without a buffer: errCh, on which the         *)
(* goroutine reports that it is through, and done, on which the handler,   *)
(* before it returns, tells the goroutine to end.                          *)
(*                                                                         *)
(* The statistics are shared by all who ask for them within three seconds, *)
(* and are read one after the other while the torrent changes.             *)
(***************************************************************************)
EXTENDS Integers, Sequences, FiniteSets

CONSTANTS
    NumPieces,
    NoReply,
    MaxChanges      \* bound on the changes of the torrent

ASSUME NumPiecesAssumption == NumPieces \in Nat
ASSUME MaxChangesAssumption == MaxChanges \in Nat

Pieces == 1 .. NumPieces

\* Complete, or not, and then with or without a priority.
PieceStates == {"none", "wanted", "complete"}

VARIABLES
    pieces,         \* the state of each piece of the torrent
    peers,          \* whether it has peers
    changes,        \* changes of the torrent so far
    reading,        \* statistics being read
    cache,          \* statistics read less than three seconds ago
    goroutine,      \* where the goroutine is, and the reply in its hands
    prevRep,        \* the reply that it sent last
    ticking,        \* the ticker runs
    tick,           \* a tick is waiting to be received
    handler,        \* where the handler is
    view            \* what the receiver has put together (not in the code)

torrentVars == <<pieces, peers, changes>>
statVars == <<reading, cache>>
handlerVars == <<ticking, tick, handler>>
streamVars == <<goroutine, prevRep, handlerVars, view>>
vars == <<torrentVars, statVars, streamVars>>

\* Piece sizes are all the same.  lost: a piece was evicted while the statistics
\* were read (not in the code).
Reply == [completed : 0 .. NumPieces, peers : BOOLEAN,
          pieces : [Pieces -> PieceStates], lost : BOOLEAN]

\* Statistics of which some pieces have been read.
Partial == [completed : 0 .. NumPieces, pieces : Seq(PieceStates), lost : BOOLEAN]

Goroutine == [at : {"stat", "await", "send", "fail", "end", "select", "gone"},
              rep : Reply \cup {NoReply}]

ASSUME NoReplyAssumption == NoReply \notin Reply \cup Partial

\* fileBytesCompleted
CompletedOf(states) == Cardinality({p \in Pieces : states[p] = "complete"})

TypeOK ==
    /\ pieces \in [Pieces -> PieceStates]
    /\ peers \in BOOLEAN
    /\ changes \in 0 .. MaxChanges
    /\ reading \in {NoReply} \cup Partial
    /\ reading # NoReply => Len(reading.pieces) <= NumPieces
    /\ cache \in {NoReply} \cup Reply
    /\ goroutine \in Goroutine
    /\ goroutine.at = "send" => goroutine.rep # NoReply
    /\ prevRep \in {NoReply} \cup Reply
    /\ ticking \in BOOLEAN
    /\ tick \in BOOLEAN
    /\ handler \in {"select", "leaving", "stopped", "returned"}
    /\ view \in {NoReply} \cup Reply

Init ==
    /\ pieces \in [Pieces -> PieceStates]
    /\ peers = FALSE
    /\ changes = 0
    /\ reading = NoReply
    /\ cache = NoReply
    /\ goroutine = [at |-> "stat", rep |-> NoReply]
    /\ prevRep = NoReply
    /\ ticking = TRUE
    /\ tick = FALSE
    /\ handler = "select"
    /\ view = NoReply

------------------------------------------------------------------------------
(* The torrent                                                             *)

Changes == changes < MaxChanges /\ changes' = changes + 1

\* A piece is downloaded, evicted, or gets or loses a priority.
PieceChanges(p, state) ==
    /\ Changes
    /\ pieces[p] # state
    /\ pieces' = [pieces EXCEPT ![p] = state]
    /\ reading' = IF reading # NoReply /\ pieces[p] = "complete"
                  THEN [reading EXCEPT !.lost = TRUE]
                  ELSE reading
    /\ UNCHANGED <<peers, cache, streamVars>>

PeersChange ==
    /\ Changes
    /\ peers' = ~ peers
    /\ UNCHANGED <<pieces, statVars, streamVars>>

------------------------------------------------------------------------------
(* Stat                                                                    *)

StartReading ==
    reading' = [completed |-> CompletedOf(pieces), pieces |-> <<>>, lost |-> FALSE]

\* Somebody else asks.  Who asks while statistics are read waits for them.
OtherStat ==
    /\ cache = NoReply
    /\ reading = NoReply
    /\ StartReading
    /\ UNCHANGED <<torrentVars, cache, streamVars>>

\* The goroutine asks.
AskStat ==
    /\ goroutine.at = "stat"
    /\ IF cache # NoReply
       THEN goroutine' = [at |-> "send", rep |-> cache]
       ELSE goroutine' = [goroutine EXCEPT !.at = "await"]
    /\ IF cache = NoReply /\ reading = NoReply THEN StartReading ELSE UNCHANGED reading
    /\ UNCHANGED <<torrentVars, cache, handlerVars, prevRep, view>>

\* The number of bytes is read first, then the pieces, which may be one by one.
ReadPiece ==
    /\ reading # NoReply
    /\ Len(reading.pieces) < NumPieces
    /\ reading' = [reading EXCEPT !.pieces = Append(@, pieces[Len(@) + 1])]
    /\ UNCHANGED <<torrentVars, cache, streamVars>>

\* The number of bytes is read last.
SlipReadPeers ==
    /\ reading # NoReply
    /\ Len(reading.pieces) = NumPieces
    /\ cache' = [completed |-> CompletedOf(pieces), peers |-> peers,
                 pieces |-> reading.pieces, lost |-> reading.lost]
    /\ reading' = NoReply
    /\ goroutine' = IF goroutine.at = "await"
                    THEN [at |-> "send", rep |-> cache']
                    ELSE goroutine
    /\ UNCHANGED <<torrentVars, handlerVars, prevRep, view>>

\* Then the peers: the reply is kept and given to all who wait.
ReadPeers ==
    /\ reading # NoReply
    /\ Len(reading.pieces) = NumPieces
    /\ cache' = [completed |-> reading.completed, peers |-> peers,
                 pieces |-> reading.pieces, lost |-> reading.lost]
    /\ reading' = NoReply
    /\ goroutine' = IF goroutine.at = "await"
                    THEN [at |-> "send", rep |-> cache']
                    ELSE goroutine
    /\ UNCHANGED <<torrentVars, handlerVars, prevRep, view>>

\* The error is overlooked.
SlipStatFails ==
    /\ goroutine.at \in {"stat", "await"}
    /\ goroutine' = [goroutine EXCEPT !.at = "send"]
    /\ reading' = IF goroutine.at = "await" THEN NoReply ELSE reading
    /\ UNCHANGED <<torrentVars, cache, handlerVars, prevRep, view>>

\* The torrent cannot be had, or could not be had a second ago.
StatFails ==
    /\ goroutine.at \in {"stat", "await"}
    /\ goroutine' = [goroutine EXCEPT !.at = "fail"]
    /\ reading' = IF goroutine.at = "await" THEN NoReply ELSE reading
    /\ UNCHANGED <<torrentVars, cache, handlerVars, prevRep, view>>

Expire ==
    /\ cache # NoReply
    /\ cache' = NoReply
    /\ UNCHANGED <<torrentVars, reading, streamVars>>
------------------------------------------------------------------------------
(* The goroutine                                                           *)

\* Peers are no news.
SlipChanged(rep) ==
    ~ (prevRep # NoReply /\ rep.completed = prevRep.completed)

\* A reply goes out if the number of bytes or of peers is another one.
Changed(rep) ==
    ~ /\ prevRep # NoReply
      /\ rep.completed = prevRep.completed
      /\ rep.peers = prevRep.peers

\* diff: the positions that go out.
Diff(rep) ==
    IF prevRep = NoReply
    THEN Pieces
    ELSE {p \in Pieces : rep.pieces[p] # prevRep.pieces[p]}

\* What the receiver knows with this update.
Updated(rep) ==
    [rep EXCEPT !.pieces =
        [p \in Pieces |-> IF p \in Diff(rep) THEN rep.pieces[p] ELSE view.pieces[p]]]

\* prevRep is set for every reply, sent or not.
SlipSend ==
    LET rep == goroutine.rep
    IN  /\ goroutine.at = "send"
        /\ prevRep' = rep
        /\ IF Changed(rep)
           THEN /\ view' = Updated(rep)
                /\ goroutine' = [goroutine EXCEPT
                       !.at = IF rep.completed = NumPieces THEN "end" ELSE "select"]
           ELSE /\ goroutine' = [goroutine EXCEPT !.at = "select"]
                /\ UNCHANGED view
        /\ UNCHANGED <<torrentVars, statVars, handlerVars>>

\* The reply is sent if it is news.  With everything complete the stream ends.
Send ==
    LET rep == goroutine.rep
    IN  /\ goroutine.at = "send"
        /\ IF Changed(rep)
           THEN /\ prevRep' = rep
                /\ view' = Updated(rep)
                /\ goroutine' = [goroutine EXCEPT
                       !.at = IF rep.completed = NumPieces THEN "end" ELSE "select"]
           ELSE /\ goroutine' = [goroutine EXCEPT !.at = "select"]
                /\ UNCHANGED <<prevRep, view>>
        /\ UNCHANGED <<torrentVars, statVars, handlerVars>>

\* The stream does not take it.
SendFails ==
    /\ goroutine.at = "send"
    /\ Changed(goroutine.rep)
    /\ prevRep' = goroutine.rep
    /\ goroutine' = [goroutine EXCEPT !.at = "fail"]
    /\ UNCHANGED <<torrentVars, statVars, handlerVars, view>>

\* <-ticker.C
ReceiveTick ==
    /\ goroutine.at = "select"
    /\ tick
    /\ tick' = FALSE
    /\ goroutine' = [at |-> "stat", rep |-> NoReply]
    /\ UNCHANGED <<torrentVars, statVars, prevRep, ticking, handler, view>>

------------------------------------------------------------------------------
(* The handler                                                             *)

Tick ==
    /\ ticking
    /\ tick' = TRUE
    /\ UNCHANGED <<torrentVars, statVars, goroutine, prevRep, ticking, handler,
                   view>>

\* The torrent is closed or the process is told to end (TERMINATED goes out, which
\* is not part of view), the context of the stream is done, or half an hour is over.
Leave ==
    /\ handler = "select"
    /\ handler' = "leaving"
    /\ UNCHANGED <<torrentVars, statVars, goroutine, prevRep, ticking, tick, view>>

\* errCh: the goroutine has ended.
ReceiveEnd ==
    /\ handler = "select"
    /\ goroutine.at \in {"fail", "end"}
    /\ handler' = "leaving"
    /\ goroutine' = [goroutine EXCEPT !.at = "gone"]
    /\ UNCHANGED <<torrentVars, statVars, prevRep, ticking, tick, view>>

\* The ticker is left alone.
SlipStop ==
    /\ handler = "leaving"
    /\ handler' = "stopped"
    /\ UNCHANGED <<torrentVars, statVars, goroutine, prevRep, ticking, tick, view>>

\* ticker.Stop: no tick can be received afterwards.
Stop ==
    /\ handler = "leaving"
    /\ handler' = "stopped"
    /\ ticking' = FALSE
    /\ tick' = FALSE
    /\ UNCHANGED <<torrentVars, statVars, goroutine, prevRep, view>>

\* The channel has room for one.
SlipDone ==
    /\ handler = "stopped"
    /\ handler' = "returned"
    /\ UNCHANGED <<torrentVars, statVars, goroutine, prevRep, ticking, tick, view>>

\* done <- true: the handler returns when the goroutine receives it.
Done ==
    /\ handler = "stopped"
    /\ goroutine.at = "select"
    /\ handler' = "returned"
    /\ goroutine' = [goroutine EXCEPT !.at = "gone"]
    /\ UNCHANGED <<torrentVars, statVars, prevRep, ticking, tick, view>>

------------------------------------------------------------------------------
Torrent == PeersChange \/ \E p \in Pieces, state \in PieceStates : PieceChanges(p, state)

Next ==
    \/ Torrent
    \/ OtherStat \/ AskStat \/ ReadPiece \/ ReadPeers \/ StatFails \/ Expire
    \/ Send \/ SendFails \/ ReceiveTick
    \/ Tick \/ Leave \/ ReceiveEnd \/ Stop \/ Done

Spec == Init /\ [][Next]_vars

\* Goroutine and handler take their steps, statistics are read, replies get old,
\* and the ticker ticks.  No fairness between the cases of a select is assumed.
Fairness ==
    /\ WF_vars(AskStat) /\ WF_vars(Send) /\ WF_vars(ReceiveTick)
    /\ WF_vars(ReadPiece) /\ WF_vars(ReadPeers) /\ SF_vars(Expire)
    /\ WF_vars(Tick) /\ WF_vars(ReceiveEnd) /\ WF_vars(Stop) /\ WF_vars(Done)

FairSpec == Spec /\ Fairness

------------------------------------------------------------------------------
\* The receiver, who gets every piece once and then only differences between
\* replies, knows what the last reply that was sent says.
ViewIsLastReply ==
    prevRep # NoReply /\ goroutine.at \notin {"fail", "gone"} => view = prevRep

\* A stream that ends since everything is complete has told the receiver of every
\* piece, unless one was evicted while the statistics were read.
EndIsComplete ==
    goroutine.at = "end" =>
        view.lost \/ \A p \in Pieces : view.pieces[p] = "complete"

\* Nothing is sent on a stream whose handler has returned.
NothingAfterReturn ==
    [][handler = "returned" => UNCHANGED <<goroutine, view>>]_vars

\* A handler that wants to leave returns, unless the goroutine has reported its
\* end, or waits to report it: then nobody receives what the handler sends, and it
\* stays for ever.
HandlerReturns ==
    handler # "select" ~>
        handler = "returned" \/ goroutine.at \in {"gone", "fail", "end"}

\* The receiver knows the number of bytes, and whether there are peers.
Current ==
    view # NoReply /\ view.completed = CompletedOf(pieces) /\ view.peers = peers

\* When the torrent stops changing, the receiver gets to know the number of bytes
\* and whether there are peers, as long as the stream goes on.
ViewCatchesUp ==
    \/ []<><<Torrent>>_vars
    \/ <>[]\/ handler # "select"
           \/ goroutine.at \in {"gone", "fail", "end"}
           \/ Current
==============================================================================
