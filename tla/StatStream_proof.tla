--------------------------- MODULE StatStream_proof ---------------------------
(***************************************************************************)
(* Proofs about StatStream, and about StatWeb, which serves it, for        *)
(* torrents of any number of pieces that change any number of times.       *)
(***************************************************************************)
EXTENDS StatWeb, FiniteSetTheorems, TLAPS

AllComplete(states) == \A p \in Pieces : states[p] = "complete"

\* Statistics that say that all bytes are there, and were not disturbed, found
\* only complete pieces, and will.
ReadingInv ==
    reading # NoReply /\ ~ reading.lost /\ reading.completed = NumPieces =>
        /\ AllComplete(pieces)
        /\ \A p \in 1 .. Len(reading.pieces) : reading.pieces[p] = "complete"

\* So it is with a reply.
Truthful(rep) ==
    rep # NoReply /\ ~ rep.lost /\ rep.completed = NumPieces => AllComplete(rep.pieces)

RepliesInv == Truthful(cache) /\ Truthful(goroutine.rep)

\* A goroutine that reports the end of the stream has sent the reply in its hands.
EndInv ==
    goroutine.at = "end" =>
        prevRep = goroutine.rep /\ prevRep # NoReply /\ prevRep.completed = NumPieces

ReturnInv == handler = "returned" => goroutine.at = "gone"

IInv ==
    /\ TypeOK /\ ReadingInv /\ RepliesInv /\ EndInv /\ ReturnInv /\ ViewIsLastReply

------------------------------------------------------------------------------
LEMMA CompletedType ==
    ASSUME NEW states
    PROVE  CompletedOf(states) \in 0 .. NumPieces
<1> DEFINE C == {p \in Pieces : states[p] = "complete"}
<1>1. IsFiniteSet(Pieces) /\ Cardinality(Pieces) = NumPieces
  BY NumPiecesAssumption, FS_Interval DEF Pieces
<1>2. Cardinality(C) \in Nat /\ Cardinality(C) <= Cardinality(Pieces)
  BY <1>1, FS_Subset, FS_CardinalityType
<1> QED BY <1>1, <1>2, NumPiecesAssumption DEF CompletedOf

LEMMA CompletedAll ==
    ASSUME NEW states, CompletedOf(states) = NumPieces
    PROVE  AllComplete(states)
<1> DEFINE C == {p \in Pieces : states[p] = "complete"}
<1>1. IsFiniteSet(Pieces) /\ Cardinality(Pieces) = NumPieces
  BY NumPiecesAssumption, FS_Interval DEF Pieces
<1>2. C \subseteq Pieces /\ Cardinality(C) = Cardinality(Pieces)
  BY <1>1 DEF CompletedOf
<1>3. C = Pieces
  BY <1>1, <1>2, FS_Subset
<1> QED BY <1>3 DEF AllComplete

------------------------------------------------------------------------------
LEMMA InitInv == Init => IInv
<1> SUFFICES ASSUME Init PROVE IInv
  OBVIOUS
<1>1. /\ pieces \in [Pieces -> PieceStates]
      /\ changes \in 0 .. MaxChanges
      /\ goroutine \in Goroutine
  BY MaxChangesAssumption DEF Init, Goroutine
<1>2. peers \in BOOLEAN /\ ticking \in BOOLEAN /\ tick \in BOOLEAN
  BY Zenon DEF Init
<1>3. TypeOK
  BY <1>1, <1>2 DEF Init, TypeOK
<1> QED BY <1>3 DEF Init, IInv, ReadingInv, RepliesInv, Truthful, EndInv, ReturnInv,
                    ViewIsLastReply

\* Statistics begin with the number of complete bytes.
LEMMA StartReadingHolds ==
    ASSUME IInv, StartReading, UNCHANGED pieces
    PROVE  /\ reading' \in Partial
           /\ Len(reading'.pieces) <= NumPieces
           /\ ReadingInv'
<1>1. CompletedOf(pieces) \in 0 .. NumPieces
  BY CompletedType
<1>2. /\ reading' \in Partial
      /\ reading'.completed = CompletedOf(pieces)
      /\ reading'.pieces = <<>>
  BY <1>1 DEF StartReading, Partial
<1>3. reading'.completed = NumPieces => AllComplete(pieces)
  BY <1>2, CompletedAll
<1> QED BY <1>2, <1>3, NumPiecesAssumption DEF ReadingInv, AllComplete

LEMMA TorrentStep ==
    ASSUME IInv, Torrent
    PROVE  IInv'
<1>1. CASE PeersChange
  <2>1. peers' \in BOOLEAN
    BY <1>1, Zenon DEF PeersChange
  <2>2. changes' \in 0 .. MaxChanges
    BY <1>1, MaxChangesAssumption DEF PeersChange, Changes, IInv, TypeOK
  <2>3. UNCHANGED <<pieces, statVars, streamVars>>
    BY <1>1 DEF PeersChange
  <2> QED BY <2>1, <2>2, <2>3
          DEF IInv, TypeOK, ReadingInv, RepliesInv, Truthful, EndInv, ReturnInv,
              ViewIsLastReply, statVars, streamVars, handlerVars, AllComplete
<1>2. ASSUME NEW p \in Pieces, NEW state \in PieceStates, PieceChanges(p, state)
      PROVE  IInv'
  <2>1. /\ pieces' \in [Pieces -> PieceStates]
        /\ \A q \in Pieces \ {p} : pieces'[q] = pieces[q]
        /\ changes' \in 0 .. MaxChanges
        /\ UNCHANGED <<peers, cache, streamVars>>
    BY <1>2, MaxChangesAssumption DEF PieceChanges, Changes, IInv, TypeOK
  <2>2. /\ reading' \in {NoReply} \cup Partial
        /\ reading' # NoReply => Len(reading'.pieces) <= NumPieces
        /\ ReadingInv'
    <3>1. CASE reading # NoReply /\ pieces[p] = "complete"
      <4>1. reading \in Partial /\ reading' = [reading EXCEPT !.lost = TRUE]
        BY <1>2, <3>1 DEF PieceChanges, IInv, TypeOK
      <4>2. reading' \in Partial /\ reading'.lost /\ reading'.pieces = reading.pieces
        BY <4>1 DEF Partial
      <4> QED BY <3>1, <4>2 DEF IInv, TypeOK, ReadingInv
    <3>2. CASE reading = NoReply
      BY <1>2, <3>2 DEF PieceChanges, IInv, TypeOK, ReadingInv
    <3>3. CASE reading # NoReply /\ pieces[p] # "complete"
      <4>1. reading' = reading
        BY <1>2, <3>3 DEF PieceChanges
      <4>2. ~ AllComplete(pieces)
        BY <3>3 DEF AllComplete
      <4> QED BY <3>3, <4>1, <4>2 DEF IInv, TypeOK, ReadingInv
    <3> QED BY <3>1, <3>2, <3>3
  <2> QED BY <2>1, <2>2 DEF IInv, TypeOK, RepliesInv, Truthful, EndInv, ReturnInv,
                            ViewIsLastReply, streamVars, handlerVars
<1> QED BY <1>1, <1>2 DEF Torrent

LEMMA OtherStatStep ==
    ASSUME IInv, OtherStat
    PROVE  IInv'
<1>1. UNCHANGED <<pieces, peers, changes, cache, streamVars>> /\ StartReading
  BY DEF OtherStat, torrentVars
<1> QED BY <1>1, StartReadingHolds
        DEF IInv, TypeOK, RepliesInv, Truthful, EndInv, ReturnInv, ViewIsLastReply,
            streamVars, handlerVars

LEMMA AskStatStep ==
    ASSUME IInv, AskStat
    PROVE  IInv'
<1>1. UNCHANGED <<pieces, peers, changes, cache, prevRep, view, ticking, tick, handler>>
  BY DEF AskStat, torrentVars, handlerVars
<1>2. /\ reading' \in {NoReply} \cup Partial
      /\ reading' # NoReply => Len(reading'.pieces) <= NumPieces
      /\ ReadingInv'
  <2>1. CASE cache = NoReply /\ reading = NoReply
    BY <1>1, <2>1, StartReadingHolds DEF AskStat
  <2>2. CASE ~ (cache = NoReply /\ reading = NoReply)
    <3>1. reading' = reading
      BY <2>2 DEF AskStat
    <3> QED BY <1>1, <3>1 DEF IInv, TypeOK, ReadingInv
  <2> QED BY <2>1, <2>2
<1>3. /\ goroutine' \in Goroutine
      /\ goroutine'.at \in {"send", "await"}
      /\ goroutine'.at = "send" => goroutine'.rep # NoReply
      /\ Truthful(goroutine.rep)'
  <2>1. goroutine \in Goroutine /\ cache \in {NoReply} \cup Reply
    BY DEF IInv, TypeOK
  <2>2. CASE cache # NoReply
    <3>1. goroutine' = [at |-> "send", rep |-> cache]
      BY <2>2 DEF AskStat
    <3> QED BY <1>1, <2>1, <2>2, <3>1 DEF Goroutine, IInv, RepliesInv, Truthful
  <2>3. CASE cache = NoReply
    <3>1. goroutine' = [goroutine EXCEPT !.at = "await"]
      BY <2>3 DEF AskStat
    <3>2. goroutine'.at = "await" /\ goroutine'.rep = goroutine.rep
      BY <2>1, <3>1 DEF Goroutine
    <3> QED BY <2>1, <3>1, <3>2 DEF Goroutine, IInv, RepliesInv, Truthful
  <2> QED BY <2>2, <2>3
<1>4. goroutine.at = "stat" /\ handler # "returned"
  BY DEF AskStat, IInv, ReturnInv
<1> QED BY <1>1, <1>2, <1>3, <1>4
        DEF IInv, TypeOK, RepliesInv, Truthful, EndInv, ReturnInv, ViewIsLastReply

LEMMA ReadPieceStep ==
    ASSUME IInv, ReadPiece
    PROVE  IInv'
<1>1. /\ reading # NoReply /\ reading \in Partial
      /\ Len(reading.pieces) < NumPieces
      /\ reading' = [reading EXCEPT
                        !.pieces = Append(reading.pieces,
                                          pieces[Len(reading.pieces) + 1])]
      /\ UNCHANGED <<pieces, peers, changes, cache, streamVars>>
  BY DEF ReadPiece, IInv, TypeOK, torrentVars
<1>2. PICK n \in Pieces : n = Len(reading.pieces) + 1
  BY <1>1, NumPiecesAssumption DEF Partial, Pieces
<1>3. pieces[n] \in PieceStates
  BY DEF IInv, TypeOK
<1>4. /\ reading' \in Partial
      /\ reading'.pieces = Append(reading.pieces, pieces[n])
      /\ reading'.completed = reading.completed
      /\ reading'.lost = reading.lost
  BY <1>1, <1>2, <1>3 DEF Partial
<1>5. /\ Len(reading'.pieces) = n
      /\ reading'.pieces[n] = pieces[n]
      /\ \A p \in 1 .. Len(reading.pieces) : reading'.pieces[p] = reading.pieces[p]
  BY <1>1, <1>2, <1>3, <1>4 DEF Partial
<1>6. n <= NumPieces
  BY NumPiecesAssumption DEF Pieces
<1>7. ReadingInv'
  <2> SUFFICES ASSUME ~ reading'.lost, reading'.completed = NumPieces
               PROVE  /\ AllComplete(pieces')
                      /\ \A p \in 1 .. Len(reading'.pieces) :
                            reading'.pieces[p] = "complete"
    BY DEF ReadingInv
  <2>1. /\ AllComplete(pieces)
        /\ \A p \in 1 .. Len(reading.pieces) : reading.pieces[p] = "complete"
    BY <1>1, <1>4 DEF IInv, ReadingInv
  <2>2. AllComplete(pieces') /\ pieces[n] = "complete"
    BY <1>1, <2>1 DEF AllComplete
  <2>3. Len(reading.pieces) \in Nat
    BY <1>1 DEF Partial
  <2> QED BY <1>2, <1>5, <2>1, <2>2, <2>3
<1> QED BY <1>1, <1>4, <1>5, <1>6, <1>7
        DEF IInv, TypeOK, RepliesInv, Truthful, EndInv, ReturnInv, ViewIsLastReply,
            streamVars, handlerVars

LEMMA ReadPeersStep ==
    ASSUME IInv, ReadPeers
    PROVE  IInv'
<1>1. /\ reading # NoReply /\ reading \in Partial
      /\ Len(reading.pieces) = NumPieces
      /\ cache' = [completed |-> reading.completed, peers |-> peers,
                   pieces |-> reading.pieces, lost |-> reading.lost]
      /\ reading' = NoReply
      /\ UNCHANGED <<pieces, peers, changes, ticking, tick, handler, prevRep, view>>
  BY DEF ReadPeers, IInv, TypeOK, torrentVars, handlerVars
<1>2. reading.pieces \in [Pieces -> PieceStates]
  BY <1>1 DEF Partial, Pieces
<1>3. cache' \in Reply
  BY <1>1, <1>2 DEF Partial, Reply, IInv, TypeOK
<1>4. Truthful(cache)'
  BY <1>1, <1>2 DEF IInv, ReadingInv, Truthful, AllComplete, Pieces
<1>5. /\ goroutine' \in Goroutine
      /\ goroutine'.at = "send" => goroutine'.rep # NoReply
      /\ Truthful(goroutine.rep)'
  <2>1. CASE goroutine.at = "await"
    <3>1. goroutine' = [at |-> "send", rep |-> cache']
      BY <2>1 DEF ReadPeers
    <3>2. goroutine'.at = "send" /\ goroutine'.rep = cache' /\ cache' # NoReply
      BY <1>3, <3>1, NoReplyAssumption
    <3> QED BY <1>3, <1>4, <3>1, <3>2 DEF Goroutine, Truthful
  <2>2. CASE goroutine.at # "await"
    <3>1. goroutine' = goroutine
      BY <2>2 DEF ReadPeers
    <3> QED BY <3>1 DEF IInv, TypeOK, RepliesInv, Truthful
  <2> QED BY <2>1, <2>2
<1>6. EndInv' /\ ReturnInv' /\ ViewIsLastReply'
  BY <1>1 DEF ReadPeers, IInv, EndInv, ReturnInv, ViewIsLastReply
<1> QED BY <1>1, <1>3, <1>4, <1>5, <1>6 DEF IInv, TypeOK, ReadingInv, RepliesInv

\* A reply that is sent brings the receiver up to date.
LEMMA UpdatedIsReply ==
    ASSUME IInv, goroutine.at = "send"
    PROVE  Updated(goroutine.rep) = goroutine.rep
<1>1. goroutine.rep \in Reply
  BY DEF IInv, TypeOK, Goroutine
<1>2. PICK rep \in Reply : rep = goroutine.rep
  BY <1>1
<1>3. [p \in Pieces |-> IF p \in Diff(rep) THEN rep.pieces[p] ELSE view.pieces[p]]
          = rep.pieces
  <2>1. rep.pieces \in [Pieces -> PieceStates]
    BY DEF Reply
  <2>2. \A p \in Pieces : p \notin Diff(rep) => view.pieces[p] = rep.pieces[p]
    <3>1. CASE prevRep = NoReply
      BY <3>1 DEF Diff
    <3>2. CASE prevRep # NoReply
      <4>1. view = prevRep
        BY <3>2 DEF IInv, ViewIsLastReply
      <4> QED BY <3>2, <4>1 DEF Diff
    <3> QED BY <3>1, <3>2
  <2> QED BY <2>1, <2>2
<1>4. [rep EXCEPT !.pieces = rep.pieces] = rep
  BY DEF Reply
<1> QED BY <1>2, <1>3, <1>4 DEF Updated

LEMMA SendStep ==
    ASSUME IInv, Send
    PROVE  IInv'
<1>1. PICK rep \in Reply : rep = goroutine.rep
  BY DEF Send, IInv, TypeOK, Goroutine
<1>2. /\ UNCHANGED <<torrentVars, statVars, handlerVars>>
      /\ goroutine.at = "send"
      /\ goroutine \in Goroutine
  BY DEF Send, IInv, TypeOK
<1>3. handler # "returned"
  BY <1>2 DEF IInv, ReturnInv
<1>4. /\ goroutine' \in Goroutine
      /\ goroutine'.at \in {"end", "select"}
      /\ goroutine'.rep = rep
  BY <1>1, <1>2 DEF Send, Goroutine
<1>5. /\ prevRep' \in {NoReply} \cup Reply /\ view' \in {NoReply} \cup Reply
      /\ EndInv' /\ ViewIsLastReply'
  <2>1. CASE Changed(rep)
    <3>1. prevRep' = rep /\ view' = rep
      BY <1>1, <1>2, <2>1, UpdatedIsReply DEF Send
    <3>2. goroutine'.at = "end" => rep.completed = NumPieces
      BY <1>1, <1>2, <2>1 DEF Send, Goroutine
    <3> QED BY <1>1, <1>4, <3>1, <3>2, NoReplyAssumption DEF EndInv, ViewIsLastReply
  <2>2. CASE ~ Changed(rep)
    <3>1. UNCHANGED <<prevRep, view>> /\ goroutine'.at = "select"
      BY <1>1, <1>2, <2>2 DEF Send, Goroutine
    <3> QED BY <1>2, <3>1 DEF IInv, TypeOK, EndInv, ViewIsLastReply
  <2> QED BY <2>1, <2>2
<1>6. ReadingInv' /\ RepliesInv'
  BY <1>1, <1>2, <1>4
     DEF IInv, ReadingInv, RepliesInv, Truthful, AllComplete, torrentVars, statVars
<1>7. ReturnInv'
  BY <1>2, <1>3 DEF ReturnInv, handlerVars
<1> QED BY <1>2, <1>4, <1>5, <1>6, <1>7
        DEF IInv, TypeOK, torrentVars, statVars, handlerVars

\* The other steps of goroutine and handler send nothing.
LEMMA OtherSteps ==
    ASSUME IInv,
           StatFails \/ Expire \/ SendFails \/ ReceiveTick \/ Tick \/ Leave
               \/ ReceiveEnd \/ Stop \/ Done \/ UNCHANGED vars
    PROVE  IInv'
<1>1. goroutine \in Goroutine
  BY DEF IInv, TypeOK
<1>2. UNCHANGED <<torrentVars, view>>
  BY DEF StatFails, Expire, SendFails, ReceiveTick, Tick, Leave, ReceiveEnd, Stop, Done,
         vars, streamVars
<1>3. /\ reading' \in {NoReply, reading}
      /\ cache' \in {NoReply, cache}
      /\ prevRep' \in {prevRep, goroutine.rep}
  BY DEF StatFails, Expire, SendFails, ReceiveTick, Tick, Leave, ReceiveEnd, Stop, Done,
         vars, statVars, streamVars
<1>4. /\ goroutine' \in Goroutine
      /\ goroutine'.rep \in {NoReply, goroutine.rep}
      /\ goroutine'.at = "send" => goroutine' = goroutine
  BY <1>1 DEF StatFails, Expire, SendFails, ReceiveTick, Tick, Leave, ReceiveEnd, Stop,
              Done, vars, streamVars, Goroutine
<1>5. /\ ticking' \in BOOLEAN /\ tick' \in BOOLEAN
      /\ handler' \in {"select", "leaving", "stopped", "returned"}
  <2>1. ticking \in BOOLEAN /\ tick \in BOOLEAN
    BY DEF IInv, TypeOK
  <2>2. ticking' \in {ticking, FALSE} /\ tick' \in {tick, TRUE, FALSE}
    BY Zenon DEF StatFails, Expire, SendFails, ReceiveTick, Tick, Leave, ReceiveEnd,
                 Stop, Done, vars, streamVars, handlerVars
  <2>3. handler' \in {"select", "leaving", "stopped", "returned"}
    BY DEF StatFails, Expire, SendFails, ReceiveTick, Tick, Leave, ReceiveEnd, Stop,
           Done, vars, streamVars, handlerVars, IInv, TypeOK
  <2> QED BY <2>1, <2>2, <2>3, Zenon
<1>6. TypeOK'
  BY <1>1, <1>2, <1>3, <1>4, <1>5 DEF IInv, TypeOK, torrentVars, Goroutine
<1>7. ReadingInv' /\ RepliesInv'
  BY <1>2, <1>3, <1>4 DEF IInv, ReadingInv, RepliesInv, Truthful, AllComplete, torrentVars
<1>8. EndInv' /\ ReturnInv'
  BY <1>1 DEF StatFails, Expire, SendFails, ReceiveTick, Tick, Leave, ReceiveEnd, Stop,
              Done, vars, streamVars, handlerVars, Goroutine, IInv, EndInv, ReturnInv
<1>9. ViewIsLastReply'
  BY <1>1 DEF StatFails, Expire, SendFails, ReceiveTick, Tick, Leave, ReceiveEnd, Stop,
              Done, vars, streamVars, handlerVars, Goroutine, IInv, ViewIsLastReply
<1> QED BY <1>6, <1>7, <1>8, <1>9 DEF IInv

LEMMA NextInv == IInv /\ [Next]_vars => IInv'
BY TorrentStep, OtherStatStep, AskStatStep, ReadPieceStep, ReadPeersStep, SendStep,
   OtherSteps
   DEF Next

------------------------------------------------------------------------------
\* The state of the stream has its types: a goroutine that sends has a reply.
THEOREM TypeInvariant == Spec => []TypeOK
<1>1. IInv => TypeOK
  BY DEF IInv
<1> QED BY <1>1, InitInv, NextInv, PTL DEF Spec

\* The differences add up to the reply sent last, whatever changed in between
\* without being sent.
THEOREM ReceiverKnowsReply == Spec => []ViewIsLastReply
<1>1. IInv => ViewIsLastReply
  BY DEF IInv
<1> QED BY <1>1, InitInv, NextInv, PTL DEF Spec

\* A stream that ends by itself has told the receiver that every piece is complete,
\* unless one was evicted while the statistics were read.
THEOREM EndsComplete == Spec => []EndIsComplete
<1>1. IInv => EndIsComplete
  <2> SUFFICES ASSUME IInv, goroutine.at = "end", ~ view.lost
               PROVE  \A p \in Pieces : view.pieces[p] = "complete"
    BY DEF EndIsComplete
  <2>1. prevRep # NoReply /\ prevRep = goroutine.rep /\ prevRep.completed = NumPieces
    BY DEF IInv, EndInv
  <2>2. view = prevRep
    BY <2>1 DEF IInv, ViewIsLastReply
  <2> QED BY <2>1, <2>2 DEF IInv, RepliesInv, Truthful, AllComplete
<1> QED BY <1>1, InitInv, NextInv, PTL DEF Spec

\* A handler that has returned has ended its goroutine: nothing is sent afterwards.
THEOREM NothingSentAfterReturn == Spec => NothingAfterReturn
<1> DEFINE Silent == handler = "returned" => UNCHANGED <<goroutine, view>>
<1>1. IInv /\ [Next]_vars => [Silent]_vars
  <2> SUFFICES ASSUME IInv, Next, handler = "returned"
               PROVE  UNCHANGED <<goroutine, view>>
    OBVIOUS
  <2>1. goroutine.at = "gone"
    BY DEF IInv, ReturnInv
  <2> QED BY <2>1 DEF Next, Torrent, PeersChange, PieceChanges, OtherStat, AskStat,
             ReadPiece, ReadPeers, StatFails, Expire, Send, SendFails, ReceiveTick, Tick,
             Leave, ReceiveEnd, Stop, Done, streamVars
<1>2. Spec => []IInv
  BY InitInv, NextInv, PTL DEF Spec
<1> QED BY <1>1, <1>2, PTL DEF Spec, NothingAfterReturn

------------------------------------------------------------------------------
(* Over HTTP.                                                              *)

LEMMA WebStep == [WebNext]_allVars => [Next]_vars
BY DEF WebNext, allVars, WebSend, WebSendFails, WebLeave, Unwritten, PingTicks,
       ReceivePing, StartPing, WritePing, PingerEnds, ContextEnds, Serve, Next

\* Served over HTTP, with pings and a context that may be done at any time, a stream
\* of statistics does what StatStream does: all that is proved of it holds.
THEOREM WebServesTheStream == WebSpec => Spec
<1>1. WebInit => Init
  BY DEF WebInit
<1> QED BY <1>1, WebStep, PTL DEF WebSpec, Spec

\* After Serve has returned there is no tick to receive, so that a ping under way
\* is the last, and it is the only event so late.
LateInv ==
    /\ served => handler = "returned" /\ ~ pinging /\ ~ pingTick
    /\ ~ served => late = 0
    /\ late \in {0, 1}
    /\ late = 1 => pinger \notin {"ping", "write"}

LEMMA LateInit == WebInit => LateInv
BY DEF WebInit, LateInv

LEMMA LateNext == IInv /\ LateInv /\ [WebNext]_allVars => LateInv'
<1> SUFFICES ASSUME IInv, LateInv, [WebNext]_allVars PROVE LateInv'
  OBVIOUS
<1> USE DEF LateInv, Event
<1>1. CASE WebSend \/ WebSendFails
  <2>1. ~ served
    BY <1>1 DEF WebSend, WebSendFails, Send, SendFails, IInv, ReturnInv
  <2> QED BY <1>1, <2>1 DEF WebSend, WebSendFails, Written, webVars
<1>2. CASE WebLeave
  <2>1. ~ served
    BY <1>2 DEF WebLeave, Leave
  <2> QED BY <1>2, <2>1 DEF WebLeave, Written
<1>3. CASE Unwritten
  <2>1. handler = "returned" => handler' = "returned"
    BY <1>3 DEF Unwritten, Torrent, PeersChange, PieceChanges, OtherStat, AskStat,
                ReadPiece, ReadPeers, StatFails, Expire, ReceiveTick, Tick,
                ReceiveEnd, Stop, Done, streamVars, handlerVars
  <2> QED BY <1>3, <2>1 DEF Unwritten, webVars
<1>4. CASE PingTicks \/ ReceivePing \/ StartPing \/ PingerEnds \/ ContextEnds
  BY <1>4 DEF PingTicks, ReceivePing, StartPing, PingerEnds, ContextEnds, vars,
              streamVars, handlerVars
<1>5. CASE WritePing
  BY <1>5 DEF WritePing, vars, streamVars, handlerVars
<1>6. CASE Serve
  BY <1>6 DEF Serve, vars, streamVars, handlerVars
<1>7. CASE UNCHANGED allVars
  BY <1>7 DEF allVars, webVars, vars, streamVars, handlerVars
<1> QED BY <1>1, <1>2, <1>3, <1>4, <1>5, <1>6, <1>7 DEF WebNext

\* No reply and no TERMINATED is written to a response whose handler has returned,
\* and of the pings at most the one that was under way (stat_web.go:56).
THEOREM AtMostOneLatePing == WebSpec => []OneLatePing
<1>1. WebSpec => []IInv
  BY WebServesTheStream, InitInv, NextInv, PTL DEF Spec
<1>2. LateInv => OneLatePing
  BY DEF LateInv, OneLatePing
<1> QED BY <1>1, <1>2, LateInit, LateNext, PTL DEF WebSpec
==============================================================================
