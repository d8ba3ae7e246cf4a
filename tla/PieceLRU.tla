------------------------------- MODULE PieceLRU -------------------------------
(***************************************************************************)
(* The LRU tracker of the pieces of one torrent (piece_lru.go).  Every     *)
(* method runs under the tracker's mutex, so each one is one action.       *)
(*                                                                         *)
(* The list lruList is kept front first: lruList[1] is the most recently   *)
(* used piece and the last element the first candidate for eviction.  The  *)
(* map "entries" is the set of the pieces in the list.  Time stamps are    *)
(* written by the code and never read, and are left out.                   *)
(*                                                                         *)
(* The actions constrain lruList and used only.  PieceLRUCalls runs them   *)
(* on their own, PieceStorage inside the storage they serve.               *)
(***************************************************************************)
EXTENDS Torrent, Sequences

\* Under a name: SequencesExt has a Remove of its own.
SeqExt == INSTANCE SequencesExt

CONSTANT Budget         \* bytes the torrent may keep on disk, 0 for no limit

ASSUME BudgetAssumption == Budget \in Nat

VARIABLES
    lruList,    \* the tracked pieces, front (most recently used) first
    used        \* the tracker's count of the bytes of the tracked pieces

lruVars == <<lruList, used>>

entries == {lruList[i] : i \in DOMAIN lruList}

LRUTypeOK == lruList \in Seq(Pieces)

\* The bytes of the pieces in S, and how many they are.
BytesOf(S) == UNION {{p} \X (1 .. Size[p]) : p \in S}
SumSize(S) == Cardinality(BytesOf(S))

------------------------------------------------------------------------------
Position(p) == CHOOSE i \in DOMAIN lruList : lruList[i] = p

Without(list, i) ==
    SubSeq(list, 1, i - 1) \o SubSeq(list, i + 1, Len(list))

MovedToFront(p) == <<p>> \o Without(lruList, Position(p))

\* Protection forgotten.
SlipEvictedBefore(list, prot, i, j) == i > j

\* computeEvictions returns pieces in the order in which its two passes meet
\* them: from the back of the list, those that isProtected does not hold for
\* (prot is the set of pieces it holds for) before those that it holds for.
EvictedBefore(list, prot, i, j) ==
    \/ list[i] \notin prot /\ list[j] \in prot
    \/ /\ list[i] \in prot <=> list[j] \in prot
       /\ i > j

\* One piece more when the bytes left just fit.
SlipMustGo(list, u, prot) ==
    {j \in DOMAIN list :
        u - SumSize({list[i] : i \in {k \in DOMAIN list :
                                        EvictedBefore(list, prot, k, j)}})
          >= Budget}

\* Both passes stop as soon as the bytes left (simUsed) fit the budget, so a
\* piece is returned if those before it do not free enough.
MustGo(list, u, prot) ==
    {j \in DOMAIN list :
        u - SumSize({list[i] : i \in {k \in DOMAIN list :
                                        EvictedBefore(list, prot, k, j)}})
          > Budget}

\* The lists that computeEvictions may return when the list of pieces is
\* "list" and u bytes are used: there is exactly one.
computeEvictions(list, u, prot) ==
    IF Budget = 0 \/ u <= Budget
    THEN {<< >>}
    ELSE LET go == MustGo(list, u, prot)
         IN  {[n \in DOMAIN s |-> list[s[n]]] :
                 s \in {t \in SeqExt!SetToSeqs(go) :
                          \A m, n \in DOMAIN t :
                             m < n => EvictedBefore(list, prot, t[m], t[n])}}

------------------------------------------------------------------------------
LRUInit == lruList = << >> /\ used = 0

Touch(p) ==
    /\ lruList' = IF p \in entries THEN MovedToFront(p) ELSE lruList
    /\ UNCHANGED used

\* A tracked piece is tracked once more.
SlipAdd(p) ==
    /\ lruList' = <<p>> \o lruList
    /\ used' = used + Size[p]

Add(p) ==
    IF p \in entries
    THEN Touch(p)
    ELSE /\ lruList' = <<p>> \o lruList
         /\ used' = used + Size[p]

\* The evictions computed before the bytes of the piece are counted.
SlipAddReturns(p, prot) ==
    IF p \in entries
    THEN {<< >>}
    ELSE computeEvictions(<<p>> \o lruList, used, prot)

\* The lists that Add(p) may return to its caller, which evicts the pieces in
\* them: none for a piece that is already tracked.
AddReturns(p, prot) ==
    IF p \in entries
    THEN {<< >>}
    ELSE computeEvictions(<<p>> \o lruList, used + Size[p], prot)

\* The bytes of a piece that is not tracked any more are subtracted again.
SlipRemove(p) ==
    /\ lruList' = IF p \in entries THEN Without(lruList, Position(p)) ELSE lruList
    /\ used' = used - Size[p]

Remove(p) ==
    IF p \in entries
    THEN /\ lruList' = Without(lruList, Position(p))
         /\ used' = used - Size[p]
    ELSE UNCHANGED lruVars

\* Recover pushes to the back the pieces of a map that are not yet tracked,
\* in the order of Go's iteration over the map: any order.
Recover(found) ==
    \E s \in SeqExt!SetToSeqs(found \ entries) :
        /\ lruList' = lruList \o s
        /\ used' = used + SumSize(found \ entries)

------------------------------------------------------------------------------
TrackedOnce == Len(lruList) = Cardinality(entries)

\* The tracker counts the bytes of every tracked piece once, also when a piece
\* is removed that is not tracked or recovered that is, and although two threads
\* may evict, and remove, the same piece.
UsedCountsTrackedPieces ==
    /\ TrackedOnce
    /\ used = SumSize(entries)
==============================================================================
