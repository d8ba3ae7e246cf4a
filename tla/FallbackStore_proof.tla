-------------------------- MODULE FallbackStore_proof --------------------------
(***************************************************************************)
(* Proofs about FallbackStore, for any torrent, any number of goroutines   *)
(* that evict and any number of failures.                                  *)
(***************************************************************************)
EXTENDS FallbackStore, TLAPS

\* With the database, a piece that is being evicted is complete in it only if it
\* was marked complete again meanwhile.
MarkedFirst ==
    /\ DOMAIN eviction = Evictors
    /\ pc \in {"sqlite", "map"}
    /\ pc = "sqlite" =>
          \A p \in dbPieces : BeingEvicted(p) => p \in overtaken

\* What the steps do to the database.
LEMMA SetEffect ==
    ASSUME NEW p, NEW b \in BOOLEAN,
           SetCompletion(p, b) \/ SetCompletionFails(p, b)
    PROVE  /\ dbPieces' = dbPieces \/ (b /\ dbPieces' = dbPieces \cup {p})
                                   \/ (~ b /\ dbPieces' = dbPieces \ {p})
           /\ SetCompletion(p, FALSE) /\ pc = "sqlite" => dbPieces' = dbPieces \ {p}
           /\ SetCompletion(p, TRUE) /\ pc = "sqlite" => dbPieces' = dbPieces \cup {p}
           /\ pc = "map" \/ SetCompletionFails(p, b) => dbPieces' = dbPieces
BY DEF SetCompletion, SetCompletionFails, Set, SetFails, completionVars, bookVars

LEMMA OtherEffect ==
    ASSUME \/ \E p \in Pieces : WriteAt(p) \/ Hash(p)
           \/ \E e \in Evictors : EvictFiles(e) \/ EvictPunch(e)
           \/ Reopen
           \/ Poll
           \/ UNCHANGED vars
    PROVE  UNCHANGED <<dbPieces, overtaken>>
BY DEF WriteAt, Hash, EvictFiles, EvictPunch, Reopen, Poll, vars, diskVars,
       completionVars, bookVars, UncompleteFiles, UncompleteFilesFails,
       NewPieceCompletion, Poller, PollerScan, PollerWrite, PollerCheck, PollerFails

\* A mark of a piece, by a hasher or an eviction.
Mark(p, b) ==
    /\ UNCHANGED <<pc, onDisk>>
    /\ \/ SetCompletion(p, b) /\ Overtake(p, b)
       \/ SetCompletionFails(p, b) /\ UNCHANGED overtaken

LEMMA Marks ==
    ASSUME NEW p \in Pieces
    PROVE  /\ MarkComplete(p) => Mark(p, TRUE) /\ UNCHANGED eviction
           /\ MarkNotComplete(p) => Mark(p, FALSE) /\ UNCHANGED eviction
           /\ \A e \in Evictors : EvictSet(e, p) => Mark(p, FALSE)
BY DEF MarkComplete, MarkNotComplete, EvictSet, Mark

\* What a mark leaves complete in the database was so before, and is in "overtaken"
\* if it was; or it is the piece that was marked, on disk and not being evicted, or
\* in "overtaken".
LEMMA MarkEffect ==
    ASSUME NEW p \in Pieces, NEW b \in BOOLEAN, MarkedFirst, Mark(p, b)
    PROVE  /\ pc = "map" => UNCHANGED <<dbPieces, overtaken>>
           /\ \A q \in dbPieces' :
                 \/ q \in dbPieces /\ (q \in overtaken => q \in overtaken')
                 \/ /\ q = p
                    /\ \/ q \in onDisk /\ ~ BeingEvicted(q)
                       \/ q \in overtaken'
<1>1. CASE SetCompletionFails(p, b) /\ UNCHANGED overtaken
  BY <1>1, SetEffect
<1>2. CASE SetCompletion(p, b) /\ Overtake(p, b)
  <2>1. CASE pc = "map"
    BY <1>2, <2>1, SetEffect DEF Overtake
  <2>2. CASE pc = "sqlite" /\ b
    <3>1. SetCompletion(p, TRUE) /\ Overtake(p, TRUE)
      BY <1>2, <2>2
    <3>2. dbPieces' = dbPieces \cup {p}
      BY <2>2, <3>1, SetEffect
    <3>3. overtaken' = IF BeingEvicted(p) \/ p \notin onDisk
                       THEN overtaken \cup {p} ELSE overtaken \ {p}
      BY <2>2, <3>1 DEF Overtake
    <3> QED BY <2>2, <3>2, <3>3
  <2>3. CASE pc = "sqlite" /\ ~ b
    <3>1. SetCompletion(p, FALSE) /\ overtaken' = overtaken \ {p}
      BY <1>2, <2>3 DEF Overtake
    <3> QED BY <2>3, <3>1, SetEffect
  <2> QED BY <2>1, <2>2, <2>3 DEF MarkedFirst
<1> QED BY <1>1, <1>2 DEF Mark

LEMMA MarkedFirstNext ==
    ASSUME MarkedFirst, [Next]_vars
    PROVE  MarkedFirst'
<1>1. ASSUME NEW p \in Pieces, MarkComplete(p) \/ MarkNotComplete(p)
      PROVE  MarkedFirst'
  <2>1. PICK b \in BOOLEAN : Mark(p, b)
    BY <1>1, Marks
  <2>2. UNCHANGED <<pc, eviction>>
    BY <1>1, <2>1, Marks DEF Mark
  <2>3. \A q : BeingEvicted(q)' <=> BeingEvicted(q)
    BY <2>2 DEF BeingEvicted
  <2> QED BY <2>1, <2>2, <2>3, MarkEffect DEF MarkedFirst
<1>2. ASSUME NEW e \in Evictors, NEW p \in Pieces, EvictSet(e, p)
      PROVE  MarkedFirst'
  <2>1. Mark(p, FALSE) /\ pc' = pc
    BY <1>2, Marks DEF Mark
  <2>2. CASE SetCompletion(p, FALSE) /\ Evict(e, [at |-> "files", piece |-> p])
    <3>1. DOMAIN eviction' = Evictors
      BY <2>2 DEF Evict, MarkedFirst
    <3>2. \A q : q # p /\ BeingEvicted(q)' => BeingEvicted(q)
      BY <2>2 DEF Evict, BeingEvicted, MarkedFirst
    <3>3. pc = "sqlite" => p \notin dbPieces'
      BY <2>2, SetEffect
    <3> QED BY <2>1, <3>1, <3>2, <3>3, MarkEffect DEF MarkedFirst
  <2>3. CASE UNCHANGED eviction
    <3>1. \A q : BeingEvicted(q)' <=> BeingEvicted(q)
      BY <2>3 DEF BeingEvicted
    <3> QED BY <2>1, <2>3, <3>1, MarkEffect DEF MarkedFirst
  <2> QED BY <1>2, <2>2, <2>3 DEF EvictSet
<1>3. ASSUME NEW e \in Evictors, EvictFiles(e) \/ EvictPunch(e)
      PROVE  MarkedFirst'
  <2>1. UNCHANGED <<dbPieces, overtaken, pc>>
    BY <1>3, OtherEffect DEF EvictFiles, EvictPunch
  <2>2. /\ eviction[e].at # "idle"
        /\ \/ Evict(e, [at |-> "punch", piece |-> eviction[e].piece])
           \/ Evict(e, [at |-> "idle"])
    BY <1>3 DEF EvictFiles, EvictPunch
  <2>3. /\ DOMAIN eviction' = Evictors
        /\ \A q : BeingEvicted(q)' => BeingEvicted(q)
    BY <2>2 DEF Evict, BeingEvicted, MarkedFirst
  <2> QED BY <2>1, <2>3 DEF MarkedFirst
<1>4. CASE Reopen
  BY <1>4 DEF Reopen, MarkedFirst, Resting, BeingEvicted
<1>5. CASE (\E p \in Pieces : WriteAt(p) \/ Hash(p)) \/ Poll \/ UNCHANGED vars
  <2>1. UNCHANGED <<dbPieces, overtaken, pc, eviction>>
    BY <1>5, OtherEffect DEF WriteAt, Hash, Poll, vars, diskVars
  <2> QED BY <2>1 DEF MarkedFirst, BeingEvicted
<1> QED BY <1>1, <1>2, <1>3, <1>4, <1>5 DEF Next

\* Whatever fails, whenever the process dies, and however evictions and marks of a
\* piece overlap, a hole that the database calls complete comes from an eviction that
\* ran over a store in memory (pieceCompletionForDir, mmap.go:570), or from a mark
\* that came after the Set of an eviction (mmap.go:359) on data that the eviction was
\* still to punch, or had punched since it was hashed.  Holes of the second kind are
\* announced (HolesAnnounced of PieceStorage), those of the first are not.
THEOREM OnlyFallbackLeavesHoles == Spec => OnlyFallbackForgets
<1>1. Init => MarkedFirst
  BY DEF Init, MarkedFirst, Resting, BeingEvicted
<1>2. ASSUME MarkedFirst, [Next]_vars, NEW p \in Forgotten', p \notin Forgotten,
             pc # "map"
      PROVE  FALSE
  <2>1. p \in dbPieces' /\ p \notin onDisk' /\ p \notin overtaken'
    BY <1>2 DEF Forgotten
  <2>2. ASSUME NEW q \in Pieces, NEW b \in BOOLEAN, Mark(q, b) PROVE FALSE
    BY <1>2, <2>1, <2>2, MarkEffect DEF Mark, Forgotten
  <2>3. ASSUME NEW e \in Evictors, EvictPunch(e) PROVE FALSE
    <3>1. UNCHANGED <<dbPieces, overtaken>>
      BY <2>3, OtherEffect
    <3>2. eviction[e].at # "idle" /\ (onDisk' = onDisk \ {eviction[e].piece} \/ onDisk' = onDisk)
      BY <2>3 DEF EvictPunch
    <3>3. p = eviction[e].piece
      BY <1>2, <2>1, <3>1, <3>2 DEF Forgotten
    <3> QED BY <1>2, <2>1, <3>1, <3>2, <3>3 DEF MarkedFirst, BeingEvicted
  <2>4. ASSUME \/ \E q \in Pieces : WriteAt(q) \/ Hash(q)
               \/ \E e \in Evictors : EvictFiles(e)
               \/ Reopen
               \/ Poll
               \/ UNCHANGED vars
        PROVE  FALSE
    <3>1. UNCHANGED <<dbPieces, overtaken>> /\ onDisk \subseteq onDisk'
      BY <2>4, OtherEffect
         DEF WriteAt, Hash, EvictFiles, Reopen, Poll, vars, diskVars
    <3> QED BY <1>2, <2>1, <3>1 DEF Forgotten
  <2> QED BY <1>2, <2>2, <2>3, <2>4, Marks DEF Next
<1>3. MarkedFirst /\ [Next]_vars => [\A p \in Forgotten' : p \in Forgotten \/ pc = "map"]_vars
  BY <1>2
<1> QED BY <1>1, <1>3, MarkedFirstNext, PTL DEF Spec, OnlyFallbackForgets
==============================================================================
